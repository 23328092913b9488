---------------------------- MODULE BridgeSession ----------------------------
(***************************************************************************)
(* What the bridge does to the JSON-RPC conversation between one client    *)
(* and its pooled agent (handle_websocket_pooled and its two intercepts in *)
(* core/src/bridge.rs, the response caches of core/src/agent_pool.rs).     *)
(*                                                                         *)
(* A client connects, initializes, opens a session and prompts; it may     *)
(* vanish and come back at any moment while the agent lives on.  The       *)
(* connection that spawned the agent captures its initialize and session   *)
(* responses; later connections answer those requests from the cache.      *)
(* Task 1 carries client messages to the agent and Task 2 agent lines to   *)
(* the client.  bridge/appendMemory makes Task 1 send a prompt of the      *)
(* bridge's own, whose output Task 2 must keep from the client.            *)
(*                                                                         *)
(* A client may also return before the bridge has noticed that it went:    *)
(* the connection it left behind still has its Task 2, which caches for    *)
(* the token and rewrites MEMORY.md beside the new connection.             *)
(*                                                                         *)
(* One device uses the token, so the echo of prompts to other devices and  *)
(* the sharing of an agent are left out; how lines wait for an absent      *)
(* client is AgentPool's subject, here it is one buffer.                   *)
(***************************************************************************)
EXTENDS Integers, Sequences, FiniteSets

CONSTANTS
  MaxReq,    \* bound: client messages, numbered in the order they are sent
  MaxConn,   \* bound: connections of the client
  RxCap      \* capacity of the agent's broadcast channel (256)

ASSUME SessionAssumption ==
  MaxReq \in Nat \ {0} /\ MaxConn \in Nat \ {0} /\ RxCap \in Nat \ {0}

VARIABLES
  (* the client *)
  stage,     \* what it will ask for next: "init", "session", "ready"
  asked,     \* its unanswered initialize or session request, or 0
  resume,    \* it has a session to load
  sent,      \* messages sent so far
  toBridge,  \* messages on the wire
  answers,   \* responses it received to each of its requests (history)
  (* the connection *)
  conn,      \* phase of handle_websocket_pooled, or "none"
  epoch,     \* number of connections so far (history)
  fresh,     \* needs_init_capture
  replay,    \* buffered lines still to be replayed
  rx,        \* lines in the broadcast receiver
  inject,    \* synthetic responses from Task 1 to Task 2
  captured,  \* responses Task 2 has captured: init_captured, session_captured
  session,   \* current_session_id, or 0
  injected,  \* memory_injected
  appending, \* Task 1's progress through bridge/appendMemory
  update,    \* the memory it has read for the update
  suppress,  \* suppress_response_id, or 0
  lagged,    \* its receiver has skipped lines (history)
  (* the connection left behind, whose client has gone unnoticed *)
  left,      \* Task 2 of that connection
  haunted,   \* it belongs to a predecessor of the pool's agent (history)
  copied,    \* requests answered while it and a new one listened (history)
  (* the pool's entry and the file *)
  initCache, \* cached_init_response is present
  sessCache, \* session of cached_session_response, or 0
  buffer,    \* lines written while no client listens
  file,      \* entries of MEMORY.md
  landing,   \* entries whose write has been queued and not yet made
  rewriting, \* rewrites of the file under way
  settled,   \* entries that landed with no memory update under way (history)
  torn,      \* the file was read or left between the two steps of a rewrite (history)
  (* the agent *)
  alive,     \* the token has a live agent
  stdin,     \* messages it has not handled yet
  started,   \* it has streamed output for the first of them
  sessions   \* sessions it has created

clientVars == <<stage, asked, resume, sent, answers>>
task1Vars  == <<injected, appending, update>>
task2Vars  == <<captured, session>>
cacheVars  == <<initCache, sessCache>>
agentVars  == <<alive, stdin, started, sessions>>
connVars   == <<conn, epoch, fresh>>
leftVars   == <<lagged, left, haunted, copied>>
fileVars   == <<file, landing, rewriting, settled, torn>>
vars == <<clientVars, toBridge, connVars, replay, rx, inject, task1Vars, task2Vars,
          suppress, cacheVars, buffer, fileVars, leftVars, agentVars>>

Req == 1 .. MaxReq

(* What an agent is sent and what it writes.  A line belongs to the        *)
(* client's request id, or to the memory update made for append id.        *)
Message(kind, id, text) == [kind |-> kind, id |-> id, text |-> text, epoch |-> epoch]
LineOf(kind, msg, text) ==
  [kind |-> kind, id |-> msg.id, text |-> text, epoch |-> msg.epoch,
   silent |-> msg.kind = "memory"]

Synthetic(kind, id) ==
  [kind |-> kind, id |-> id, text |-> {}, epoch |-> epoch, silent |-> FALSE]

NoneLeft ==
  [on |-> FALSE, ours |-> FALSE, by |-> 0, fresh |-> FALSE, captured |-> {}, suppress |-> 0,
   rx |-> <<>>]

Init ==
  /\ stage = "init" /\ asked = 0 /\ resume = FALSE /\ sent = 0
  /\ toBridge = <<>>
  /\ answers = [r \in Req |-> 0]
  /\ conn = "none" /\ epoch = 0 /\ fresh = FALSE
  /\ replay = <<>> /\ rx = <<>> /\ inject = <<>>
  /\ captured = {} /\ session = 0
  /\ injected = FALSE /\ appending = "no" /\ update = {} /\ suppress = 0
  /\ initCache = FALSE /\ sessCache = 0
  /\ lagged = FALSE /\ left = NoneLeft /\ haunted = FALSE /\ copied = {}
  /\ buffer = <<>>
  /\ file = {} /\ landing = {} /\ rewriting = {} /\ settled = {} /\ torn = FALSE
  /\ alive = FALSE /\ stdin = <<>> /\ started = FALSE /\ sessions = {}

-----------------------------------------------------------------------------
(* The client (external): initialize, then session/new or session/load,    *)
(* each after the answer to the last, then prompts and memory notes; one   *)
(* that holds a session may prompt before it has been through that again.  *)

ClientSends(kind) ==
  /\ conn # "none" /\ sent < MaxReq /\ asked = 0
  /\ \/ stage = "init" /\ kind = "init"
     \/ stage = "session" /\ kind = "new"
     \/ stage = "session" /\ resume /\ kind = "load"
     \/ (stage = "ready" \/ resume) /\ kind \in {"prompt", "append"}
  /\ sent' = sent + 1
  /\ asked' = IF kind \in {"prompt", "append"} THEN 0 ELSE sent + 1
  /\ toBridge' = Append(toBridge, [kind |-> kind, id |-> sent + 1])
  /\ UNCHANGED <<stage, resume, answers, connVars, replay, rx, inject, task1Vars, task2Vars,
                 suppress, cacheVars, buffer, fileVars, leftVars, agentVars>>

IsResponse(line) == line.kind # "update" /\ ~line.silent

(* A line reaches the client.                                              *)
Deliver(line) ==
  /\ answers' = IF IsResponse(line) THEN [answers EXCEPT ![line.id] = @ + 1] ELSE answers
  /\ asked' = IF IsResponse(line) /\ line.id = asked THEN 0 ELSE asked
  /\ IF IsResponse(line) /\ line.id = asked
     THEN /\ stage' = CASE line.kind = "init" -> "session"
                        [] line.kind \in {"session", "loaded"} -> "ready"
                        [] OTHER -> stage
          /\ resume' = IF line.kind = "error" THEN FALSE
                       ELSE resume \/ line.kind = "session"
     ELSE UNCHANGED <<stage, resume>>
  /\ UNCHANGED sent

-----------------------------------------------------------------------------
(* get_or_spawn: the live agent with its caches and buffered lines, or a   *)
(* new one with neither.                                                   *)

CachesKept == UNCHANGED cacheVars
CachesEmpty == initCache' = FALSE /\ sessCache' = 0

Connect ==
  /\ conn = "none" /\ epoch < MaxConn
  /\ epoch' = epoch + 1
  /\ stage' = "init" /\ asked' = 0
  /\ IF alive
     THEN /\ conn' = IF initCache THEN "init" ELSE IF sessCache # 0 THEN "session" ELSE "replay"
          /\ fresh' = FALSE
          /\ session' = sessCache
          /\ replay' = buffer
          /\ UNCHANGED <<cacheVars, left, haunted, agentVars>>
     ELSE /\ conn' = "live"
          /\ fresh' = TRUE
          /\ session' = 0
          /\ replay' = <<>>
          /\ CachesEmpty
          /\ left' = [left EXCEPT !.ours = FALSE]
          /\ haunted' = left.on
          /\ alive' = TRUE /\ stdin' = <<>> /\ started' = FALSE /\ sessions' = {}
  /\ buffer' = <<>>
  /\ UNCHANGED <<resume, sent, answers, toBridge, rx, inject, task1Vars, captured,
                 suppress, lagged, copied, fileVars>>

ConnectionGone ==
  /\ conn # "none"
  /\ conn' = "none" /\ fresh' = FALSE
  /\ asked' = 0
  /\ toBridge' = <<>> /\ replay' = <<>> /\ rx' = <<>> /\ inject' = <<>>
  /\ captured' = {} /\ session' = 0
  /\ injected' = FALSE /\ appending' = "no" /\ update' = {} /\ suppress' = 0
  /\ lagged' = FALSE
  /\ UNCHANGED <<stage, resume, sent, answers, epoch, haunted, copied, cacheVars, buffer,
                 fileVars, agentVars>>

(* The client or its network goes: the tasks are aborted and all they held *)
(* is lost, except what has been handed to the file system.                *)
Disconnect == ConnectionGone /\ UNCHANGED left

(* The client goes and the bridge has not noticed: Task 1 has nothing more *)
(* to read, what was on the wire is lost, and Task 2 goes on.  Bound: one  *)
(* such connection at a time.                                              *)
Leave ==
  /\ ConnectionGone
  /\ appending = "no" /\ ~left.on
  /\ left' = [on |-> TRUE, ours |-> alive, by |-> epoch, fresh |-> fresh, captured |-> captured,
              suppress |-> suppress, rx |-> rx]

-----------------------------------------------------------------------------
(* The intercepts of a reused connection                                   *)

NextMessage(kinds) == toBridge # <<>> /\ Head(toBridge).kind \in kinds

AfterInit == IF sessCache # 0 THEN "session" ELSE "replay"

(* handle_initialize_intercept answers initialize from the cache; any      *)
(* other first message is consumed and lost.                               *)
InterceptInit ==
  /\ conn = "init" /\ toBridge # <<>>
  /\ toBridge' = Tail(toBridge)
  /\ conn' = AfterInit
  /\ IF NextMessage({"init"}) THEN Deliver(Synthetic("init", Head(toBridge).id))
                              ELSE UNCHANGED clientVars
  /\ UNCHANGED <<epoch, fresh, replay, rx, inject, task1Vars, task2Vars, suppress,
                 cacheVars, buffer, fileVars, leftVars, agentVars>>

(* handle_create_session_intercept answers session requests with the       *)
(* cached session and an initialize that was never cached with a minimal   *)
(* response, and skips notifications; another request is consumed and      *)
(* lost.  The client's reset (session/new) asks for the memory to be       *)
(* injected again.                                                         *)
InterceptSession ==
  /\ conn = "session" /\ toBridge # <<>>
  /\ toBridge' = Tail(toBridge)
  /\ \/ /\ NextMessage({"new", "load"})
        /\ Deliver(Synthetic("session", Head(toBridge).id))
        /\ conn' = "replay"
        /\ injected' = (Head(toBridge).kind # "new")
     \/ /\ NextMessage({"init"})
        /\ Deliver(Synthetic("init", Head(toBridge).id))
        /\ UNCHANGED <<conn, injected>>
     \/ /\ NextMessage({"append"})
        /\ UNCHANGED <<clientVars, conn, injected>>
     \/ /\ NextMessage({"prompt"})
        /\ conn' = "replay"
        /\ injected' = TRUE
        /\ UNCHANGED clientVars
  /\ UNCHANGED <<epoch, fresh, replay, rx, inject, appending, update, task2Vars, suppress,
                 cacheVars, buffer, fileVars, leftVars, agentVars>>

(* 30 seconds pass without a message: the intercept is given up.           *)
InterceptTimeout ==
  /\ conn \in {"init", "session"} /\ toBridge = <<>>
  /\ conn' = IF conn = "init" THEN AfterInit ELSE "replay"
  /\ injected' = (injected \/ conn = "session")
  /\ UNCHANGED <<clientVars, toBridge, epoch, fresh, replay, rx, inject, appending, update, task2Vars,
                 suppress, cacheVars, buffer, fileVars, leftVars, agentVars>>

ReplayLine ==
  /\ conn = "replay" /\ replay # <<>>
  /\ Deliver(Head(replay))
  /\ replay' = Tail(replay)
  /\ UNCHANGED <<toBridge, connVars, rx, inject, task1Vars, task2Vars, suppress,
                 cacheVars, buffer, fileVars, leftVars, agentVars>>

ReplayComplete ==
  /\ conn = "replay" /\ replay = <<>>
  /\ conn' = "live"
  /\ UNCHANGED <<clientVars, toBridge, epoch, fresh, replay, rx, inject, task1Vars, task2Vars,
                 suppress, cacheVars, buffer, fileVars, leftVars, agentVars>>

-----------------------------------------------------------------------------
(* Task 1                                                                  *)

Task1Ready(kinds) == conn = "live" /\ appending = "no" /\ NextMessage(kinds)

(* The channel to the agent; what is sent to a dead one is lost, and the   *)
(* send that notices it ends the connection (Disconnect).                  *)
SendToAgent(msg) == stdin' = IF alive THEN Append(stdin, msg) ELSE stdin

(* A fresh agent has nothing to load: Task 1 answers with an error.        *)
ForwardedToo(msg) == SendToAgent(Message(msg.kind, msg.id, {}))
NotForwarded(msg) == UNCHANGED stdin
RefuseLoad ==
  /\ Task1Ready({"load"}) /\ fresh
  /\ toBridge' = Tail(toBridge)
  /\ inject' = Append(inject, Synthetic("error", Head(toBridge).id))
  /\ NotForwarded(Head(toBridge))
  /\ UNCHANGED <<clientVars, connVars, replay, rx, task1Vars, task2Vars, suppress,
                 cacheVars, buffer, fileVars, leftVars, alive, started, sessions>>

(* Everything else goes to the agent, the first prompt with the memory.    *)
Forward ==
  /\ Task1Ready({"init", "new", "load", "prompt"})
  /\ Head(toBridge).kind = "load" => ~fresh
  /\ LET msg == Head(toBridge)
         memory == IF msg.kind = "prompt" /\ ~injected THEN file ELSE {}
     IN  /\ SendToAgent(Message(msg.kind, msg.id, memory))
         /\ injected' = (injected \/ msg.kind = "prompt")
  /\ toBridge' = Tail(toBridge)
  /\ UNCHANGED <<clientVars, connVars, replay, rx, inject, appending, update, task2Vars,
                 suppress, cacheVars, buffer, fileVars, leftVars, alive, started, sessions>>

(* bridge/appendMemory: the entry is appended to the file; with a session  *)
(* known the file is read back, suppression armed and the update sent.     *)

(* Updates that have been read and may still rewrite the file.             *)
UpdateUnderWay ==
  \/ appending = "armed" \/ rewriting # {}
  \/ \E i \in DOMAIN stdin : stdin[i].kind = "memory"
  \/ \E i \in DOMAIN rx : rx[i].silent
  \/ \E i \in DOMAIN left.rx : left.rx[i].silent

(* write_all only queues the write; nothing waits for it (no flush).       *)
AppendFile ==
  /\ Task1Ready({"append"})
  /\ landing' = landing \cup {Head(toBridge).id}
  /\ IF session # 0 THEN appending' = "written" /\ UNCHANGED toBridge
                    ELSE toBridge' = Tail(toBridge) /\ UNCHANGED appending
  /\ UNCHANGED <<clientVars, connVars, replay, rx, inject, injected, update, task2Vars,
                 suppress, cacheVars, buffer, file, rewriting, settled, torn, leftVars, agentVars>>

(* The file has reached its limit, or cannot be opened or written.         *)
RefuseAppend ==
  /\ Task1Ready({"append"})
  /\ toBridge' = Tail(toBridge)
  /\ UNCHANGED <<clientVars, connVars, replay, rx, inject, task1Vars, task2Vars, suppress,
                 cacheVars, buffer, fileVars, leftVars, agentVars>>

(* The file is read back, with or without the entry just queued.           *)
ArmedAfterSend == UNCHANGED suppress
Armed == suppress' = Head(toBridge).id
ReadTooEarly == file \ {Head(toBridge).id}
ReadBack == file
ReadAndArm ==
  /\ conn = "live" /\ appending = "written"
  /\ file # {}
  /\ Armed
  /\ update' = ReadBack
  /\ torn' = (torn \/ \E w \in rewriting : w.cut)
  /\ appending' = "armed"
  /\ UNCHANGED <<clientVars, toBridge, connVars, replay, rx, inject, injected, task2Vars,
                 cacheVars, buffer, file, landing, rewriting, settled, leftVars, agentVars>>

(* It is empty or cannot be read: there is no update.                      *)
ReadNothing ==
  /\ conn = "live" /\ appending = "written"
  /\ appending' = "no"
  /\ toBridge' = Tail(toBridge)
  /\ UNCHANGED <<clientVars, connVars, replay, rx, inject, injected, update, task2Vars, suppress,
                 cacheVars, buffer, fileVars, leftVars, agentVars>>

SendUpdate ==
  /\ conn = "live" /\ appending = "armed"
  /\ SendToAgent(Message("memory", Head(toBridge).id, update))
  /\ appending' = "no" /\ update' = {}
  /\ toBridge' = Tail(toBridge)
  /\ UNCHANGED <<clientVars, connVars, replay, rx, inject, injected, task2Vars, suppress,
                 cacheVars, buffer, fileVars, leftVars, alive, started, sessions>>

-----------------------------------------------------------------------------
(* Task 2                                                                  *)

(* Capture the first initialize and session responses of a fresh agent;    *)
(* forget a session the agent says it does not have.  Both are kept by     *)
(* token, whichever connection it is.                                      *)
Takes(line, new, done) == new /\ line.kind \in {"init", "session"} \ done
Taken(line, new, done) == IF Takes(line, new, done) THEN done \cup {line.kind} ELSE done
CacheLine(line, new, done) ==
  /\ initCache' = (initCache \/ (Takes(line, new, done) /\ line.kind = "init"))
  /\ sessCache' = IF Takes(line, new, done) /\ line.kind = "session" THEN line.id
                  ELSE IF line.kind = "error" THEN 0 ELSE sessCache

Capture(line) ==
  /\ CacheLine(line, fresh, captured)
  /\ captured' = Taken(line, fresh, captured)
  /\ session' = IF Takes(line, fresh, captured) /\ line.kind = "session" THEN line.id ELSE session

(* Task 2 awaits the rewrite it has begun.                                 *)
Waits(e) == \E w \in rewriting : w.by = e
Task2Ready == conn = "live" /\ rx # <<>> /\ ~Waits(epoch)

ForwardLine ==
  /\ Task2Ready /\ suppress = 0
  /\ Capture(Head(rx))
  /\ Deliver(Head(rx))
  /\ rx' = Tail(rx)
  /\ UNCHANGED <<toBridge, connVars, replay, inject, task1Vars, suppress, buffer, fileVars,
                 leftVars, agentVars>>

(* Suppression armed: the line is dropped whatever it belongs to; merged   *)
(* content in it rewrites the file, and the final response with the armed  *)
(* id ends the suppression.                                                *)
FinalMissed(line, s) == FALSE
IsFinal(line, s) == line.kind = "final" /\ line.silent /\ line.id = s
StillArmed(line, s) == IF IsFinal(line, s) THEN 0 ELSE s
BeginRewrite(line, e) ==
  rewriting' = IF line.text # {}
               THEN rewriting \cup {[by |-> e, text |-> line.text, cut |-> FALSE]}
               ELSE rewriting
DropLine ==
  /\ Task2Ready /\ suppress # 0
  /\ Capture(Head(rx))
  /\ suppress' = StillArmed(Head(rx), suppress)
  /\ BeginRewrite(Head(rx), epoch)
  /\ rx' = Tail(rx)
  /\ UNCHANGED <<clientVars, toBridge, connVars, replay, inject, task1Vars, buffer, file, landing,
                 settled, torn, leftVars, agentVars>>

ForwardInjected ==
  /\ conn = "live" /\ inject # <<>> /\ ~Waits(epoch)
  /\ Deliver(Head(inject))
  /\ inject' = Tail(inject)
  /\ UNCHANGED <<toBridge, connVars, replay, rx, task1Vars, task2Vars, suppress, cacheVars,
                 buffer, fileVars, leftVars, agentVars>>

-----------------------------------------------------------------------------
(* Task 2 of the connection left behind: the same, with nobody to read     *)
(* what it sends.                                                          *)

LeftReady == left.on /\ left.rx # <<>> /\ ~Waits(left.by)

LeftTakes ==
  LET line == Head(left.rx)
  IN  /\ CacheLine(line, left.fresh, left.captured)
      /\ left' = [left EXCEPT !.rx = Tail(@), !.captured = Taken(line, left.fresh, @),
                              !.suppress = StillArmed(line, @)]

(* The socket still accepts the line.                                      *)
LeftSends ==
  /\ LeftReady /\ left.suppress = 0
  /\ LeftTakes
  /\ UNCHANGED <<clientVars, toBridge, connVars, replay, rx, inject, task1Vars, task2Vars,
                 suppress, buffer, fileVars, lagged, haunted, copied, agentVars>>

(* The send fails: the line waits in the token's buffer, the task ends.    *)
LeftFails ==
  /\ LeftReady /\ left.suppress = 0
  /\ CacheLine(Head(left.rx), left.fresh, left.captured)
  /\ left' = NoneLeft
  /\ buffer' = Append(buffer, Head(left.rx))
  /\ UNCHANGED <<clientVars, toBridge, connVars, replay, rx, inject, task1Vars, task2Vars,
                 suppress, fileVars, lagged, haunted, copied, agentVars>>

LeftDrops ==
  /\ LeftReady /\ left.suppress # 0
  /\ LeftTakes
  /\ BeginRewrite(Head(left.rx), left.by)
  /\ UNCHANGED <<clientVars, toBridge, connVars, replay, rx, inject, task1Vars, task2Vars,
                 suppress, buffer, file, landing, settled, torn, lagged, haunted, copied, agentVars>>

(* The missing pong, or the end of the agent's channel, ends it.           *)
LeftEnds ==
  /\ left.on
  /\ left' = NoneLeft
  /\ UNCHANGED <<clientVars, toBridge, connVars, replay, rx, inject, task1Vars, task2Vars,
                 suppress, cacheVars, buffer, fileVars, lagged, haunted, copied, agentVars>>

-----------------------------------------------------------------------------
(* The file system: queued writes are made on other threads, which no      *)
(* aborted task stops.                                                     *)

Land(entry) ==
  /\ entry \in landing
  /\ landing' = landing \ {entry}
  /\ \/ /\ file' = file \cup {entry}
        /\ settled' = IF UpdateUnderWay THEN settled ELSE settled \cup {entry}
     \/ UNCHANGED <<file, settled>>   \* the write fails and nobody asks
  /\ UNCHANGED <<clientVars, toBridge, connVars, replay, rx, inject, task1Vars, task2Vars,
                 suppress, cacheVars, buffer, rewriting, torn, leftVars, agentVars>>

(* A rewrite truncates the file, then writes; either may fail.             *)
Truncate(w) ==
  /\ w \in rewriting /\ ~w.cut
  /\ file' = {}
  /\ rewriting' = (rewriting \ {w}) \cup {[w EXCEPT !.cut = TRUE]}
  /\ UNCHANGED <<clientVars, toBridge, connVars, replay, rx, inject, task1Vars, task2Vars,
                 suppress, cacheVars, buffer, landing, settled, torn, leftVars, agentVars>>

EndRewrite(w) ==
  /\ w \in rewriting
  /\ rewriting' = rewriting \ {w}
  /\ \/ w.cut /\ file' = w.text /\ UNCHANGED torn
     \/ torn' = (torn \/ w.cut) /\ UNCHANGED file
  /\ UNCHANGED <<clientVars, toBridge, connVars, replay, rx, inject, task1Vars, task2Vars,
                 suppress, cacheVars, buffer, landing, settled, leftVars, agentVars>>

-----------------------------------------------------------------------------
(* The agent (external): it handles its messages in order, streaming       *)
(* output for a prompt before the final response.                          *)

(* A receiver behind by the channel's capacity skips its oldest line       *)
(* (Lagged); without a receiver the line is buffered.                      *)
Push(q, line) == Append(IF Len(q) >= RxCap THEN Tail(q) ELSE q, line)

LeftListens == left.on /\ left.ours
Write(line) ==
  /\ rx' = IF conn # "none" THEN Push(rx, line) ELSE rx
  /\ lagged' = (lagged \/ (conn # "none" /\ Len(rx) >= RxCap))
  /\ left' = IF LeftListens THEN [left EXCEPT !.rx = Push(@, line)] ELSE left
  /\ buffer' = IF conn = "none" /\ ~LeftListens THEN Append(buffer, line) ELSE buffer
  /\ copied' = IF conn # "none" /\ LeftListens /\ IsResponse(line) THEN copied \cup {line.id}
                                                                  ELSE copied
  /\ UNCHANGED haunted

AgentStreams ==
  /\ alive /\ stdin # <<>> /\ ~started
  /\ LET msg == Head(stdin)
     IN  /\ msg.kind \in {"prompt", "memory"}
         /\ Write(LineOf("update", msg, IF msg.kind = "memory" THEN msg.text ELSE {}))
  /\ started' = TRUE
  /\ UNCHANGED <<clientVars, toBridge, connVars, replay, inject, task1Vars, task2Vars, suppress,
                 cacheVars, fileVars, alive, stdin, sessions>>

AgentAnswers ==
  /\ alive /\ stdin # <<>>
  /\ LET msg == Head(stdin)
     IN  /\ \/ msg.kind = "init" /\ Write(LineOf("init", msg, {}))
            \/ msg.kind = "new" /\ Write(LineOf("session", msg, {}))
            \/ msg.kind = "load" /\ \E k \in {"loaded", "error"} : Write(LineOf(k, msg, {}))
            \/ msg.kind \in {"prompt", "memory"} /\ Write(LineOf("final", msg, {}))
         /\ sessions' = IF msg.kind = "new" THEN sessions \cup {msg.id} ELSE sessions
  /\ stdin' = Tail(stdin)
  /\ started' = FALSE
  /\ UNCHANGED <<clientVars, toBridge, connVars, replay, inject, task1Vars, task2Vars, suppress,
                 cacheVars, fileVars, alive>>

(* The agent exits; its connection only finds out when it next sends.      *)
AgentDies ==
  /\ alive
  /\ alive' = FALSE /\ stdin' = <<>> /\ started' = FALSE
  /\ UNCHANGED <<clientVars, toBridge, connVars, replay, rx, inject, task1Vars, task2Vars,
                 suppress, cacheVars, buffer, fileVars, leftVars, sessions>>

-----------------------------------------------------------------------------
Client == \E kind \in {"init", "new", "load", "prompt", "append"} : ClientSends(kind)

Intercept ==
  InterceptInit \/ InterceptSession \/ InterceptTimeout \/ ReplayLine \/ ReplayComplete

Task1 ==
  \/ RefuseLoad \/ Forward \/ AppendFile \/ RefuseAppend \/ ReadAndArm \/ ReadNothing \/ SendUpdate
Task2 == ForwardLine \/ DropLine \/ ForwardInjected
Agent == AgentStreams \/ AgentAnswers \/ AgentDies

LeftTask2 == LeftSends \/ LeftFails \/ LeftDrops \/ LeftEnds
Rewrite == \E w \in rewriting : Truncate(w) \/ EndRewrite(w)
FileSystem == Rewrite \/ \E entry \in landing : Land(entry)

Next ==
  \/ Client \/ Connect \/ Disconnect \/ Leave \/ Intercept \/ Task1 \/ Task2
  \/ LeftTask2 \/ FileSystem \/ Agent

Spec == Init /\ [][Next]_vars

(* The two tasks and the intercepts are awaited futures that run whenever  *)
(* they can; the agent is assumed to answer while it lives.  The client    *)
(* owes nothing, and nothing has to break.                                 *)
Fairness ==
  /\ WF_vars(InterceptInit \/ InterceptSession)
  /\ WF_vars(ReplayLine \/ ReplayComplete)
  /\ WF_vars(Task1)
  /\ WF_vars(ForwardLine \/ DropLine)
  /\ WF_vars(ForwardInjected)
  /\ WF_vars(Rewrite)
  /\ WF_vars(AgentAnswers)

FairSpec == Spec /\ Fairness

-----------------------------------------------------------------------------
(* Properties.                                                             *)

ClientMessage == [kind : {"init", "new", "load", "prompt", "append"}, id : Req]
AgentMessage ==
  [kind : {"init", "new", "load", "prompt", "memory"}, id : Req, text : SUBSET Req, epoch : Nat]
Line ==
  [kind : {"init", "session", "loaded", "error", "update", "final"}, id : Req,
   text : SUBSET Req, epoch : Nat, silent : BOOLEAN]

LeftBehind ==
  [on : BOOLEAN, ours : BOOLEAN, by : Nat, fresh : BOOLEAN, captured : SUBSET {"init", "session"},
   suppress : 0 .. MaxReq, rx : Seq(Line)]

TypeOK ==
  /\ stage \in {"init", "session", "ready"} /\ resume \in BOOLEAN
  /\ asked \in 0 .. MaxReq /\ sent \in 0 .. MaxReq
  /\ toBridge \in Seq(ClientMessage)
  /\ answers \in [Req -> Nat]
  /\ conn \in {"none", "init", "session", "replay", "live"}
  /\ epoch \in Nat /\ fresh \in BOOLEAN
  /\ replay \in Seq(Line) /\ rx \in Seq(Line) /\ inject \in Seq(Line) /\ buffer \in Seq(Line)
  /\ captured \subseteq {"init", "session"} /\ session \in 0 .. MaxReq
  /\ injected \in BOOLEAN /\ appending \in {"no", "written", "armed"}
  /\ update \in SUBSET Req /\ suppress \in 0 .. MaxReq
  /\ initCache \in BOOLEAN /\ sessCache \in 0 .. MaxReq
  /\ lagged \in BOOLEAN /\ haunted \in BOOLEAN /\ copied \in SUBSET Req
  /\ left \in LeftBehind
  /\ file \in SUBSET Req /\ landing \in SUBSET Req /\ settled \in SUBSET Req /\ torn \in BOOLEAN
  /\ rewriting \subseteq [by : Nat, text : SUBSET Req, cut : BOOLEAN]
  /\ alive \in BOOLEAN /\ stdin \in Seq(AgentMessage)
  /\ started \in BOOLEAN /\ sessions \subseteq Req

(* Over disconnects, intercepts, injected errors, failed sends and         *)
(* replays, no request of the client is ever answered twice; one answered  *)
(* while a connection left behind still listened beside the new one may    *)
(* be, when its copy comes back through the buffer.                        *)
AnsweredOnce == \A r \in Req \ copied : answers[r] <= 1

(* The output of a silent memory update never reaches the connection that  *)
(* caused it, however its lines interleave with arming and with others.    *)
SilentHere ==
  [][ForwardLine => ~(Head(rx).silent /\ Head(rx).epoch = epoch)]_vars

(* A cached session, and the session a connection sends memory updates to, *)
(* was created by the process that is in the pool, though a connection     *)
(* left behind caches beside the new one: a reconnecting client is never   *)
(* handed a session of its agent's predecessor, unless a connection of     *)
(* that predecessor was still there when the agent was replaced.           *)
CachedSessionOfAgent ==
  ~haunted => /\ sessCache # 0 => sessCache \in sessions
              /\ conn # "none" /\ session # 0 => session \in sessions

(* Intercepted, refused, replayed to or overtaken by a memory update, a    *)
(* client that has asked to initialize or for a session gets its answer,   *)
(* unless its connection or its agent goes or its receiver skips lines.    *)
HandshakeAnswered ==
  \A r \in Req : asked = r ~> (asked # r \/ ~alive \/ lagged)

(* Output is kept from the client only as long as a memory update is under *)
(* way: with overlapping updates too, of which only the last stays armed,  *)
(* the suppression ends, unless its connection or its agent goes or its    *)
(* receiver skips lines, the final response perhaps among them.            *)
SuppressionEnds == suppress # 0 ~> (suppress = 0 \/ conn = "none" \/ ~alive \/ lagged)

(* An entry that landed in MEMORY.md while no update was under way is      *)
(* never lost to a rewrite, whichever connection asked for it, though      *)
(* writes are made late and outlive their tasks: between the two steps of  *)
(* a rewrite the file is empty, and as long as nothing read it there, and  *)
(* no rewrite ended there, the rewrite brings back every settled entry.    *)
SettledKept == torn \/ (\E w \in rewriting : w.cut) \/ settled \subseteq file

-----------------------------------------------------------------------------
(* What comments of the code say and the code does not do.                 *)

(* bridge.rs:1540 "Drop this message if it belongs to a silent             *)
(* memory-update prompt".                                                  *)
OnlyMemoryOutputDropped == [][DropLine => Head(rx).silent]_vars

(* bridge.rs:1032 "This prevents the agent from being re-initialized and   *)
(* losing its state".                                                      *)
InitializedOnce ==
  [][Forward /\ Head(toBridge).kind = "init" => ~initCache]_vars

(* bridge.rs:1222 "send a silent session/prompt".                          *)
SilentEverywhere ==
  [][ForwardLine => ~Head(rx).silent]_vars
=============================================================================
