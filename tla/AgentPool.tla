------------------------------ MODULE AgentPool ------------------------------
(***************************************************************************)
(* The keep-alive pool of agent processes (core/src/agent_pool.rs) and the *)
(* life of the WebSocket connections that use it (handle_websocket_pooled  *)
(* in core/src/bridge.rs).                                                 *)
(*                                                                         *)
(* A token owns at most one agent process.  A connection attaches to the   *)
(* token's agent (get_or_spawn), receives its stdout lines over a          *)
(* broadcast channel, and on its way out marks the agent as disconnected.  *)
(* Lines written while nobody listens wait in the agent's two buffers and  *)
(* are replayed to the next connection.  A reaper removes dead agents and  *)
(* agents left idle for longer than IdleTimeout; a full pool evicts the    *)
(* agent that has been idle longest.                                       *)
(*                                                                         *)
(* The pool sits behind one RwLock, so its operations are atomic with      *)
(* respect to each other.  The stdout reader of an agent does not take     *)
(* that lock: get_or_spawn is therefore two steps (drain the buffers,      *)
(* subscribe) with the lock held between them, and the reader is two steps *)
(* (send, then store the line that found no receiver).                     *)
(***************************************************************************)
EXTENDS Integers, Sequences, FiniteSets, Functions

CONSTANTS
  Token,            \* authentication tokens, the keys of the pool
  Conn,             \* WebSocket connections handled by the bridge
  Agent,            \* agent processes the bridge may ever spawn
  None,             \* "no agent", "no token", "not idle"
  MaxAgents,        \* PoolConfig::max_agents
  IdleTimeout,      \* PoolConfig::idle_timeout, in clock ticks
  BufferMessages,   \* PoolConfig::buffer_messages
  MaxBuffer,        \* PoolConfig::max_buffer_size
  ChanCap,          \* capacity of the broadcast channel (256 in the code)
  MaxEmit,          \* bound: lines an agent writes in its life
  DevicesPerToken   \* bound: connections that use a token at the same time

ASSUME PoolAssumption ==
  /\ MaxAgents \in Nat
  /\ IdleTimeout \in Nat
  /\ BufferMessages \in BOOLEAN
  /\ MaxBuffer \in Nat
  /\ ChanCap \in Nat \ {0}
  /\ MaxEmit \in Nat
  /\ DevicesPerToken \in Nat \ {0}
  /\ None \notin Agent
  /\ None \notin Token
  /\ None \notin Int

ASSUME NoneIsNoLine == None \notin Agent \X (Nat \ {0})

VARIABLES
  pool,       \* AgentPool::agents: the agent of each token, or None
  alive,      \* processes the operating system is running
  spawned,    \* processes ever spawned
  connected,  \* PooledAgent::connected
  idleFor,    \* elapsed time since PooledAgent::disconnected_at, or None
  buffer,     \* PooledAgent::message_buffer
  overflow,   \* PooledAgent::overflow_buffer
  emitted,    \* number of stdout lines the reader task has read
  pending,    \* number of the line whose send found no receiver, or 0
  phase,      \* progress of each connection
  tok,        \* token of each connection
  agent,      \* agent a connection was attached to
  replay,     \* buffered lines still to be replayed on the connection
  rx,         \* the connection's broadcast receiver
  held,       \* line in Task 2's hand after its send failed, or None
  shown,      \* lines of each agent in the order clients received them (history)
  owner,      \* token an agent was spawned for (history)
  deserted    \* agents marked as disconnected when one connection of their
              \* token ended while another was attached to them (history)

histVars == <<owner, deserted>>
poolVars == <<pool, spawned, connected, idleFor, histVars>>
bufVars  == <<buffer, overflow>>
outVars  == <<emitted, pending>>
connVars == <<phase, tok, agent, replay, rx, held>>
vars     == <<poolVars, alive, bufVars, outVars, connVars, shown>>

Phase == {"none", "attached", "live", "gone", "failed", "closing"}
Line  == Agent \X (Nat \ {0})
Age   == 0 .. IdleTimeout + 1      \* ages above the timeout are not told apart
Queue(n) == {s \in Seq(Line) : Len(s) <= n}

-----------------------------------------------------------------------------
(* Helpers.                                                                *)

Pooled == {t \in Token : pool[t] # None}

Using(c, t) == phase[c] # "none" /\ tok[c] = t
Attached(c, t) == Using(c, t) /\ agent[c] = pool[t]

(* The pool's write lock is held across the awaits of get_or_spawn.        *)
PoolLocked == \E c \in Conn : phase[c] = "attached"

(* Tasks that hold a receiver of agent a's broadcast channel.              *)
Receivers(a) == {c \in Conn : phase[c] \in {"live", "gone", "failed"} /\ agent[c] = a}

Admitted(t) == Cardinality({c \in Conn : Using(c, t)}) < DevicesPerToken

(* broadcast::Sender::send on one receiver: the oldest line is skipped     *)
(* (RecvError::Lagged) when the receiver is ChanCap lines behind.          *)
PushUnbounded(q, line) == Append(q, line)
Push(q, line) == IF Len(q) < ChanCap THEN Append(q, line) ELSE Append(Tail(q), line)

(* overflow.drain(..) into message_buffer, up to max_buffer_size.          *)
DrainedWithoutCap(a) == buffer[a] \o overflow[a]
DrainedOverflowOnly(a) == overflow[a]
Drained(a) ==
  LET room == IF Len(buffer[a]) < MaxBuffer THEN MaxBuffer - Len(buffer[a]) ELSE 0
      n    == IF Len(overflow[a]) < room THEN Len(overflow[a]) ELSE room
  IN  buffer[a] \o SubSeq(overflow[a], 1, n)

(* std::mem::take and drain(..): the buffer is left empty.                 *)
TakenByClone(f, a) == f
Taken(f, a) == [f EXCEPT ![a] = <<>>]

(* connected = true and disconnected_at = None.                            *)
MarkConnectedForgotten(a) == UNCHANGED <<connected, idleFor>>
MarkConnected(a) ==
  /\ connected' = [connected EXCEPT ![a] = TRUE]
  /\ idleFor' = [idleFor EXCEPT ![a] = None]

(* Tokens whose agent min_by_key(disconnected_at) may pick among those not *)
(* connected; as an Option, None is less than any time.                    *)
OldestIdle(t) ==
  LET idle == {u \in Pooled \ {t} : ~connected[pool[u]]}
      Since(u) == idleFor[pool[u]]
  IN  {u \in idle : \A v \in idle :
         Since(u) = None \/ (Since(v) # None /\ Since(v) <= Since(u))}

(* What get_or_spawn evicts before it spawns for token t; the empty set of *)
(* choices stands for "Agent pool is full".                                *)
VictimsOffByOne(t) ==
  IF Cardinality(Pooled \ {t}) > MaxAgents
  THEN {{u} : u \in OldestIdle(t)}
  ELSE {{}}
Victims(t) ==
  IF Cardinality(Pooled \ {t}) >= MaxAgents
  THEN {{u} : u \in OldestIdle(t)}
  ELSE {{}}

(* Processes kill() ends when the agents of these tokens are removed.      *)
KilledNone(ts) == {}
Killed(ts) == {pool[u] : u \in ts}

Init ==
  /\ pool = [t \in Token |-> None]
  /\ alive = {}
  /\ spawned = {}
  /\ connected = [a \in Agent |-> FALSE]
  /\ idleFor = [a \in Agent |-> None]
  /\ buffer = [a \in Agent |-> <<>>]
  /\ overflow = [a \in Agent |-> <<>>]
  /\ emitted = [a \in Agent |-> 0]
  /\ pending = [a \in Agent |-> 0]
  /\ phase = [c \in Conn |-> "none"]
  /\ tok = [c \in Conn |-> None]
  /\ agent = [c \in Conn |-> None]
  /\ replay = [c \in Conn |-> <<>>]
  /\ rx = [c \in Conn |-> <<>>]
  /\ held = [c \in Conn |-> None]
  /\ shown = [a \in Agent |-> <<>>]
  /\ owner = [a \in Agent |-> None]
  /\ deserted = {}

-----------------------------------------------------------------------------
(* get_or_spawn                                                            *)

(* The token has a live agent: take its buffers and keep the lock.         *)
Reuse(c, t) ==
  /\ phase[c] = "none" /\ ~PoolLocked /\ Admitted(t)
  /\ pool[t] \in alive
  /\ MarkConnected(pool[t])
  /\ replay' = [replay EXCEPT ![c] = Drained(pool[t])]
  /\ buffer' = Taken(buffer, pool[t])
  /\ overflow' = Taken(overflow, pool[t])
  /\ phase' = [phase EXCEPT ![c] = "attached"]
  /\ tok' = [tok EXCEPT ![c] = t]
  /\ agent' = [agent EXCEPT ![c] = pool[t]]
  /\ deserted' = deserted \ {pool[t]}
  /\ UNCHANGED <<pool, spawned, owner, alive, outVars, rx, held, shown>>

(* agent.subscribe(), after which the lock is released.                    *)
Subscribe(c) ==
  /\ phase[c] = "attached"
  /\ phase' = [phase EXCEPT ![c] = "live"]
  /\ UNCHANGED <<poolVars, alive, bufVars, outVars, tok, agent, replay, rx, held, shown>>

(* The token has no agent, or a dead one, which is removed; a full pool    *)
(* evicts; spawn_agent starts process a and inserts it.                    *)
Spawn(c, t, a) ==
  /\ phase[c] = "none" /\ ~PoolLocked /\ Admitted(t)
  /\ pool[t] \notin alive
  /\ a \notin spawned
  /\ \E victims \in Victims(t) :
       /\ pool' = [u \in Token |-> IF u = t THEN a
                                   ELSE IF u \in victims THEN None ELSE pool[u]]
       /\ alive' = (alive \ Killed(victims)) \cup {a}
  /\ spawned' = spawned \cup {a}
  /\ MarkConnected(a)
  /\ phase' = [phase EXCEPT ![c] = "live"]
  /\ tok' = [tok EXCEPT ![c] = t]
  /\ agent' = [agent EXCEPT ![c] = a]
  /\ owner' = [owner EXCEPT ![a] = t]
  /\ UNCHANGED <<deserted, bufVars, outVars, replay, rx, held, shown>>

(* The command cannot be parsed or started: get_or_spawn fails after it    *)
(* has removed the dead agent and evicted an idle one.                     *)
SpawnFails(t) ==
  /\ ~PoolLocked
  /\ pool[t] \notin alive
  /\ \E victims \in Victims(t) :
       /\ pool' = [u \in Token |-> IF u \in victims \cup {t} THEN None ELSE pool[u]]
       /\ alive' = alive \ Killed(victims)
  /\ UNCHANGED <<spawned, connected, idleFor, histVars, bufVars, outVars, connVars, shown>>

(* "Agent pool is full": nothing idle to evict.                            *)
PoolFull(t) ==
  /\ ~PoolLocked
  /\ pool[t] \notin alive
  /\ Victims(t) = {}
  /\ pool' = [pool EXCEPT ![t] = None]
  /\ UNCHANGED <<spawned, connected, idleFor, histVars, alive, bufVars, outVars, connVars, shown>>

-----------------------------------------------------------------------------
(* The process and its stdout reader task.                                 *)

(* The process exits or crashes on its own (or by kill_agent).             *)
Die(a) ==
  /\ a \in alive
  /\ alive' = alive \ {a}
  /\ UNCHANGED <<poolVars, bufVars, outVars, connVars, shown>>

(* The reader reads a line and sends it.  The pipe may still hold lines of *)
(* a process that has exited.                                              *)
StdoutSend(a) ==
  /\ a \in spawned
  /\ pending[a] = 0
  /\ emitted[a] < MaxEmit
  /\ emitted' = [emitted EXCEPT ![a] = @ + 1]
  /\ IF Receivers(a) # {}
     THEN /\ rx' = [c \in Conn |-> IF c \in Receivers(a)
                                   THEN Push(rx[c], <<a, emitted[a] + 1>>)
                                   ELSE rx[c]]
          /\ UNCHANGED pending
     ELSE /\ pending' = [pending EXCEPT ![a] = emitted[a] + 1]
          /\ UNCHANGED rx
  /\ UNCHANGED <<poolVars, alive, bufVars, phase, tok, agent, replay, held, shown>>

(* send returned Err: the line goes to overflow_buffer (or is dropped when *)
(* that is full or buffering is off), then the push relay is notified.     *)
StdoutStore(a) ==
  /\ pending[a] # 0
  /\ overflow' = IF BufferMessages /\ Len(overflow[a]) < MaxBuffer
                 THEN [overflow EXCEPT ![a] = Append(@, <<a, pending[a]>>)]
                 ELSE overflow
  /\ pending' = [pending EXCEPT ![a] = 0]
  /\ UNCHANGED <<poolVars, alive, buffer, emitted, connVars, shown>>

-----------------------------------------------------------------------------
(* A connection after get_or_spawn.                                        *)

(* A client receives the line.                                             *)
ShownAlso(line) == [shown EXCEPT ![line[1]] = Append(@, line)]

(* One buffered line is sent to the client before the forwarding tasks     *)
(* start; written to a socket whose client has left it is lost.            *)
ReplayLine(c) ==
  /\ phase[c] \in {"live", "gone"}
  /\ replay[c] # <<>>
  /\ replay' = [replay EXCEPT ![c] = Tail(@)]
  /\ shown' = IF phase[c] = "live" THEN ShownAlso(Head(replay[c])) ELSE shown
  /\ UNCHANGED <<poolVars, alive, bufVars, outVars, phase, tok, agent, rx, held>>

(* Task 2 takes a line from the receiver and sends it to the client.       *)
ForwardLine(c) ==
  /\ phase[c] \in {"live", "gone"}
  /\ replay[c] = <<>> /\ rx[c] # <<>>
  /\ rx' = [rx EXCEPT ![c] = Tail(@)]
  /\ shown' = IF phase[c] = "live" THEN ShownAlso(Head(rx[c])) ELSE shown
  /\ UNCHANGED <<poolVars, alive, bufVars, outVars, phase, tok, agent, replay, held>>

(* The client disappears; nothing in the bridge has noticed yet.           *)
ClientGone(c) ==
  /\ phase[c] = "live"
  /\ phase' = [phase EXCEPT ![c] = "gone"]
  /\ UNCHANGED <<poolVars, alive, bufVars, outVars, tok, agent, replay, rx, held, shown>>

(* Task 2's send fails: it waits for the pool lock with the line in hand   *)
(* and its receiver still subscribed.                                      *)
SendFails(c) ==
  /\ phase[c] = "gone"
  /\ replay[c] = <<>> /\ rx[c] # <<>>
  /\ phase' = [phase EXCEPT ![c] = "failed"]
  /\ held' = [held EXCEPT ![c] = Head(rx[c])]
  /\ rx' = [rx EXCEPT ![c] = Tail(@)]
  /\ UNCHANGED <<poolVars, alive, bufVars, outVars, tok, agent, replay, shown>>

(* buffer_message(token, line): the line goes to whichever agent the token *)
(* has now; Task 2 ends and the rest of the receiver's backlog is dropped. *)
KeeperAnyToken(c) == IF Pooled = {} THEN None ELSE pool[CHOOSE t \in Pooled : TRUE]
Keeper(c) == pool[tok[c]]
BufferFailedLine(c) ==
  /\ phase[c] = "failed" /\ ~PoolLocked
  /\ buffer' = IF BufferMessages /\ Keeper(c) # None /\ Len(buffer[Keeper(c)]) < MaxBuffer
               THEN [buffer EXCEPT ![Keeper(c)] = Append(@, held[c])]
               ELSE buffer
  /\ phase' = [phase EXCEPT ![c] = "closing"]
  /\ held' = [held EXCEPT ![c] = None]
  /\ rx' = [rx EXCEPT ![c] = <<>>]
  /\ UNCHANGED <<poolVars, alive, overflow, outVars, tok, agent, replay, shown>>

(* Task 1 ends: it has seen the client's close, or its send to the stdin   *)
(* writer of a dead agent failed; or the ping timed out.  Both tasks are   *)
(* aborted, with the line in hand and everything the receiver still holds. *)
EndTasks(c) ==
  /\ replay[c] = <<>>
  /\ \/ phase[c] \in {"gone", "failed"}
     \/ phase[c] = "live" /\ agent[c] \notin alive
  /\ phase' = [phase EXCEPT ![c] = "closing"]
  /\ held' = [held EXCEPT ![c] = None]
  /\ rx' = [rx EXCEPT ![c] = <<>>]
  /\ UNCHANGED <<poolVars, alive, bufVars, outVars, tok, agent, replay, shown>>

(* pool.mark_disconnected(token): by token, whichever agent it has now.    *)
MarkDisconnected(c) ==
  /\ phase[c] = "closing" /\ ~PoolLocked
  /\ IF pool[tok[c]] # None
     THEN /\ connected' = [connected EXCEPT ![pool[tok[c]]] = FALSE]
          /\ idleFor' = [idleFor EXCEPT ![pool[tok[c]]] = 0]
          /\ deserted' = IF \E d \in Conn \ {c} : Attached(d, tok[c])
                         THEN deserted \cup {pool[tok[c]]} ELSE deserted
     ELSE UNCHANGED <<connected, idleFor, deserted>>
  /\ phase' = [phase EXCEPT ![c] = "none"]
  /\ tok' = [tok EXCEPT ![c] = None]
  /\ agent' = [agent EXCEPT ![c] = None]
  /\ UNCHANGED <<pool, spawned, owner, alive, bufVars, outVars, replay, rx, held, shown>>

-----------------------------------------------------------------------------
(* Time and the reaper.                                                    *)

Tick ==
  /\ \E t \in Pooled : idleFor[pool[t]] # None /\ idleFor[pool[t]] <= IdleTimeout
  /\ idleFor' = [a \in Agent |-> IF idleFor[a] # None /\ idleFor[a] <= IdleTimeout
                                 THEN idleFor[a] + 1 ELSE idleFor[a]]
  /\ UNCHANGED <<pool, spawned, connected, histVars, alive, bufVars, outVars, connVars, shown>>

(* Tokens reap_idle_agents removes: dead, or idle for more than the timeout. *)
ReapableOnlyDead == {t \in Pooled : pool[t] \notin alive}
Reapable ==
  {t \in Pooled : \/ pool[t] \notin alive
                  \/ /\ ~connected[pool[t]]
                     /\ idleFor[pool[t]] # None /\ idleFor[pool[t]] > IdleTimeout}

Reap ==
  /\ ~PoolLocked
  /\ Reapable # {}
  /\ pool' = [t \in Token |-> IF t \in Reapable THEN None ELSE pool[t]]
  /\ alive' = alive \ Killed(Reapable)
  /\ UNCHANGED <<spawned, connected, idleFor, histVars, bufVars, outVars, connVars, shown>>

-----------------------------------------------------------------------------
ConnStep(c) ==
  \/ Subscribe(c)
  \/ ReplayLine(c)
  \/ ForwardLine(c)
  \/ ClientGone(c)
  \/ SendFails(c)
  \/ BufferFailedLine(c)
  \/ EndTasks(c)
  \/ MarkDisconnected(c)

AgentStep(a) == Die(a) \/ StdoutSend(a) \/ StdoutStore(a)

Next ==
  \/ \E c \in Conn, t \in Token : Reuse(c, t)
  \/ \E c \in Conn, t \in Token, a \in Agent : Spawn(c, t, a)
  \/ \E t \in Token : SpawnFails(t) \/ PoolFull(t)
  \/ \E c \in Conn : ConnStep(c)
  \/ \E a \in Agent : AgentStep(a)
  \/ Tick
  \/ Reap

Spec == Init /\ [][Next]_vars

(***************************************************************************)
(* Fairness: tasks the runtime keeps polling.  The holder of the pool lock *)
(* runs on and time passes.  The reaper's interval keeps firing and a      *)
(* connection that is over keeps waiting for the lock; tokio's RwLock      *)
(* serves its waiters in order, so neither is passed over for ever while   *)
(* other connections take the lock in between (strong fairness).  Clients  *)
(* and processes promise nothing.                                          *)
(***************************************************************************)
Fairness ==
  /\ WF_vars(Tick)
  /\ SF_vars(Reap)
  /\ \A c \in Conn : WF_vars(Subscribe(c)) /\ SF_vars(MarkDisconnected(c))

FairSpec == Spec /\ Fairness

-----------------------------------------------------------------------------
(* Properties.                                                             *)

TypeOK ==
  /\ pool \in [Token -> Agent \cup {None}]
  /\ alive \subseteq Agent
  /\ spawned \subseteq Agent
  /\ connected \in [Agent -> BOOLEAN]
  /\ idleFor \in [Agent -> Age \cup {None}]
  /\ buffer \in [Agent -> Queue(MaxBuffer)]
  /\ overflow \in [Agent -> Queue(MaxBuffer)]
  /\ emitted \in [Agent -> 0 .. MaxEmit]
  /\ pending \in [Agent -> 0 .. MaxEmit]
  /\ phase \in [Conn -> Phase]
  /\ tok \in [Conn -> Token \cup {None}]
  /\ agent \in [Conn -> Agent \cup {None}]
  /\ replay \in [Conn -> Seq(Line)]
  /\ rx \in [Conn -> Queue(ChanCap)]
  /\ held \in [Conn -> Line \cup {None}]
  /\ shown \in [Agent -> Seq(Line)]
  /\ owner \in [Agent -> Token \cup {None}]
  /\ deserted \subseteq Agent

(* The pool implements PoolOwnership: its agents are started, owned and    *)
(* removed as that specification allows, with connections, buffers and     *)
(* time hidden.                                                            *)
Ownership == INSTANCE PoolOwnership
ImplementsOwnership == Ownership!Spec

(* The pool never holds more agents than max_agents, whatever mix of       *)
(* spawning, eviction, crashes and failed spawns led here.                 *)
PoolBound == Ownership!PoolBound

(* Every running agent process is in the pool under some token: eviction,  *)
(* reaping and the replacement of a dead agent leave no orphan behind that *)
(* nothing would ever kill (kill_on_drop is off).                          *)
NoOrphanProcess == Ownership!NoOrphanProcess

(* The agent of a client counts as connected, so that neither eviction nor *)
(* the reaper picks it, unless another connection of the same token has    *)
(* ended: connected is one flag for all devices of a token, and a          *)
(* reconnect may overlap the connection it replaces.                       *)
AttachedIsConnected ==
  \A c \in Conn, t \in Token :
    Attached(c, t) => connected[pool[t]] \/ pool[t] \in deserted

(* That is the only way in which eviction or the reaper ends the process   *)
(* of a client.                                                            *)
KilledOnlyIfDeserted ==
  [][\A t \in Pooled :
       pool[t] \in alive /\ pool'[t] # pool[t] /\ pool[t] \notin deserted
         => ~ \E c \in Conn : Attached(c, t)]_vars

(* The replay buffer respects max_buffer_size even when both buffers are   *)
(* merged on reconnect.                                                    *)
ReplayBounded == \A c \in Conn : Len(replay[c]) <= MaxBuffer

(* Lines waiting for an absent client leave the buffers in one way only: a *)
(* reconnecting connection takes them to replay.  Only a line that does    *)
(* not fit into a full replay buffer is dropped on the way.                *)
WaitingLinesHandedOver ==
  [][\A t \in Pooled :
       LET a == pool[t]
           kept == Range(buffer'[a]) \cup Range(overflow'[a])
       IN  pool'[t] = a =>
             \A line \in (Range(buffer[a]) \cup Range(overflow[a])) \ kept :
               \E c \in Conn : /\ phase'[c] = "attached" /\ agent'[c] = a
                               /\ \/ line \in Range(replay'[c])
                                  \/ Len(replay'[c]) >= MaxBuffer]_vars

(* Where copies of a line are: in the reader's hand, in a buffer, on the   *)
(* way to a connection, or with a client.                                  *)
At(place, f, line) ==
  UNION {{<<place, x, i>> : i \in {j \in DOMAIN f[x] : f[x][j] = line}} : x \in DOMAIN f}

Copies(line) ==
  {<<"pending", a, 0>> : a \in {b \in Agent : pending[b] # 0 /\ <<b, pending[b]>> = line}}
  \cup {<<"held", c, 0>> : c \in {d \in Conn : held[d] = line}}
  \cup At("buffer", buffer, line) \cup At("overflow", overflow, line)
  \cup At("replay", replay, line) \cup At("rx", rx, line) \cup At("shown", shown, line)

(* A token used by n connections at a time gets no line more than n times, *)
(* one that is used by one connection at a time none twice, over any number*)
(* of failed sends, reconnects and replays: at every moment at most that   *)
(* many copies of a line exist.                                            *)
OncePerDevice ==
  \A a \in Agent, n \in 1 .. MaxEmit : Cardinality(Copies(<<a, n>>)) <= DevicesPerToken

(* What waits for a token's clients, or is on its way to one of them, was  *)
(* written by an agent of that token, though a line that could not be sent *)
(* goes to whichever agent the token has by then, when other tokens may    *)
(* own what the pool had evicted and replaced.                             *)
LinesStayWithToken ==
  /\ \A t \in Pooled : \A line \in Range(buffer[pool[t]]) \cup Range(overflow[pool[t]]) :
       owner[line[1]] = t
  /\ \A c \in Conn : \A line \in Range(replay[c]) \cup Range(rx[c]) : owner[line[1]] = tok[c]

(* An agent whose token no client uses any more is eventually terminated   *)
(* by the reaper.                                                          *)
IdleReaped ==
  \A t \in Token :
    (<>[](\A c \in Conn : ~Using(c, t))) => []<>(pool[t] = None)

-----------------------------------------------------------------------------
(* What comments and tests of the code say and the code does not do.       *)

(* agent_pool.rs:17 "How long to keep idle agents alive (no client         *)
(* connected)": an idle agent is the only thing the pool removes while it  *)
(* is running.                                                             *)
OnlyIdleKilled ==
  [][\A t \in Pooled :
       pool[t] \in alive /\ pool'[t] # pool[t] => ~ \E c \in Conn : Attached(c, t)]_vars

(* What is on its way to a client was written by the agent the client is   *)
(* attached to: not with two connections of a token at a time, one of      *)
(* which may leave a line of its dead agent with its successor.            *)
OwnLinesOnly ==
  \A c \in Conn : \A line \in Range(replay[c]) \cup Range(rx[c]) : line[1] = agent[c]

(* agent_pool.rs:53 "Overflow buffer written by the stdout broadcast task  *)
(* when there are 0 receivers": a line stored there never meets a client   *)
(* already listening, to whom it would be shown only after a reconnect.    *)
OverflowOnlyWithoutReceivers ==
  [][\A a \in Agent : Len(overflow'[a]) > Len(overflow[a]) => Receivers(a) = {}]_vars

(* agent_pool.rs:23 "Maximum number of buffered messages per agent".       *)
BufferCapPerAgent ==
  \A a \in Agent : Len(buffer[a]) + Len(overflow[a]) <= MaxBuffer

(* tests/agent_pool_integration.rs:105: buffered lines come back in the    *)
(* order in which the agent wrote them.                                    *)
ReplayInOrder ==
  \A c \in Conn : \A i, j \in DOMAIN replay[c] :
    i < j /\ replay[c][i][1] = replay[c][j][1] => replay[c][i][2] < replay[c][j][2]
=============================================================================
