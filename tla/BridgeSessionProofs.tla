-------------------------- MODULE BridgeSessionProofs --------------------------
(***************************************************************************)
(* Proofs about BridgeSession, for any number of messages and connections  *)
(* and any capacity of the channel: its type invariant; that neither a     *)
(* cached session nor the session memory updates go to belongs to a        *)
(* process other than the one in the pool; that no entry of MEMORY.md that *)
(* landed while no update was under way is lost; that no request is        *)
(* answered twice; and that the output of a memory update never reaches    *)
(* the client of its own connection.  CachedSessionOfAgent, SettledKept    *)
(* and AnsweredOnce name what they except.                                 *)
(***************************************************************************)
EXTENDS BridgeSession, TLAPS

USE DEF fileVars, leftVars

(* What Task 2 still holds comes from the agent of its connection; so does *)
(* what that of a connection left behind holds, whose agent is in the pool *)
(* unless it haunts the agent's successor.                                 *)
SessionsIn(q, S) == \A i \in 1 .. Len(q) : q[i].kind = "session" => q[i].id \in S
LinesOfAgent ==
  /\ SessionsIn(rx, sessions)
  /\ left.on /\ ~haunted => SessionsIn(left.rx, sessions)

(* Nothing of a connection outlives it.                                    *)
QuietWhenGone == conn = "none" => rx = <<>>

(* Task 1 works on the message at the head of its queue.                   *)
AppendInHand == appending # "no" => conn = "live" /\ toBridge # <<>>

IInv ==
  /\ TypeOK
  /\ LinesOfAgent
  /\ QuietWhenGone
  /\ AppendInHand
  /\ CachedSessionOfAgent

(* The typed part of the state that Deliver may change.                    *)
ClientTypeOK ==
  /\ stage \in {"init", "session", "ready"} /\ resume \in BOOLEAN
  /\ asked \in 0 .. MaxReq /\ sent \in 0 .. MaxReq
  /\ answers \in [Req -> Nat]

(* A line that reaches the client leaves it in a state of its type.        *)
LEMMA DeliverTypes ==
  ASSUME ClientTypeOK, NEW line \in Line, Deliver(line)
  PROVE  ClientTypeOK'
<1>1. line.id \in Req
  BY DEF Line
<1>2. answers' \in [Req -> Nat]
  BY <1>1 DEF ClientTypeOK, Deliver
<1>3. asked' \in 0 .. MaxReq /\ sent' \in 0 .. MaxReq
  BY SessionAssumption DEF ClientTypeOK, Deliver
<1>4. stage' \in {"init", "session", "ready"} /\ resume' \in BOOLEAN
  <2>1. CASE IsResponse(line) /\ line.id = asked
    BY <2>1 DEF ClientTypeOK, Deliver
  <2>2. CASE ~(IsResponse(line) /\ line.id = asked)
    BY <2>2 DEF ClientTypeOK, Deliver
  <2>3. QED BY <2>1, <2>2
<1>5. QED BY <1>2, <1>3, <1>4 DEF ClientTypeOK

(* What the bridge makes up is a line.                                     *)
LEMMA SyntheticIsLine ==
  ASSUME NEW kind \in {"init", "session", "error"}, NEW id \in Req, epoch \in Nat
  PROVE  Synthetic(kind, id) \in Line
BY DEF Synthetic, Line

(* What the agent writes for a message is a line.                          *)
LEMMA LineOfIsLine ==
  ASSUME NEW kind \in {"init", "session", "loaded", "error", "update", "final"},
         NEW msg \in AgentMessage, NEW text \in SUBSET Req
  PROVE  LineOf(kind, msg, text) \in Line
BY DEF LineOf, Line, AgentMessage

(* What is sent to the agent is a message.                                 *)
LEMMA MessageTyped ==
  ASSUME NEW kind \in {"init", "new", "load", "prompt", "memory"}, NEW id \in Req,
         NEW text \in SUBSET Req, epoch \in Nat
  PROVE  Message(kind, id, text) \in AgentMessage
BY DEF Message, AgentMessage

(* The first elements of the queues, and the rests, have the queues' types.*)
LEMMA QueueTypes ==
  ASSUME TypeOK
  PROVE  /\ toBridge # <<>> => Head(toBridge) \in ClientMessage /\ Tail(toBridge) \in Seq(ClientMessage)
         /\ replay # <<>> => Head(replay) \in Line /\ Tail(replay) \in Seq(Line)
         /\ rx # <<>> => Head(rx) \in Line /\ Tail(rx) \in Seq(Line)
         /\ inject # <<>> => Head(inject) \in Line /\ Tail(inject) \in Seq(Line)
         /\ stdin # <<>> => Head(stdin) \in AgentMessage /\ Tail(stdin) \in Seq(AgentMessage)
BY SMTT(30) DEF TypeOK

(* What a connection left behind holds.                                    *)
LEMMA LeftTypes ==
  ASSUME TypeOK
  PROVE  /\ left.on \in BOOLEAN /\ left.ours \in BOOLEAN /\ left.fresh \in BOOLEAN /\ left.by \in Nat
         /\ left.captured \subseteq {"init", "session"} /\ left.suppress \in 0 .. MaxReq
         /\ left.rx \in Seq(Line)
         /\ left.rx # <<>> => Head(left.rx) \in Line /\ Tail(left.rx) \in Seq(Line)
         /\ NoneLeft \in LeftBehind
<1>1. left \in LeftBehind
  BY DEF TypeOK
<1>2. left.rx \in Seq(Line)
  BY <1>1 DEF LeftBehind
<1>3. NoneLeft \in LeftBehind
  BY SessionAssumption DEF NoneLeft, LeftBehind
<1>4. QED BY <1>1, <1>2, <1>3 DEF LeftBehind

(* Where the lines of a receiver come from when one more arrives.          *)
LEMMA PushIs ==
  ASSUME NEW q \in Seq(Line), NEW line \in Line
  PROVE  /\ Push(q, line) \in Seq(Line)
         /\ \A i \in 1 .. Len(Push(q, line)) :
              Push(q, line)[i] = line \/ \E j \in 1 .. Len(q) : Push(q, line)[i] = q[j]
<1>1. CASE Len(q) >= RxCap
  <2> DEFINE t == Tail(q)
  <2>1. q # <<>>
    BY <1>1, SessionAssumption
  <2>2. /\ t \in Seq(Line) /\ Len(t) = Len(q) - 1
        /\ \A i \in 1 .. Len(t) : i + 1 \in 1 .. Len(q) /\ t[i] = q[i + 1]
    BY <2>1
  <2> HIDE DEF t
  <2>3. /\ Append(t, line) \in Seq(Line)
        /\ \A i \in 1 .. Len(Append(t, line)) :
             Append(t, line)[i] = line \/ (i \in 1 .. Len(t) /\ Append(t, line)[i] = t[i])
    BY <2>2
  <2>4. QED BY <1>1, <2>2, <2>3 DEF Push, t
<1>2. CASE ~(Len(q) >= RxCap)
  BY <1>2 DEF Push
<1>3. QED BY <1>1, <1>2

(* What Task 2 captures keeps the caches' types.                           *)
LEMMA CacheTypes ==
  ASSUME TypeOK, NEW line \in Line, NEW new \in BOOLEAN, NEW done \in SUBSET {"init", "session"}
  PROVE  /\ CacheLine(line, new, done) => initCache' \in BOOLEAN /\ sessCache' \in 0 .. MaxReq
         /\ Taken(line, new, done) \subseteq {"init", "session"}
<1>1. line.id \in 0 .. MaxReq
  BY SessionAssumption DEF Line, Req
<1>2. Taken(line, new, done) \subseteq {"init", "session"}
  BY DEF Taken, Takes
<1>3. ASSUME CacheLine(line, new, done)
      PROVE  initCache' \in BOOLEAN /\ sessCache' \in 0 .. MaxReq
  <2>1. initCache' \in BOOLEAN
    BY <1>3 DEF TypeOK, CacheLine, Takes
  <2>2. sessCache' \in 0 .. MaxReq
    BY <1>1, <1>3, SessionAssumption DEF TypeOK, CacheLine
  <2>3. QED BY <2>1, <2>2
<1>4. QED BY <1>2, <1>3

LEMMA CaptureTypes ==
  ASSUME TypeOK, NEW line \in Line, Capture(line)
  PROVE  /\ captured' \subseteq {"init", "session"} /\ session' \in 0 .. MaxReq
         /\ initCache' \in BOOLEAN /\ sessCache' \in 0 .. MaxReq
<1>1. line.id \in 0 .. MaxReq
  BY SessionAssumption DEF Line, Req
<1>2. /\ fresh \in BOOLEAN /\ captured \in SUBSET {"init", "session"} /\ session \in 0 .. MaxReq
      /\ CacheLine(line, fresh, captured) /\ captured' = Taken(line, fresh, captured)
      /\ session' = session \/ session' = line.id
  BY DEF TypeOK, Capture
<1>3. QED BY <1>1, <1>2, CacheTypes

(* A rewrite Task 2 begins has the type of the others.                     *)
LEMMA RewriteTypes ==
  ASSUME TypeOK, NEW line \in Line, NEW e \in Nat, BeginRewrite(line, e)
  PROVE  rewriting' \subseteq [by : Nat, text : SUBSET Req, cut : BOOLEAN]
<1>1. line.text \in SUBSET Req
  BY DEF Line
<1>2. [by |-> e, text |-> line.text, cut |-> FALSE] \in [by : Nat, text : SUBSET Req, cut : BOOLEAN]
  BY <1>1
<1>3. QED BY <1>2 DEF BeginRewrite, TypeOK

-----------------------------------------------------------------------------
(* The type invariant                                                      *)

(* The client and the connection's ends keep the types.                    *)
LEMMA TypeClient ==
  ASSUME TypeOK, Client \/ Connect \/ Disconnect \/ Leave
  PROVE  TypeOK'
<1> USE SessionAssumption
<1>1. ASSUME NEW kind \in {"init", "new", "load", "prompt", "append"}, ClientSends(kind)
      PROVE  TypeOK'
  <2>1. sent + 1 \in Req
    BY <1>1 DEF TypeOK, ClientSends, Req
  <2>2. [kind |-> kind, id |-> sent + 1] \in ClientMessage
    BY <2>1 DEF ClientMessage
  <2>3. toBridge' \in Seq(ClientMessage)
    BY <1>1, <2>2 DEF TypeOK, ClientSends
  <2>4. sent' \in 0 .. MaxReq /\ asked' \in 0 .. MaxReq
    BY <1>1, <2>1 DEF TypeOK, ClientSends, Req
  <2>5. QED BY <1>1, <2>3, <2>4 DEF TypeOK, ClientSends, connVars, task1Vars, task2Vars,
                                   cacheVars, agentVars
<1>2. CASE Connect
  <2>1. <<>> \in Seq(Line) /\ <<>> \in Seq(AgentMessage)
    OBVIOUS
  <2>2. epoch' \in Nat /\ stage' = "init" /\ asked' \in 0 .. MaxReq /\ buffer' \in Seq(Line)
    BY <1>2, <2>1 DEF TypeOK, Connect
  <2>3. CASE alive
    <3>1. conn' \in {"init", "session", "replay", "live"} /\ fresh' \in BOOLEAN
      BY <1>2, <2>3 DEF Connect
    <3>2. session' \in 0 .. MaxReq /\ replay' \in Seq(Line)
      BY <1>2, <2>3 DEF Connect, TypeOK
    <3>3. UNCHANGED <<cacheVars, left, haunted, agentVars>>
      BY <1>2, <2>3 DEF Connect
    <3>4. QED BY SMTT(30), <1>2, <2>2, <3>1, <3>2, <3>3 DEF TypeOK, Connect, task1Vars, cacheVars,
                                                 agentVars
  <2>4. CASE ~alive
    <3>1. conn' = "live" /\ fresh' \in BOOLEAN /\ session' = 0 /\ replay' = <<>>
      BY <1>2, <2>4 DEF Connect
    <3>2. /\ initCache' = FALSE /\ sessCache' = 0
          /\ alive' = TRUE /\ stdin' = <<>> /\ started' = FALSE /\ sessions' = {}
      BY <1>2, <2>4 DEF Connect, CachesEmpty
    <3>3. left' \in LeftBehind /\ haunted' \in BOOLEAN
      <4>1. left' = [left EXCEPT !.ours = FALSE] /\ haunted' = left.on
        BY <1>2, <2>4 DEF Connect
      <4>2. QED BY <4>1 DEF TypeOK, LeftBehind
    <3>4. QED BY <1>2, <2>1, <2>2, <3>1, <3>2, <3>3 DEF TypeOK, Connect, task1Vars
  <2>5. QED BY <2>3, <2>4
<1>3. CASE Disconnect \/ Leave
  <2>1. /\ <<>> \in Seq(Line) /\ <<>> \in Seq(ClientMessage)
        /\ {} \subseteq {"init", "session"} /\ {} \in SUBSET Req /\ 0 \in 0 .. MaxReq
    OBVIOUS
  <2>2. ConnectionGone
    BY <1>3 DEF Disconnect, Leave
  <2>3. left' \in LeftBehind
    <3>1. CASE Disconnect
      BY <3>1 DEF Disconnect, TypeOK
    <3>2. CASE Leave
      <4>1. left' = [on |-> TRUE, ours |-> alive, by |-> epoch, fresh |-> fresh,
                     captured |-> captured, suppress |-> suppress, rx |-> rx]
        BY <3>2 DEF Leave
      <4>2. /\ alive \in BOOLEAN /\ epoch \in Nat /\ fresh \in BOOLEAN
            /\ captured \in SUBSET {"init", "session"} /\ suppress \in 0 .. MaxReq /\ rx \in Seq(Line)
        BY DEF TypeOK
      <4>3. QED BY <4>1, <4>2 DEF LeftBehind
    <3>3. QED BY <1>3, <3>1, <3>2
  <2>4. QED BY <2>1, <2>2, <2>3 DEF TypeOK, ConnectionGone, cacheVars, agentVars
<1>4. QED BY <1>1, <1>2, <1>3 DEF Client

(* The intercepts and the replay keep the types.                           *)
LEMMA TypeIntercept ==
  ASSUME TypeOK, Intercept
  PROVE  TypeOK'
<1> USE SessionAssumption
<1>c. ClientTypeOK
  BY DEF TypeOK, ClientTypeOK
<1>1. CASE InterceptInit
  <2>1. toBridge' \in Seq(ClientMessage) /\ Head(toBridge).id \in Req
    BY <1>1, QueueTypes DEF InterceptInit, ClientMessage
  <2>2. Synthetic("init", Head(toBridge).id) \in Line
    BY <2>1, SyntheticIsLine DEF TypeOK
  <2>3. ClientTypeOK'
    BY <1>1, <1>c, <2>2, DeliverTypes DEF InterceptInit, clientVars, ClientTypeOK
  <2>4. conn' \in {"session", "replay"}
    BY <1>1 DEF InterceptInit, AfterInit
  <2>5. QED BY <1>1, <2>1, <2>3, <2>4
            DEF TypeOK, ClientTypeOK, InterceptInit, task1Vars, task2Vars, cacheVars, agentVars
<1>2. CASE InterceptSession
  <2>1. toBridge' \in Seq(ClientMessage) /\ Head(toBridge).id \in Req
    BY <1>2, QueueTypes DEF InterceptSession, ClientMessage
  <2>2. /\ Synthetic("init", Head(toBridge).id) \in Line
        /\ Synthetic("session", Head(toBridge).id) \in Line
    BY <2>1, SyntheticIsLine DEF TypeOK
  <2>3. ClientTypeOK'
    BY <1>2, <1>c, <2>2, DeliverTypes DEF InterceptSession, clientVars, ClientTypeOK
  <2>4. conn' \in {"session", "replay"} /\ injected' \in BOOLEAN
    BY <1>2 DEF InterceptSession, TypeOK
  <2>5. QED BY <1>2, <2>1, <2>3, <2>4
            DEF TypeOK, ClientTypeOK, InterceptSession, task2Vars, cacheVars, agentVars
<1>3. CASE InterceptTimeout
  BY <1>3 DEF TypeOK, InterceptTimeout, AfterInit, clientVars, task2Vars, cacheVars, agentVars
<1>4. CASE ReplayLine
  <2>1. Head(replay) \in Line /\ replay' \in Seq(Line)
    BY <1>4, QueueTypes DEF ReplayLine
  <2>2. ClientTypeOK'
    BY <1>4, <1>c, <2>1, DeliverTypes DEF ReplayLine
  <2>3. QED BY <1>4, <2>1, <2>2 DEF TypeOK, ClientTypeOK, ReplayLine, connVars, task1Vars,
                                    task2Vars, cacheVars, agentVars
<1>5. CASE ReplayComplete
  BY <1>5 DEF TypeOK, ReplayComplete, clientVars, task1Vars, task2Vars, cacheVars, agentVars
<1>6. QED BY <1>1, <1>2, <1>3, <1>4, <1>5 DEF Intercept

(* Task 1 keeps the types.                                                 *)
LEMMA TypeTask1 ==
  ASSUME TypeOK, AppendInHand, Task1
  PROVE  TypeOK'
<1> USE SessionAssumption
<1>1. CASE RefuseLoad
  <2>1. toBridge' \in Seq(ClientMessage) /\ Head(toBridge).id \in Req
    BY <1>1, QueueTypes DEF RefuseLoad, Task1Ready, NextMessage, ClientMessage
  <2>2. Synthetic("error", Head(toBridge).id) \in Line
    BY <2>1, SyntheticIsLine DEF TypeOK
  <2>3. inject' \in Seq(Line)
    BY <1>1, <2>2 DEF RefuseLoad, TypeOK
  <2>4. QED BY <1>1, <2>1, <2>3 DEF TypeOK, RefuseLoad, NotForwarded, clientVars, connVars,
                                    task1Vars, task2Vars, cacheVars
<1>2. CASE Forward
  <2> DEFINE msg == Head(toBridge)
             memory == IF msg.kind = "prompt" /\ ~injected THEN file ELSE {}
  <2>1. toBridge' \in Seq(ClientMessage) /\ msg.id \in Req
    BY <1>2, QueueTypes DEF Forward, Task1Ready, NextMessage, ClientMessage
  <2>2. msg.kind \in {"init", "new", "load", "prompt"} /\ memory \in SUBSET Req
    BY <1>2 DEF Forward, Task1Ready, NextMessage, TypeOK
  <2>3. Message(msg.kind, msg.id, memory) \in AgentMessage
    BY <2>1, <2>2, MessageTyped DEF TypeOK
  <2>4. stdin' = IF alive THEN Append(stdin, Message(msg.kind, msg.id, memory)) ELSE stdin
    BY <1>2 DEF Forward, SendToAgent
  <2>5. stdin' \in Seq(AgentMessage)
    BY <2>3, <2>4 DEF TypeOK
  <2>6. injected' \in BOOLEAN
    BY <1>2 DEF Forward, TypeOK
  <2>7. QED BY <1>2, <2>1, <2>5, <2>6 DEF TypeOK, Forward, clientVars, connVars, task2Vars,
                                          cacheVars
<1>3. CASE AppendFile
  <2>1. Tail(toBridge) \in Seq(ClientMessage) /\ Head(toBridge).id \in Req
    BY <1>3, QueueTypes DEF AppendFile, Task1Ready, NextMessage, ClientMessage
  <2>2. landing' \in SUBSET Req
    BY <1>3, <2>1 DEF AppendFile, TypeOK
  <2>3. toBridge' \in Seq(ClientMessage) /\ appending' \in {"no", "written"}
    BY <1>3, <2>1 DEF AppendFile, Task1Ready, TypeOK
  <2>4. QED BY <1>3, <2>2, <2>3 DEF TypeOK, AppendFile, clientVars, connVars, task2Vars,
                                    cacheVars, agentVars
<1>4. CASE ReadAndArm
  <2>1. Head(toBridge).id \in Req
    BY <1>4, QueueTypes DEF ReadAndArm, AppendInHand, ClientMessage
  <2>2. suppress' \in 0 .. MaxReq
    BY <1>4, <2>1 DEF ReadAndArm, Armed, Req
  <2>3. torn' \in BOOLEAN
    BY <1>4 DEF ReadAndArm, TypeOK
  <2>4. QED BY <1>4, <2>2, <2>3 DEF TypeOK, ReadAndArm, ReadBack, clientVars, connVars, task2Vars,
                                    cacheVars, agentVars
<1>5. CASE SendUpdate
  <2>1. toBridge' \in Seq(ClientMessage) /\ Head(toBridge).id \in Req
    BY <1>5, QueueTypes DEF SendUpdate, AppendInHand, ClientMessage
  <2>2. Message("memory", Head(toBridge).id, update) \in AgentMessage
    BY <2>1, MessageTyped DEF TypeOK
  <2>3. stdin' \in Seq(AgentMessage)
    BY <1>5, <2>2 DEF SendUpdate, SendToAgent, TypeOK
  <2>4. QED BY <1>5, <2>1, <2>3 DEF TypeOK, SendUpdate, clientVars, connVars, task2Vars,
                                    cacheVars
<1>6. CASE RefuseAppend
  <2>1. toBridge' \in Seq(ClientMessage)
    BY <1>6, QueueTypes DEF RefuseAppend, Task1Ready, NextMessage
  <2>2. QED BY <1>6, <2>1 DEF TypeOK, RefuseAppend, clientVars, connVars, task1Vars, task2Vars,
                              cacheVars, agentVars
<1>7. CASE ReadNothing
  <2>1. toBridge' \in Seq(ClientMessage)
    BY <1>7, QueueTypes DEF ReadNothing, AppendInHand
  <2>2. QED BY <1>7, <2>1 DEF TypeOK, ReadNothing, clientVars, connVars, task2Vars, cacheVars,
                              agentVars
<1>8. QED BY <1>1, <1>2, <1>3, <1>4, <1>5, <1>6, <1>7 DEF Task1

(* Task 2 keeps the types.                                                 *)
LEMMA TypeTask2 ==
  ASSUME TypeOK, Task2
  PROVE  TypeOK'
<1> USE SessionAssumption
<1>c. ClientTypeOK
  BY DEF TypeOK, ClientTypeOK
<1>1. CASE ForwardLine
  <2>1. Head(rx) \in Line /\ rx' \in Seq(Line)
    BY <1>1, QueueTypes DEF ForwardLine, Task2Ready
  <2>2. ClientTypeOK'
    BY <1>1, <1>c, <2>1, DeliverTypes DEF ForwardLine
  <2>3. /\ captured' \subseteq {"init", "session"} /\ session' \in 0 .. MaxReq
        /\ initCache' \in BOOLEAN /\ sessCache' \in 0 .. MaxReq
    BY <1>1, <2>1, CaptureTypes DEF ForwardLine
  <2>4. QED BY <1>1, <2>1, <2>2, <2>3 DEF TypeOK, ClientTypeOK, ForwardLine, connVars,
                                         task1Vars, agentVars
<1>2. CASE DropLine
  <2>1. Head(rx) \in Line /\ rx' \in Seq(Line)
    BY <1>2, QueueTypes DEF DropLine, Task2Ready
  <2>2. /\ captured' \subseteq {"init", "session"} /\ session' \in 0 .. MaxReq
        /\ initCache' \in BOOLEAN /\ sessCache' \in 0 .. MaxReq
    BY <1>2, <2>1, CaptureTypes DEF DropLine
  <2>3. suppress' \in 0 .. MaxReq
    BY <1>2, SessionAssumption DEF DropLine, StillArmed, TypeOK
  <2>4. rewriting' \subseteq [by : Nat, text : SUBSET Req, cut : BOOLEAN]
    BY <1>2, <2>1, RewriteTypes DEF DropLine, TypeOK
  <2>5. QED BY SMTT(30), <1>2, <2>1, <2>2, <2>3, <2>4 DEF TypeOK, DropLine, clientVars, connVars, task1Vars,
                                               agentVars
<1>3. CASE ForwardInjected
  <2>1. Head(inject) \in Line /\ inject' \in Seq(Line)
    BY <1>3, QueueTypes DEF ForwardInjected
  <2>2. ClientTypeOK'
    BY <1>3, <1>c, <2>1, DeliverTypes DEF ForwardInjected
  <2>3. QED BY <1>3, <2>1, <2>2 DEF TypeOK, ClientTypeOK, ForwardInjected, connVars, task1Vars,
                                    task2Vars, cacheVars, agentVars
<1>4. QED BY <1>1, <1>2, <1>3 DEF Task2

(* So does that of a connection left behind.                               *)
LEMMA TypeLeft ==
  ASSUME TypeOK, LeftTask2
  PROVE  TypeOK'
<1> DEFINE line == Head(left.rx)
<1>1. CASE LeftEnds
  BY SMTT(30), <1>1, LeftTypes DEF TypeOK, LeftEnds, clientVars, connVars, task1Vars, task2Vars, cacheVars,
                         agentVars
<1>2. CASE LeftSends \/ LeftFails \/ LeftDrops
  <2>1. line \in Line /\ Tail(left.rx) \in Seq(Line)
    BY <1>2, LeftTypes DEF LeftSends, LeftFails, LeftDrops, LeftReady
  <2>2. CacheLine(line, left.fresh, left.captured)
    BY <1>2 DEF LeftSends, LeftFails, LeftDrops, LeftTakes
  <2>3. /\ initCache' \in BOOLEAN /\ sessCache' \in 0 .. MaxReq
        /\ Taken(line, left.fresh, left.captured) \in SUBSET {"init", "session"}
    BY <2>1, <2>2, LeftTypes, CacheTypes
  <2>4. StillArmed(line, left.suppress) \in 0 .. MaxReq
    BY LeftTypes, SessionAssumption DEF StillArmed
  <2>5. LeftTakes => left' \in LeftBehind
    <3>1. left \in LeftBehind
      BY DEF TypeOK
    <3>2. QED BY <2>1, <2>3, <2>4, <3>1 DEF LeftTakes, LeftBehind
  <2>6. CASE LeftSends
    BY <2>3, <2>5, <2>6 DEF TypeOK, LeftSends, clientVars, connVars, task1Vars, task2Vars, agentVars
  <2>7. CASE LeftFails
    <3>1. buffer' \in Seq(Line) /\ left' \in LeftBehind
      BY <2>1, <2>7, LeftTypes DEF LeftFails, TypeOK
    <3>2. QED BY <2>3, <2>7, <3>1 DEF TypeOK, LeftFails, clientVars, connVars, task1Vars, task2Vars,
                                      agentVars
  <2>8. CASE LeftDrops
    <3>1. rewriting' \subseteq [by : Nat, text : SUBSET Req, cut : BOOLEAN]
      BY <2>1, <2>8, LeftTypes, RewriteTypes DEF LeftDrops
    <3>2. QED BY <2>3, <2>5, <2>8, <3>1 DEF TypeOK, LeftDrops, clientVars, connVars, task1Vars,
                                            task2Vars, agentVars
  <2>9. QED BY <1>2, <2>6, <2>7, <2>8
<1>3. QED BY <1>1, <1>2 DEF LeftTask2

(* The writes of the file keep the types.                                  *)
LEMMA TypeFile ==
  ASSUME TypeOK, FileSystem
  PROVE  TypeOK'
<1>1. ASSUME NEW entry \in landing, Land(entry)
      PROVE  TypeOK'
  <2>1. landing' \in SUBSET Req /\ file' \in SUBSET Req /\ settled' \in SUBSET Req
    BY <1>1 DEF TypeOK, Land
  <2>2. QED BY <1>1, <2>1 DEF TypeOK, Land, clientVars, connVars, task1Vars, task2Vars, cacheVars,
                              agentVars
<1>2. ASSUME NEW w \in rewriting, Truncate(w) \/ EndRewrite(w)
      PROVE  TypeOK'
  <2> DEFINE Rewrites == [by : Nat, text : SUBSET Req, cut : BOOLEAN]
  <2>1. w \in Rewrites
    BY DEF TypeOK
  <2>2. [w EXCEPT !.cut = TRUE] \in Rewrites /\ w.text \in SUBSET Req /\ w.cut \in BOOLEAN
    BY <2>1
  <2>3. rewriting' \subseteq Rewrites /\ file' \in SUBSET Req /\ torn' \in BOOLEAN
    BY <1>2, <2>2 DEF Truncate, EndRewrite, TypeOK
  <2>4. QED BY <1>2, <2>3 DEF TypeOK, Truncate, EndRewrite, clientVars, connVars, task1Vars,
                              task2Vars, cacheVars, agentVars
<1>3. QED BY <1>1, <1>2 DEF FileSystem, Rewrite

(* What the agent writes goes to the receivers or to the buffer.           *)
LEMMA WriteTypes ==
  ASSUME TypeOK, NEW line \in Line, Write(line)
  PROVE  /\ rx' \in Seq(Line) /\ buffer' \in Seq(Line) /\ left' \in LeftBehind
         /\ lagged' \in BOOLEAN /\ copied' \in SUBSET Req /\ haunted' = haunted
<1>1. rx' \in Seq(Line)
  BY PushIs DEF Write, TypeOK
<1>2. buffer' \in Seq(Line)
  BY DEF Write, TypeOK
<1>3. left' \in LeftBehind
  <2>1. left \in LeftBehind /\ Push(left.rx, line) \in Seq(Line)
    BY PushIs, LeftTypes DEF TypeOK
  <2>2. QED BY <2>1 DEF Write, LeftBehind
<1>4. copied' \in SUBSET Req
  BY DEF Write, TypeOK, Line
<1>5. lagged' \in BOOLEAN /\ haunted' = haunted
  BY DEF Write, TypeOK
<1>6. QED BY <1>1, <1>2, <1>3, <1>4, <1>5

(* The agent keeps the types.                                              *)
LEMMA TypeAgent ==
  ASSUME TypeOK, Agent
  PROVE  TypeOK'
<1> USE SessionAssumption
<1>1. CASE AgentStreams
  <2> DEFINE msg == Head(stdin)
             text == IF msg.kind = "memory" THEN msg.text ELSE {}
  <2>1. msg \in AgentMessage
    BY <1>1, QueueTypes DEF AgentStreams
  <2>2. text \in SUBSET Req
    BY <2>1 DEF AgentMessage
  <2>3. LineOf("update", msg, text) \in Line
    BY <2>1, <2>2, LineOfIsLine
  <2>4. Write(LineOf("update", msg, text))
    BY <1>1 DEF AgentStreams
  <2>5. /\ rx' \in Seq(Line) /\ buffer' \in Seq(Line) /\ left' \in LeftBehind
        /\ lagged' \in BOOLEAN /\ copied' \in SUBSET Req /\ haunted' = haunted
    BY <2>3, <2>4, WriteTypes
  <2>6. QED BY <1>1, <2>5 DEF TypeOK, AgentStreams, clientVars, connVars, task1Vars, task2Vars,
                              cacheVars
<1>2. CASE AgentAnswers
  <2> DEFINE msg == Head(stdin)
  <2>1. msg \in AgentMessage /\ msg.id \in Req /\ stdin' \in Seq(AgentMessage)
    BY <1>2, QueueTypes DEF AgentAnswers, AgentMessage
  <2>2. PICK k \in {"init", "session", "loaded", "error", "final"} : Write(LineOf(k, msg, {}))
    BY <1>2 DEF AgentAnswers
  <2>3. LineOf(k, msg, {}) \in Line
    BY <2>1, LineOfIsLine
  <2>4. /\ rx' \in Seq(Line) /\ buffer' \in Seq(Line) /\ left' \in LeftBehind
        /\ lagged' \in BOOLEAN /\ copied' \in SUBSET Req /\ haunted' = haunted
    BY <2>2, <2>3, WriteTypes
  <2>5. sessions' \subseteq Req
    BY <1>2, <2>1 DEF AgentAnswers, TypeOK
  <2>6. /\ started' = FALSE
        /\ UNCHANGED <<clientVars, toBridge, connVars, replay, inject, task1Vars, task2Vars, suppress,
                       cacheVars, fileVars, alive>>
    BY <1>2 DEF AgentAnswers
  <2>7. /\ file' \in SUBSET Req /\ landing' \in SUBSET Req /\ settled' \in SUBSET Req
        /\ torn' \in BOOLEAN /\ haunted' \in BOOLEAN
        /\ rewriting' \subseteq [by : Nat, text : SUBSET Req, cut : BOOLEAN]
    BY <2>4, <2>6 DEF TypeOK
  <2>8. /\ stage' \in {"init", "session", "ready"} /\ resume' \in BOOLEAN
        /\ asked' \in 0 .. MaxReq /\ sent' \in 0 .. MaxReq
        /\ toBridge' \in Seq(ClientMessage) /\ answers' \in [Req -> Nat]
        /\ conn' \in {"none", "init", "session", "replay", "live"}
        /\ epoch' \in Nat /\ fresh' \in BOOLEAN
        /\ replay' \in Seq(Line) /\ inject' \in Seq(Line)
    BY <2>6 DEF TypeOK, clientVars, connVars
  <2>9. QED BY <2>1, <2>4, <2>5, <2>6, <2>7, <2>8 DEF TypeOK, task1Vars, task2Vars, cacheVars
<1>3. CASE AgentDies
  <2>1. alive' = FALSE /\ stdin' = <<>> /\ started' = FALSE /\ <<>> \in Seq(AgentMessage)
    BY <1>3 DEF AgentDies
  <2>2. UNCHANGED <<clientVars, toBridge, connVars, replay, rx, inject, task1Vars, task2Vars,
                    suppress, cacheVars, buffer, fileVars, leftVars, sessions>>
    BY <1>3 DEF AgentDies
  <2>3. /\ lagged' \in BOOLEAN /\ haunted' \in BOOLEAN /\ copied' \in SUBSET Req
        /\ left' \in LeftBehind /\ torn' \in BOOLEAN
        /\ file' \in SUBSET Req /\ landing' \in SUBSET Req /\ settled' \in SUBSET Req
        /\ rewriting' \subseteq [by : Nat, text : SUBSET Req, cut : BOOLEAN]
    BY <2>2 DEF TypeOK
  <2>4. QED BY <2>1, <2>2, <2>3 DEF TypeOK, clientVars, connVars, task1Vars, task2Vars, cacheVars
<1>4. QED BY <1>1, <1>2, <1>3 DEF Agent

(* Every step keeps the types.                                             *)
LEMMA TypeStep ==
  ASSUME TypeOK, AppendInHand, [Next]_vars
  PROVE  TypeOK'
<1>1. CASE UNCHANGED vars
  BY <1>1 DEF TypeOK, vars, clientVars, connVars, task1Vars, task2Vars, cacheVars, agentVars
<1>2. CASE Next
  BY <1>2, TypeClient, TypeIntercept, TypeTask1, TypeTask2, TypeLeft, TypeFile, TypeAgent DEF Next
<1>3. QED BY <1>1, <1>2

-----------------------------------------------------------------------------
(* The session invariant                                                   *)

(* Connections end clean, and Task 1's message stays at the head.          *)
LEMMA ConnStep ==
  ASSUME TypeOK, QuietWhenGone, AppendInHand, [Next]_vars
  PROVE  QuietWhenGone' /\ AppendInHand'
<1> USE DEF QuietWhenGone, AppendInHand
<1>1. CASE Client
  <2>1. PICK kind : ClientSends(kind)
    BY <1>1 DEF Client
  <2>2. toBridge' # <<>>
    <3>1. toBridge \in Seq(ClientMessage)
      BY DEF TypeOK
    <3>2. toBridge' = Append(toBridge, [kind |-> kind, id |-> sent + 1])
      BY <2>1 DEF ClientSends
    <3>3. QED BY <3>1, <3>2
  <2>3. QED BY <2>1, <2>2 DEF ClientSends, connVars, task1Vars
<1>2. CASE Connect
  BY <1>2 DEF Connect, task1Vars
<1>3. CASE Disconnect \/ Leave
  BY <1>3 DEF Disconnect, Leave, ConnectionGone
<1>4. CASE Intercept
  BY <1>4 DEF Intercept, InterceptInit, InterceptSession, InterceptTimeout, ReplayLine,
              ReplayComplete, AfterInit, task1Vars, connVars
<1>5. CASE Task1
  BY <1>5 DEF Task1, RefuseLoad, Forward, AppendFile, RefuseAppend, ReadAndArm, ReadNothing,
              SendUpdate, Task1Ready, NextMessage, task1Vars, connVars
<1>6. CASE Task2
  BY <1>6 DEF Task2, ForwardLine, DropLine, ForwardInjected, Task2Ready, task1Vars, connVars
<1>7. CASE Agent
  BY <1>7 DEF Agent, AgentStreams, AgentAnswers, AgentDies, Write, task1Vars, connVars
<1>8. CASE LeftTask2 \/ FileSystem
  BY <1>8 DEF LeftTask2, LeftSends, LeftFails, LeftDrops, LeftEnds, FileSystem, Rewrite, Land,
              Truncate, EndRewrite, task1Vars, connVars
<1>9. CASE UNCHANGED vars
  BY <1>9 DEF vars, task1Vars, connVars
<1>10. QED BY <1>1, <1>2, <1>3, <1>4, <1>5, <1>6, <1>7, <1>8, <1>9 DEF Next

(* Taking a line out of a receiver.                                        *)
LEMMA SessionsRest ==
  ASSUME NEW q \in Seq(Line), NEW S, SessionsIn(q, S), q # <<>>
  PROVE  SessionsIn(Tail(q), S) /\ (Head(q).kind = "session" => Head(q).id \in S)
<1>1. /\ Head(q) = q[1] /\ 1 \in 1 .. Len(q)
      /\ \A i \in 1 .. Len(Tail(q)) : i + 1 \in 1 .. Len(q) /\ Tail(q)[i] = q[i + 1]
  OBVIOUS
<1>2. QED BY <1>1 DEF SessionsIn

(* Writing a line of the agent, its own sessions only.                     *)
LEMMA SessionsPushed ==
  ASSUME NEW q \in Seq(Line), NEW S, NEW T, SessionsIn(q, S), S \subseteq T, NEW line \in Line,
         line.kind = "session" => line.id \in T
  PROVE  SessionsIn(q, T) /\ SessionsIn(Push(q, line), T)
<1> DEFINE p == Push(q, line)
<1>1. \A i \in 1 .. Len(p) : p[i] = line \/ \E j \in 1 .. Len(q) : p[i] = q[j]
  BY PushIs
<1> HIDE DEF p
<1>2. SessionsIn(q, T) /\ SessionsIn(p, T)
  BY <1>1 DEF SessionsIn
<1>3. QED BY <1>2 DEF p

(* Capturing a line of the agent caches a session of the agent.            *)
LEMMA CaptureKeepsSession ==
  ASSUME TypeOK, LinesOfAgent, CachedSessionOfAgent, rx # <<>>, conn # "none",
         Capture(Head(rx)), UNCHANGED <<sessions, conn, left, haunted>>, rx' = Tail(rx)
  PROVE  LinesOfAgent' /\ CachedSessionOfAgent'
<1>1. SessionsIn(Tail(rx), sessions) /\ (Head(rx).kind = "session" => Head(rx).id \in sessions)
  BY SessionsRest DEF TypeOK, LinesOfAgent
<1>2. LinesOfAgent'
  BY <1>1 DEF LinesOfAgent
<1>3. CachedSessionOfAgent'
  BY <1>1 DEF CachedSessionOfAgent, Capture, CacheLine
<1>4. QED BY <1>2, <1>3

LEMMA WriteKeepsLines ==
  ASSUME TypeOK, LinesOfAgent, NEW line \in Line, Write(line), sessions \subseteq sessions',
         line.kind = "session" => line.id \in sessions'
  PROVE  LinesOfAgent'
<1>1. SessionsIn(rx', sessions')
  BY SessionsPushed DEF Write, TypeOK, LinesOfAgent
<1>2. ASSUME left'.on, ~haunted'
      PROVE  SessionsIn(left'.rx, sessions')
  <2>1. /\ left \in LeftBehind /\ left.rx \in Seq(Line)
        /\ left' = left \/ left' = [left EXCEPT !.rx = Push(@, line)]
        /\ haunted' = haunted
    BY LeftTypes DEF TypeOK, Write
  <2>2. left.on /\ SessionsIn(left.rx, sessions)
    BY <1>2, <2>1 DEF LinesOfAgent, LeftBehind
  <2>3. left'.rx = left.rx \/ left'.rx = Push(left.rx, line)
    BY <2>1 DEF LeftBehind
  <2>4. SessionsIn(left.rx, sessions') /\ SessionsIn(Push(left.rx, line), sessions')
    BY <2>1, <2>2, SessionsPushed
  <2>5. QED BY <2>3, <2>4
<1>3. QED BY <1>1, <1>2 DEF LinesOfAgent

(* A connection left behind caches a session of its agent.                 *)
LEMMA LeftKeepsSession ==
  ASSUME TypeOK, LinesOfAgent, CachedSessionOfAgent, LeftTask2
  PROVE  LinesOfAgent' /\ CachedSessionOfAgent'
<1> DEFINE line == Head(left.rx)
<1>1. UNCHANGED <<rx, sessions, session, conn, haunted>>
  BY DEF LeftTask2, LeftSends, LeftFails, LeftDrops, LeftEnds, task2Vars, connVars, agentVars
<1>2. CASE LeftEnds
  <2>1. left'.on = FALSE /\ UNCHANGED cacheVars
    BY <1>2 DEF LeftEnds, NoneLeft
  <2>2. QED BY <1>1, <2>1 DEF LinesOfAgent, CachedSessionOfAgent, cacheVars
<1>3. CASE LeftSends \/ LeftFails \/ LeftDrops
  <2>1. left.on /\ left.rx # <<>> /\ left.rx \in Seq(Line)
    BY <1>3, LeftTypes DEF LeftSends, LeftFails, LeftDrops, LeftReady
  <2>2. CacheLine(line, left.fresh, left.captured)
    BY <1>3 DEF LeftSends, LeftFails, LeftDrops, LeftTakes
  <2>3. ~haunted => /\ SessionsIn(Tail(left.rx), sessions)
                    /\ line.kind = "session" => line.id \in sessions
    BY <2>1, SessionsRest DEF LinesOfAgent
  <2>4. left'.on => left'.rx = Tail(left.rx)
    <3>1. left' = NoneLeft \/ LeftTakes
      BY <1>3 DEF LeftSends, LeftFails, LeftDrops
    <3>2. left \in LeftBehind
      BY DEF TypeOK
    <3>3. LeftTakes => left'.rx = Tail(left.rx)
      BY <3>2 DEF LeftTakes, LeftBehind
    <3>4. NoneLeft.on = FALSE
      BY DEF NoneLeft
    <3>5. QED BY <3>1, <3>3, <3>4
  <2>5. LinesOfAgent'
    BY <1>1, <2>3, <2>4 DEF LinesOfAgent
  <2>6. CachedSessionOfAgent'
    BY <1>1, <2>2, <2>3 DEF CachedSessionOfAgent, CacheLine, Takes
  <2>7. QED BY <2>5, <2>6
<1>4. QED BY <1>2, <1>3 DEF LeftTask2

(* Every step keeps the cached session and the connection's session among  *)
(* those the live process has created.                                     *)
LEMMA SessionStep ==
  ASSUME IInv, [Next]_vars
  PROVE  LinesOfAgent' /\ CachedSessionOfAgent'
<1> USE DEF IInv
<1>1. CASE Client
  BY <1>1 DEF Client, ClientSends, LinesOfAgent, CachedSessionOfAgent, connVars, task2Vars,
              cacheVars, agentVars
<1>2. CASE Connect
  <2>1. rx' = <<>>
    BY <1>2 DEF Connect, QuietWhenGone
  <2>2. SessionsIn(rx', sessions')
    BY <2>1 DEF SessionsIn
  <2>3. CASE alive
    BY <1>2, <2>2, <2>3 DEF Connect, LinesOfAgent, CachedSessionOfAgent, cacheVars, agentVars
  <2>4. CASE ~alive
    <3>1. left'.on => haunted'
      BY <1>2, <2>4, LeftTypes DEF Connect, TypeOK, LeftBehind
    <3>2. sessCache' = 0 /\ session' = 0
      BY <1>2, <2>4 DEF Connect, CachesEmpty
    <3>3. QED BY <2>2, <3>1, <3>2 DEF LinesOfAgent, CachedSessionOfAgent
  <2>5. QED BY <2>3, <2>4
<1>3. CASE Disconnect \/ Leave
  <2>1. /\ rx' = <<>> /\ conn' = "none" /\ session' = 0
        /\ UNCHANGED <<haunted, cacheVars, agentVars>>
    BY <1>3 DEF Disconnect, Leave, ConnectionGone
  <2>2. SessionsIn(rx', sessions') /\ CachedSessionOfAgent'
    BY <2>1 DEF SessionsIn, CachedSessionOfAgent, cacheVars, agentVars
  <2>3. (left'.rx = left.rx /\ left'.on = left.on) \/ left'.rx = rx
    BY <1>3 DEF Disconnect, Leave
  <2>4. QED BY <2>1, <2>2, <2>3 DEF LinesOfAgent, agentVars
<1>4. CASE Intercept
  BY <1>4 DEF Intercept, InterceptInit, InterceptSession, InterceptTimeout, ReplayLine,
              ReplayComplete, LinesOfAgent, CachedSessionOfAgent, task2Vars, cacheVars,
              agentVars, connVars
<1>5. CASE Task1
  BY <1>5 DEF Task1, RefuseLoad, Forward, AppendFile, RefuseAppend, ReadAndArm, ReadNothing,
              SendUpdate, LinesOfAgent, CachedSessionOfAgent, task2Vars, cacheVars, agentVars, connVars
<1>6. CASE Task2
  <2>1. CASE ForwardLine
    BY <2>1, CaptureKeepsSession DEF ForwardLine, Task2Ready, connVars, agentVars
  <2>2. CASE DropLine
    BY <2>2, CaptureKeepsSession DEF DropLine, Task2Ready, connVars, agentVars
  <2>3. CASE ForwardInjected
    BY <2>3 DEF ForwardInjected, LinesOfAgent, CachedSessionOfAgent, task2Vars, cacheVars,
                agentVars, connVars
  <2>4. QED BY <1>6, <2>1, <2>2, <2>3 DEF Task2
<1>7. CASE Agent
  <2>1. CASE AgentStreams
    <3> DEFINE msg == Head(stdin)
               text == IF msg.kind = "memory" THEN msg.text ELSE {}
    <3>1. msg \in AgentMessage
      BY <2>1, QueueTypes DEF AgentStreams
    <3>2. text \in SUBSET Req
      BY <3>1 DEF AgentMessage
    <3>3. LineOf("update", msg, text) \in Line /\ LineOf("update", msg, text).kind = "update"
      BY <3>1, <3>2, LineOfIsLine DEF LineOf
    <3>4. Write(LineOf("update", msg, text)) /\ sessions' = sessions
      BY <2>1 DEF AgentStreams
    <3>5. LinesOfAgent' /\ haunted' = haunted
      BY <3>3, <3>4, WriteKeepsLines DEF Write
    <3>6. QED BY <2>1, <3>5 DEF AgentStreams, CachedSessionOfAgent, task2Vars, cacheVars, connVars
  <2>2. CASE AgentAnswers
    <3> DEFINE msg == Head(stdin)
    <3>1. msg \in AgentMessage
      BY <2>2, QueueTypes DEF AgentAnswers
    <3>2. PICK k \in {"init", "session", "loaded", "error", "final"} :
            Write(LineOf(k, msg, {})) /\ (k = "session" => msg.kind = "new")
      BY <2>2 DEF AgentAnswers
    <3>3. /\ LineOf(k, msg, {}) \in Line
          /\ LineOf(k, msg, {}).kind = k /\ LineOf(k, msg, {}).id = msg.id
      BY <3>1, LineOfIsLine DEF LineOf
    <3>4. sessions \subseteq sessions' /\ (msg.kind = "new" => msg.id \in sessions')
      BY <2>2 DEF AgentAnswers
    <3>5. LinesOfAgent' /\ haunted' = haunted
      BY <3>2, <3>3, <3>4, WriteKeepsLines DEF Write
    <3>6. QED BY <2>2, <3>4, <3>5 DEF AgentAnswers, CachedSessionOfAgent, task2Vars, cacheVars,
                                      connVars
  <2>3. CASE AgentDies
    BY <2>3 DEF AgentDies, LinesOfAgent, CachedSessionOfAgent, task2Vars, cacheVars, connVars
  <2>4. QED BY <1>7, <2>1, <2>2, <2>3 DEF Agent
<1>8. CASE LeftTask2
  BY <1>8, LeftKeepsSession
<1>9. CASE FileSystem
  BY <1>9 DEF FileSystem, Rewrite, Land, Truncate, EndRewrite, LinesOfAgent, CachedSessionOfAgent,
              connVars, task2Vars, cacheVars, agentVars
<1>10. CASE UNCHANGED vars
  BY <1>10 DEF vars, LinesOfAgent, CachedSessionOfAgent, connVars, task2Vars, cacheVars, agentVars
<1>11. QED BY <1>1, <1>2, <1>3, <1>4, <1>5, <1>6, <1>7, <1>8, <1>9, <1>10 DEF Next

(* The inductive invariant of the conversation.                            *)
THEOREM SessionInvariant == Spec => []IInv
<1>1. Init => IInv
  <2> SUFFICES ASSUME Init PROVE IInv
    OBVIOUS
  <2>1. /\ <<>> \in Seq(ClientMessage) /\ <<>> \in Seq(Line) /\ <<>> \in Seq(AgentMessage)
        /\ [r \in Req |-> 0] \in [Req -> Nat] /\ 0 \in 0 .. MaxReq
    BY SessionAssumption
  <2>2. TypeOK
    BY <2>1 DEF Init, TypeOK, NoneLeft, LeftBehind
  <2>3. LinesOfAgent /\ QuietWhenGone /\ AppendInHand /\ CachedSessionOfAgent
    BY DEF Init, LinesOfAgent, SessionsIn, NoneLeft, QuietWhenGone, AppendInHand,
           CachedSessionOfAgent
  <2>4. QED BY <2>2, <2>3 DEF IInv
<1>2. IInv /\ [Next]_vars => IInv'
  BY TypeStep, ConnStep, SessionStep DEF IInv
<1>3. QED BY <1>1, <1>2, PTL DEF Spec

(* Neither the session a reconnecting client is handed from the cache nor  *)
(* the one memory updates are sent to belongs to a process that is no      *)
(* longer the one in the pool, however connections, those left behind      *)
(* among them, deaths and responses interleave, unless a connection of the *)
(* predecessor was still there when the agent was replaced.                *)
THEOREM CachedSessionKept == Spec => []CachedSessionOfAgent
<1>1. IInv => CachedSessionOfAgent
  BY DEF IInv
<1>2. QED BY <1>1, SessionInvariant, PTL

-----------------------------------------------------------------------------
(* The memory file                                                         *)

(* What is on its way to the agent, back from it, in Task 1's hand or      *)
(* being written still holds every settled entry: SettledKept alone is not *)
(* inductive.                                                              *)
RequestsKeep ==
  \A i \in 1 .. Len(stdin) : stdin[i].kind = "memory" => settled \subseteq stdin[i].text
Texts(q, S) == \A i \in 1 .. Len(q) : q[i].text # {} => q[i].silent /\ S \subseteq q[i].text
LinesKeep == Texts(rx, settled) /\ Texts(left.rx, settled)
ReadingKeeps == appending = "armed" => settled \subseteq update
RewritesKeep == \A w \in rewriting : settled \subseteq w.text

MInv ==
  torn \/ (RequestsKeep /\ LinesKeep /\ ReadingKeeps /\ RewritesKeep /\ SettledKept)

(* Taking the first message or line keeps the rest.                        *)
LEMMA TextsRest ==
  ASSUME NEW q \in Seq(Line), NEW S, Texts(q, S), q # <<>>
  PROVE  /\ Texts(Tail(q), S)
         /\ Head(q).text # {} => Head(q).silent /\ S \subseteq Head(q).text
<1>1. /\ Head(q) = q[1] /\ 1 \in 1 .. Len(q)
      /\ \A i \in 1 .. Len(Tail(q)) : i + 1 \in 1 .. Len(q) /\ Tail(q)[i] = q[i + 1]
  OBVIOUS
<1>2. QED BY <1>1 DEF Texts

(* The agent writing a line that holds the settled entries, or none.       *)
LEMMA TextsPushed ==
  ASSUME NEW q \in Seq(Line), NEW S, Texts(q, S), NEW line \in Line,
         line.text # {} => line.silent /\ S \subseteq line.text
  PROVE  Texts(Push(q, line), S)
<1> DEFINE p == Push(q, line)
<1>1. \A i \in 1 .. Len(p) : p[i] = line \/ \E j \in 1 .. Len(q) : p[i] = q[j]
  BY PushIs
<1> HIDE DEF p
<1>2. Texts(p, S)
  BY <1>1 DEF Texts
<1>3. QED BY <1>2 DEF p

LEMMA TailKeeps ==
  ASSUME TypeOK, settled' = settled, RequestsKeep, stdin # <<>>, stdin' = Tail(stdin)
  PROVE  RequestsKeep'
<1>1. stdin \in Seq(AgentMessage)
  BY DEF TypeOK
<1> SUFFICES ASSUME NEW i \in 1 .. Len(Tail(stdin)), Tail(stdin)[i].kind = "memory"
             PROVE  settled \subseteq Tail(stdin)[i].text
  BY DEF RequestsKeep
<1>2. i + 1 \in 1 .. Len(stdin) /\ Tail(stdin)[i] = stdin[i + 1]
  BY <1>1
<1>3. QED BY <1>2 DEF RequestsKeep

(* Sending the agent a message that holds the settled entries, or none.    *)
LEMMA SendKeeps ==
  ASSUME TypeOK, RequestsKeep, settled' = settled, NEW msg \in AgentMessage, SendToAgent(msg),
         msg.kind = "memory" => settled \subseteq msg.text
  PROVE  RequestsKeep'
<1>1. stdin \in Seq(AgentMessage)
  BY DEF TypeOK
<1>2. CASE stdin' = stdin
  BY <1>2 DEF RequestsKeep
<1>3. CASE stdin' = Append(stdin, msg)
  <2> SUFFICES ASSUME NEW i \in 1 .. Len(stdin'), stdin'[i].kind = "memory"
               PROVE  settled \subseteq stdin'[i].text
    BY DEF RequestsKeep
  <2>1. CASE i = Len(stdin) + 1
    BY <1>1, <1>3, <2>1
  <2>2. CASE i # Len(stdin) + 1
    <3>1. i \in 1 .. Len(stdin) /\ stdin'[i] = stdin[i]
      BY <1>1, <1>3, <2>2
    <3>2. QED BY <3>1 DEF RequestsKeep
  <2>3. QED BY <2>1, <2>2
<1>4. QED BY <1>2, <1>3 DEF SendToAgent

LEMMA WriteKeeps ==
  ASSUME TypeOK, LinesKeep, settled' = settled, NEW line \in Line, Write(line),
         line.text # {} => line.silent /\ settled \subseteq line.text
  PROVE  LinesKeep'
<1>1. /\ rx \in Seq(Line) /\ left.rx \in Seq(Line) /\ left \in LeftBehind
      /\ Texts(rx, settled) /\ Texts(left.rx, settled)
  BY LeftTypes DEF TypeOK, LinesKeep
<1>2. Texts(Push(rx, line), settled) /\ Texts(Push(left.rx, line), settled)
  BY <1>1, TextsPushed
<1>3. left'.rx = left.rx \/ left'.rx = Push(left.rx, line)
  BY <1>1 DEF Write, LeftBehind
<1>4. rx' = rx \/ rx' = Push(rx, line)
  BY DEF Write
<1>5. QED BY <1>1, <1>2, <1>3, <1>4 DEF LinesKeep

(* A rewrite holds what the line that caused it holds.                     *)
LEMMA BeginKeeps ==
  ASSUME RewritesKeep, SettledKept, ~torn, NEW line, NEW e, BeginRewrite(line, e),
         UNCHANGED <<file, settled, torn>>, line.text # {} => settled \subseteq line.text
  PROVE  RewritesKeep' /\ SettledKept'
<1> DEFINE new == [by |-> e, text |-> line.text, cut |-> FALSE]
<1>1. rewriting' = rewriting \/ (line.text # {} /\ rewriting' = rewriting \cup {new})
  BY DEF BeginRewrite
<1>2. new.text = line.text
  OBVIOUS
<1>3. RewritesKeep'
  BY <1>1, <1>2 DEF RewritesKeep
<1>4. SettledKept'
  BY <1>1 DEF SettledKept
<1>5. QED BY <1>3, <1>4

-----------------------------------------------------------------------------
(* Task 1 reads back and sends; nothing of it leaves an entry out, unless  *)
(* it reads the file within a rewrite.                                     *)
LEMMA MemoryTask1 ==
  ASSUME IInv, MInv, ~torn, Task1
  PROVE  MInv'
<1> USE DEF MInv
<1>t. TypeOK /\ AppendInHand
  BY DEF IInv
<1>1. CASE RefuseLoad
  BY <1>1 DEF RefuseLoad, NotForwarded, task1Vars, RequestsKeep, LinesKeep, ReadingKeeps,
              RewritesKeep, SettledKept
<1>2. CASE Forward
  <2> DEFINE msg == Head(toBridge)
             memory == IF msg.kind = "prompt" /\ ~injected THEN file ELSE {}
             new == Message(msg.kind, msg.id, memory)
  <2>1. msg.kind \in {"init", "new", "load", "prompt"} /\ msg.id \in Req
    BY <1>2, <1>t, QueueTypes DEF Forward, Task1Ready, NextMessage, ClientMessage
  <2>2. new \in AgentMessage /\ new.kind # "memory"
    BY <2>1, <1>t, MessageTyped DEF Message, TypeOK
  <2>3. SendToAgent(new) /\ settled' = settled
    BY <1>2 DEF Forward
  <2>4. RequestsKeep'
    BY <1>t, <2>2, <2>3, SendKeeps
  <2>5. QED BY <1>2, <2>4 DEF Forward, LinesKeep, ReadingKeeps, RewritesKeep, SettledKept
<1>3. CASE AppendFile
  <2>1. appending' = "armed" => appending = "armed"
    BY <1>3 DEF AppendFile
  <2>2. QED BY <1>3, <2>1 DEF AppendFile, agentVars, RequestsKeep, LinesKeep, ReadingKeeps,
                              RewritesKeep, SettledKept
<1>4. CASE RefuseAppend
  BY <1>4 DEF RefuseAppend, task1Vars, agentVars, RequestsKeep, LinesKeep, ReadingKeeps,
              RewritesKeep, SettledKept
<1>5. CASE ReadAndArm
  <2>1. /\ torn' = (torn \/ \E w \in rewriting : w.cut) /\ update' = file /\ stdin' = stdin
        /\ UNCHANGED <<file, rewriting, settled, rx, left>>
    BY <1>5 DEF ReadAndArm, ReadBack, agentVars
  <2>2. CASE \E w \in rewriting : w.cut
    BY <2>1, <2>2
  <2>3. CASE ~ \E w \in rewriting : w.cut
    <3>1. settled \subseteq file
      BY <2>3 DEF SettledKept
    <3>2. RequestsKeep' /\ LinesKeep' /\ ReadingKeeps' /\ RewritesKeep' /\ SettledKept'
      BY <2>1, <3>1 DEF RequestsKeep, LinesKeep, ReadingKeeps, RewritesKeep, SettledKept
    <3>3. QED BY <3>2
  <2>4. QED BY <2>2, <2>3
<1>6. CASE ReadNothing
  BY <1>6 DEF ReadNothing, agentVars, RequestsKeep, LinesKeep, ReadingKeeps, RewritesKeep,
              SettledKept
<1>7. CASE SendUpdate
  <2> DEFINE new == Message("memory", Head(toBridge).id, update)
  <2>1. Head(toBridge).id \in Req
    BY <1>7, <1>t, QueueTypes DEF SendUpdate, AppendInHand, ClientMessage
  <2>2. new \in AgentMessage /\ new.text = update
    BY <2>1, <1>t, MessageTyped DEF Message, TypeOK
  <2>3. SendToAgent(new) /\ settled' = settled /\ settled \subseteq update
    BY <1>7 DEF SendUpdate, ReadingKeeps
  <2>4. RequestsKeep'
    BY <1>t, <2>2, <2>3, SendKeeps
  <2>5. QED BY <1>7, <2>4 DEF SendUpdate, LinesKeep, ReadingKeeps, RewritesKeep, SettledKept
<1>8. QED BY <1>1, <1>2, <1>3, <1>4, <1>5, <1>6, <1>7 DEF Task1

(* Task 2 rewrites the file with a line that holds every settled entry.    *)
LEMMA MemoryTask2 ==
  ASSUME IInv, MInv, ~torn, Task2
  PROVE  MInv'
<1> USE DEF MInv
<1>t. TypeOK
  BY DEF IInv
<1>1. CASE ForwardLine \/ DropLine
  <2>1. /\ rx # <<>> /\ rx \in Seq(Line) /\ rx' = Tail(rx) /\ stdin' = stdin
        /\ UNCHANGED <<settled, left, torn, file, appending, update>>
    BY <1>1, <1>t DEF ForwardLine, DropLine, Task2Ready, TypeOK, agentVars, task1Vars
  <2>2. LinesKeep' /\ (Head(rx).text # {} => settled \subseteq Head(rx).text)
    BY <2>1, TextsRest DEF LinesKeep
  <2>3. RewritesKeep' /\ SettledKept'
    <3>1. CASE ForwardLine
      BY <3>1 DEF ForwardLine, RewritesKeep, SettledKept
    <3>2. CASE DropLine
      BY <2>1, <2>2, <3>2, BeginKeeps DEF DropLine
    <3>3. QED BY <1>1, <3>1, <3>2
  <2>4. QED BY <2>1, <2>2, <2>3 DEF RequestsKeep, ReadingKeeps
<1>2. CASE ForwardInjected
  BY <1>2 DEF ForwardInjected, task1Vars, agentVars, RequestsKeep, LinesKeep, ReadingKeeps,
              RewritesKeep, SettledKept
<1>3. QED BY <1>1, <1>2 DEF Task2

(* So does that of a connection left behind.                               *)
LEMMA MemoryLeft ==
  ASSUME IInv, MInv, ~torn, LeftTask2
  PROVE  MInv'
<1> USE DEF MInv
<1>t. TypeOK
  BY DEF IInv
<1>1. /\ stdin' = stdin
      /\ UNCHANGED <<rx, settled, torn, file, appending, update>>
  BY DEF LeftTask2, LeftSends, LeftFails, LeftDrops, LeftEnds, agentVars, task1Vars
<1>2. NoneLeft.rx = <<>> /\ Texts(<<>>, settled)
  BY DEF NoneLeft, Texts
<1>3. CASE LeftEnds
  <2>1. left' = NoneLeft /\ rewriting' = rewriting
    BY <1>3 DEF LeftEnds
  <2>2. QED BY <1>1, <1>2, <2>1 DEF RequestsKeep, LinesKeep, ReadingKeeps, RewritesKeep, SettledKept
<1>4. CASE LeftSends \/ LeftFails \/ LeftDrops
  <2>1. left.rx # <<>> /\ left.rx \in Seq(Line) /\ left \in LeftBehind
    BY <1>4, <1>t, LeftTypes DEF LeftSends, LeftFails, LeftDrops, LeftReady, TypeOK
  <2>2. left'.rx = Tail(left.rx) \/ left'.rx = <<>>
    <3>1. left' = NoneLeft \/ LeftTakes
      BY <1>4 DEF LeftSends, LeftFails, LeftDrops
    <3>2. LeftTakes => left'.rx = Tail(left.rx)
      BY <2>1 DEF LeftTakes, LeftBehind
    <3>3. QED BY <1>2, <3>1, <3>2
  <2>3. LinesKeep' /\ (Head(left.rx).text # {} => settled \subseteq Head(left.rx).text)
    BY <1>1, <1>2, <2>1, <2>2, TextsRest DEF LinesKeep
  <2>4. RewritesKeep' /\ SettledKept'
    <3>1. CASE LeftSends \/ LeftFails
      BY <1>1, <3>1 DEF LeftSends, LeftFails, RewritesKeep, SettledKept
    <3>2. CASE LeftDrops
      BY <1>1, <2>3, <3>2, BeginKeeps DEF LeftDrops
    <3>3. QED BY <1>4, <3>1, <3>2
  <2>5. QED BY <1>1, <2>3, <2>4 DEF RequestsKeep, ReadingKeeps
<1>5. QED BY <1>3, <1>4 DEF LeftTask2

(* An entry settles only when nothing that leaves it out may come back;    *)
(* a rewrite empties the file and then brings back every settled entry.    *)
LEMMA MemoryFile ==
  ASSUME IInv, MInv, ~torn, FileSystem
  PROVE  MInv'
<1> USE DEF MInv
<1>t. TypeOK
  BY DEF IInv
<1>1. ASSUME NEW entry \in landing, Land(entry)
      PROVE  MInv'
  <2>1. /\ UNCHANGED <<rx, left, appending, update, rewriting, torn>> /\ stdin' = stdin
        /\ \/ file' = file /\ settled' = settled
           \/ /\ file' = file \cup {entry}
              /\ settled' = IF UpdateUnderWay THEN settled ELSE settled \cup {entry}
    BY <1>1 DEF Land, agentVars, task1Vars
  <2>2. CASE settled' = settled
    BY <2>1, <2>2 DEF RequestsKeep, LinesKeep, ReadingKeeps, RewritesKeep, SettledKept
  <2>3. CASE ~UpdateUnderWay /\ file' = file \cup {entry} /\ settled' = settled \cup {entry}
    <3>1. /\ stdin \in Seq(AgentMessage) /\ rx \in Seq(Line) /\ left.rx \in Seq(Line)
          /\ \A i \in 1 .. Len(stdin) : stdin[i].kind # "memory"
          /\ \A i \in 1 .. Len(rx) : ~rx[i].silent
          /\ \A i \in 1 .. Len(left.rx) : ~left.rx[i].silent
          /\ appending # "armed" /\ rewriting = {}
      <4>1. stdin \in Seq(AgentMessage) /\ rx \in Seq(Line) /\ left.rx \in Seq(Line)
        BY <1>t, LeftTypes DEF TypeOK
      <4>2. /\ DOMAIN stdin = 1 .. Len(stdin) /\ DOMAIN rx = 1 .. Len(rx)
            /\ DOMAIN left.rx = 1 .. Len(left.rx)
        BY <4>1
      <4>3. QED BY <2>3, <4>1, <4>2 DEF UpdateUnderWay
    <3>2. RequestsKeep' /\ LinesKeep'
      BY <2>1, <3>1 DEF RequestsKeep, LinesKeep, Texts
    <3>3. ReadingKeeps' /\ RewritesKeep'
      BY <2>1, <3>1 DEF ReadingKeeps, RewritesKeep
    <3>4. SettledKept'
      BY <2>3, <3>1 DEF SettledKept
    <3>5. QED BY <3>2, <3>3, <3>4
  <2>4. QED BY <2>1, <2>2, <2>3
<1>2. ASSUME NEW w \in rewriting, Truncate(w)
      PROVE  MInv'
  <2> DEFINE cut == [w EXCEPT !.cut = TRUE]
  <2>1. /\ UNCHANGED <<rx, left, appending, update, settled, torn>> /\ stdin' = stdin
        /\ rewriting' = (rewriting \ {w}) \cup {cut}
    BY <1>2 DEF Truncate, agentVars, task1Vars
  <2>2. cut.cut = TRUE /\ cut.text = w.text
    BY <1>t DEF TypeOK
  <2>3. RewritesKeep' /\ SettledKept'
    <3> HIDE DEF cut
    <3>1. cut \in rewriting' /\ \A v \in rewriting' : v \in rewriting \/ v = cut
      BY <2>1
    <3>2. QED BY <2>1, <2>2, <3>1 DEF RewritesKeep, SettledKept
  <2>4. QED BY <2>1, <2>3 DEF RequestsKeep, LinesKeep, ReadingKeeps
<1>3. ASSUME NEW w \in rewriting, EndRewrite(w)
      PROVE  MInv'
  <2>1. /\ UNCHANGED <<rx, left, appending, update, settled>> /\ stdin' = stdin
        /\ rewriting' = rewriting \ {w}
        /\ \/ w.cut /\ file' = w.text /\ torn' = torn
           \/ torn' = (torn \/ w.cut) /\ file' = file
    BY <1>3 DEF EndRewrite, agentVars, task1Vars
  <2>2. RequestsKeep' /\ LinesKeep' /\ ReadingKeeps' /\ RewritesKeep'
    BY <2>1 DEF RequestsKeep, LinesKeep, ReadingKeeps, RewritesKeep
  <2>3. CASE file' = w.text
    BY <2>1, <2>2, <2>3 DEF RewritesKeep, SettledKept
  <2>4. CASE file' = file /\ w.cut /\ torn'
    BY <2>4
  <2>5. CASE file' = file /\ ~w.cut
    BY <2>1, <2>2, <2>5 DEF SettledKept
  <2>6. QED BY <2>1, <2>3, <2>4, <2>5
<1>4. QED BY <1>1, <1>2, <1>3 DEF FileSystem, Rewrite

(* The agent's answers hold what it was sent.                              *)
LEMMA MemoryAgent ==
  ASSUME IInv, MInv, ~torn, Agent
  PROVE  MInv'
<1> USE DEF MInv
<1>t. TypeOK
  BY DEF IInv
<1>1. CASE AgentStreams
  <2> DEFINE msg == Head(stdin)
             text == IF msg.kind = "memory" THEN msg.text ELSE {}
             line == LineOf("update", msg, text)
  <2>1. msg \in AgentMessage /\ msg = stdin[1] /\ 1 \in 1 .. Len(stdin)
    BY <1>1, <1>t, QueueTypes DEF AgentStreams, TypeOK
  <2>2. msg.kind = "memory" => settled \subseteq msg.text
    BY <2>1 DEF RequestsKeep
  <2>3. text \in SUBSET Req
    BY <2>1 DEF AgentMessage
  <2>4. line \in Line /\ (line.text # {} => line.silent /\ settled \subseteq line.text)
    BY <2>1, <2>2, <2>3, LineOfIsLine DEF LineOf
  <2>5. Write(line) /\ settled' = settled
    BY <1>1 DEF AgentStreams
  <2>6. LinesKeep'
    BY <1>t, <2>4, <2>5, WriteKeeps
  <2>7. QED BY <1>1, <2>6 DEF AgentStreams, task1Vars, RequestsKeep, ReadingKeeps, RewritesKeep,
                              SettledKept
<1>2. CASE AgentAnswers
  <2> DEFINE msg == Head(stdin)
  <2>1. msg \in AgentMessage
    BY <1>2, <1>t, QueueTypes DEF AgentAnswers
  <2>2. PICK k \in {"init", "session", "loaded", "error", "final"} : Write(LineOf(k, msg, {}))
    BY <1>2 DEF AgentAnswers
  <2>3. LineOf(k, msg, {}) \in Line /\ LineOf(k, msg, {}).text = {}
    BY <2>1, LineOfIsLine DEF LineOf
  <2>4. settled' = settled
    BY <1>2 DEF AgentAnswers
  <2>5. LinesKeep'
    BY <1>t, <2>2, <2>3, <2>4, WriteKeeps
  <2>6. RequestsKeep'
    BY <1>2, <1>t, <2>4, TailKeeps DEF AgentAnswers
  <2>7. QED BY <1>2, <2>5, <2>6 DEF AgentAnswers, task1Vars, ReadingKeeps, RewritesKeep, SettledKept
<1>3. CASE AgentDies
  <2>1. RequestsKeep'
    BY <1>3 DEF AgentDies, RequestsKeep
  <2>2. QED BY <1>3, <2>1 DEF AgentDies, task1Vars, LinesKeep, ReadingKeeps, RewritesKeep, SettledKept
<1>4. QED BY <1>1, <1>2, <1>3 DEF Agent

(* Every step keeps the settled entries, in the file and on their way.     *)
LEMMA MemoryStep ==
  ASSUME IInv, MInv, [Next]_vars
  PROVE  MInv'
<1>1. CASE torn
  <2>1. torn'
    BY <1>1 DEF Next, vars, Client, ClientSends, Connect, Disconnect, Leave, ConnectionGone,
                Intercept, InterceptInit, InterceptSession, InterceptTimeout, ReplayLine,
                ReplayComplete, Task1, RefuseLoad, Forward, AppendFile, RefuseAppend, ReadAndArm,
                ReadNothing, SendUpdate, Task2, ForwardLine, DropLine, ForwardInjected, LeftTask2,
                LeftSends, LeftFails, LeftDrops, LeftEnds, FileSystem, Rewrite, Land, Truncate,
                EndRewrite, Agent, AgentStreams, AgentAnswers, AgentDies
  <2>2. QED BY <2>1 DEF MInv
<1>2. CASE ~torn
  <2> USE DEF MInv
  <2>1. CASE Client
    BY <1>2, <2>1 DEF Client, ClientSends, task1Vars, agentVars, RequestsKeep, LinesKeep,
                      ReadingKeeps, RewritesKeep, SettledKept
  <2>2. CASE Connect
    <3>1. left \in LeftBehind /\ rx' = rx /\ stdin' \in {stdin, <<>>}
      BY <2>2 DEF Connect, IInv, TypeOK, agentVars
    <3>2. left'.rx = left.rx
      BY <2>2, <3>1 DEF Connect, LeftBehind
    <3>3. LinesKeep' /\ RequestsKeep'
      BY <1>2, <2>2, <3>1, <3>2 DEF Connect, LinesKeep, RequestsKeep
    <3>4. QED BY <1>2, <2>2, <3>3 DEF Connect, task1Vars, ReadingKeeps, RewritesKeep, SettledKept
  <2>3. CASE Disconnect \/ Leave
    <3>1. rx' = <<>> /\ (left'.rx = left.rx \/ left'.rx = rx) /\ settled' = settled
      BY <2>3 DEF Disconnect, Leave, ConnectionGone
    <3>2. Texts(<<>>, settled)
      BY DEF Texts
    <3>3. LinesKeep'
      BY <1>2, <3>1, <3>2 DEF LinesKeep
    <3>4. QED BY <1>2, <2>3, <3>3 DEF Disconnect, Leave, ConnectionGone, agentVars, RequestsKeep,
                                      ReadingKeeps, RewritesKeep, SettledKept
  <2>4. CASE Intercept
    <3>1. UNCHANGED <<rx, left, appending, update, fileVars>> /\ stdin' = stdin
      BY <2>4 DEF Intercept, InterceptInit, InterceptSession, InterceptTimeout, ReplayLine,
                  ReplayComplete, task1Vars, agentVars
    <3>2. QED BY <1>2, <3>1 DEF RequestsKeep, LinesKeep, ReadingKeeps, RewritesKeep, SettledKept
  <2>5. CASE UNCHANGED vars
    BY <1>2, <2>5 DEF vars, task1Vars, agentVars, RequestsKeep, LinesKeep, ReadingKeeps,
                      RewritesKeep, SettledKept
  <2>6. QED BY <1>2, <2>1, <2>2, <2>3, <2>4, <2>5, MemoryTask1, MemoryTask2, MemoryLeft,
               MemoryFile, MemoryAgent DEF Next
<1>3. QED BY <1>1, <1>2

(* No entry that landed in MEMORY.md while no update was under way is lost *)
(* to an agent's answer, however many connections, updates and rewrites    *)
(* follow: every update that may still rewrite the file was read after it, *)
(* as long as none was read, and no rewrite ended, between the truncation  *)
(* and the write of a rewrite.                                             *)
THEOREM SettledAlwaysKept == Spec => []SettledKept
<1>1. Init => MInv
  BY DEF Init, MInv, NoneLeft, RequestsKeep, LinesKeep, Texts, ReadingKeeps, RewritesKeep, SettledKept
<1>2. IInv /\ MInv /\ [Next]_vars => MInv'
  BY MemoryStep
<1>3. MInv => SettledKept
  BY DEF MInv, SettledKept
<1>4. QED BY <1>1, <1>2, <1>3, SessionInvariant, PTL DEF Spec

-----------------------------------------------------------------------------
(* One answer to a request.  A request is on its way to the bridge, at the *)
(* agent, in a response on its way back, or answered, and never in two of  *)
(* these: AnsweredOnce alone is not inductive.  Those in a set C are       *)
(* excused: the requests copied, and 0, which stands for what is no        *)
(* request's.                                                              *)

(* The request a message carries or a line answers, or 0.                  *)
MessageToken(msg) == IF msg.kind = "memory" THEN 0 ELSE msg.id
LineToken(line) == IF IsResponse(line) THEN line.id ELSE 0

MessageTokens(q) == [i \in 1 .. Len(q) |-> MessageToken(q[i])]
LineTokens(q) == [i \in 1 .. Len(q) |-> LineToken(q[i])]

Places == 1 .. 7
Pending == <<MessageTokens(toBridge), MessageTokens(stdin), LineTokens(rx),
             LineTokens(buffer), LineTokens(replay), LineTokens(inject), LineTokens(left.rx)>>
Excused == copied \cup {0}

Queues(p) == \A k \in Places : p[k] \in Seq(Nat)

(* A position of a token, and the token.                                   *)
At(p, k, i) == k \in Places /\ i \in 1 .. Len(p[k])
Token(p, k, i) == p[k][i]

(* Tokens p at the places, counts a of answers, s requests sent.           *)
Bounded(p, a, s, C) ==
  \A k, i : At(p, k, i) /\ Token(p, k, i) \notin C => Token(p, k, i) <= s /\ a[Token(p, k, i)] = 0
Apart(p, C) ==
  \A k, i, l, j : At(p, k, i) /\ At(p, l, j) /\ Token(p, k, i) \notin C
                  /\ Token(p, k, i) = Token(p, l, j)
                  => k = l /\ i = j
Answers(a, s, C) ==
  /\ \A r \in Req : (r \notin C => a[r] <= 1) /\ (r > s => a[r] = 0)
  /\ \A r \in C : r \in Nat /\ r <= s

Once(p, a, s, C) == Bounded(p, a, s, C) /\ Apart(p, C) /\ Answers(a, s, C)

OnceInv == Once(Pending, answers, sent, Excused)

(* What a step does to the places other than those it names.               *)
Elsewhere(p, p2, ks) == \A k \in Places \ ks : p2[k] = p[k]

(* More requests are excused.                                              *)
LEMMA ExcusingKeeps ==
  ASSUME NEW p, NEW a, NEW s, NEW C, NEW D, Once(p, a, s, C), C \subseteq D, \A r \in D : r \in Nat /\ r <= s
  PROVE  Once(p, a, s, D)
BY DEF Once, Bounded, Apart, Answers

(* The rest of a queue holds the queue's elements, one place on.           *)
LEMMA TailIs ==
  ASSUME NEW q \in Seq(Nat), q # <<>>
  PROVE  /\ Tail(q) \in Seq(Nat) /\ Head(q) = q[1] /\ 1 \in 1 .. Len(q)
         /\ \A i \in 1 .. Len(Tail(q)) : i + 1 \in 1 .. Len(q) /\ Tail(q)[i] = q[i + 1]
                                         /\ i \in Nat /\ i + 1 # 1
OBVIOUS

LEMMA AppendIs ==
  ASSUME NEW q \in Seq(Nat), NEW t \in Nat
  PROVE  /\ Append(q, t) \in Seq(Nat)
         /\ \A i \in 1 .. Len(Append(q, t)) :
              /\ i \in Nat
              /\ \/ i \in 1 .. Len(q) /\ Append(q, t)[i] = q[i]
                 \/ i = Len(q) + 1 /\ i \notin 1 .. Len(q) /\ Append(q, t)[i] = t
OBVIOUS

(* Losing queues, or the first of some, leaves each request in one place.  *)
Lost(q, q2) == q2 = q \/ q2 = <<>> \/ (q # <<>> /\ q2 = Tail(q))

LEMMA LosingKeeps ==
  ASSUME NEW p, NEW p2, NEW a, NEW s, NEW C, Once(p, a, s, C), Queues(p),
         \A k \in Places : Lost(p[k], p2[k])
  PROVE  Once(p2, a, s, C)
<1> DEFINE at(k, i) == IF p2[k] = p[k] THEN i ELSE i + 1
<1>1. ASSUME NEW k, NEW i, At(p2, k, i)
      PROVE  At(p, k, at(k, i)) /\ Token(p2, k, i) = Token(p, k, at(k, i)) /\ i \in Nat
  <2>1. k \in Places /\ p[k] \in Seq(Nat) /\ i \in 1 .. Len(p2[k])
    BY <1>1 DEF At, Queues
  <2>2. CASE p2[k] = p[k]
    BY <2>1, <2>2 DEF At, Token
  <2>3. CASE p2[k] # p[k] /\ p2[k] = <<>>
    <3>1. 1 .. Len(<<>>) = {}
      OBVIOUS
    <3>2. QED BY <2>1, <2>3, <3>1
  <2>4. CASE p2[k] # p[k] /\ p[k] # <<>> /\ p2[k] = Tail(p[k])
    <3>1. i + 1 \in 1 .. Len(p[k]) /\ Tail(p[k])[i] = p[k][i + 1] /\ i \in Nat
      BY <2>1, <2>4, TailIs
    <3>2. QED BY <2>1, <2>4, <3>1 DEF At, Token
  <2>5. QED BY <2>1, <2>2, <2>3, <2>4 DEF Lost
<1>2. \A k : \A i, j \in Nat : at(k, i) = at(k, j) => i = j
  OBVIOUS
<1> HIDE DEF at
<1>3. Bounded(p2, a, s, C)
  BY <1>1 DEF Bounded, Once
<1>4. Apart(p2, C)
  BY <1>1, <1>2 DEF Apart, Once
<1>5. QED BY <1>3, <1>4 DEF Once

(* A queue moves as a whole to another place.                              *)
LEMMA WholeKeeps ==
  ASSUME NEW p, NEW p2, NEW a, NEW s, NEW C, Once(p, a, s, C),
         NEW f \in Places, NEW t \in Places, f # t,
         Elsewhere(p, p2, {f, t}), p2[t] = p[f], p2[f] = <<>>
  PROVE  Once(p2, a, s, C)
<1> DEFINE from(k) == IF k = t THEN f ELSE k
<1>1. Len(<<>>) = 0 /\ 1 .. 0 = {}
  OBVIOUS
<1>2. ASSUME NEW k, NEW i, At(p2, k, i)
      PROVE  At(p, from(k), i) /\ Token(p2, k, i) = Token(p, from(k), i) /\ k # f
  <2>1. k # f
    BY <1>1, <1>2 DEF At
  <2>2. CASE k = t
    BY <1>2, <2>2 DEF At, Token
  <2>3. CASE k # t
    BY <1>2, <2>1, <2>3 DEF At, Token, Elsewhere
  <2>4. QED BY <2>1, <2>2, <2>3
<1>3. \A k, l : k # f /\ l # f /\ from(k) = from(l) => k = l
  OBVIOUS
<1> HIDE DEF from
<1>4. Bounded(p2, a, s, C)
  BY <1>2 DEF Bounded, Once
<1>5. Apart(p2, C)
  BY <1>2, <1>3 DEF Apart, Once
<1>6. QED BY <1>4, <1>5 DEF Once

(* Where the elements of a queue come from whose first was taken.          *)
Next1(l, k, i) == IF l = k THEN i + 1 ELSE i

LEMMA TakenIs ==
  ASSUME NEW p, NEW p2, NEW k \in Places, p[k] \in Seq(Nat), p[k] # <<>>,
         p2[k] = Tail(p[k]), NEW l \in Places, l = k \/ p2[l] = p[l], NEW i, At(p2, l, i)
  PROVE  /\ At(p, l, Next1(l, k, i)) /\ Token(p2, l, i) = Token(p, l, Next1(l, k, i))
         /\ i \in Int /\ ~(l = k /\ Next1(l, k, i) = 1)
<1>1. CASE l = k
  <2>1. i \in 1 .. Len(Tail(p[k]))
    BY <1>1 DEF At
  <2>2. i + 1 \in 1 .. Len(p[k]) /\ Tail(p[k])[i] = p[k][i + 1] /\ i \in Nat /\ i + 1 # 1
    BY <2>1, TailIs
  <2>3. Next1(l, k, i) = i + 1
    BY <1>1 DEF Next1
  <2>4. At(p, k, i + 1) /\ Token(p2, k, i) = Token(p, k, i + 1)
    BY <2>2 DEF At, Token
  <2>5. i \in Int /\ ~(i + 1 = 1)
    BY <2>2
  <2>6. QED BY <1>1, <2>3, <2>4, <2>5
<1>2. CASE l # k
  BY <1>2 DEF At, Token, Next1
<1>3. QED BY <1>1, <1>2

(* Taking the first of a queue, and answering it or not.                   *)
LEMMA TakingKeeps ==
  ASSUME NEW p, NEW p2, NEW a \in [Req -> Nat], NEW a2, NEW s \in 0 .. MaxReq, NEW C, 0 \in C,
         Once(p, a, s, C), NEW k \in Places, Queues(p), p[k] # <<>>,
         Elsewhere(p, p2, {k}), p2[k] = Tail(p[k]),
         \/ a2 = a
         \/ p[k][1] # 0 /\ p[k][1] \in Req /\ a2 = [a EXCEPT ![p[k][1]] = @ + 1]
  PROVE  Once(p2, a2, s, C)
<1> DEFINE h == Token(p, k, 1)
<1>0. k \in Places /\ p[k] \in Seq(Nat) /\ p[k] # <<>> /\ p2[k] = Tail(p[k])
  BY DEF Queues
<1>1. ASSUME NEW l, NEW i, At(p2, l, i)
      PROVE  /\ At(p, l, Next1(l, k, i)) /\ Token(p2, l, i) = Token(p, l, Next1(l, k, i))
             /\ i \in Int /\ ~(l = k /\ Next1(l, k, i) = 1)
  <2>1. l \in Places /\ (l = k \/ p2[l] = p[l])
    BY <1>1 DEF At, Elsewhere
  <2>2. QED BY ONLY <1>0, <1>1, <2>1, TakenIs
<1>2. At(p, k, 1) /\ (a2 = a \/ (h # 0 /\ h \in Req /\ a2 = [a EXCEPT ![h] = @ + 1]))
  BY <1>0, TailIs DEF At, Token
<1>a. Bounded(p, a, s, C) /\ Apart(p, C) /\ Answers(a, s, C)
  BY DEF Once
<1> HIDE DEF h
<1>3. Bounded(p2, a2, s, C)
  <2> SUFFICES ASSUME NEW l, NEW i, At(p2, l, i), Token(p2, l, i) \notin C
               PROVE  Token(p2, l, i) <= s /\ a2[Token(p2, l, i)] = 0
    BY DEF Bounded
  <2>1. Token(p2, l, i) <= s /\ a[Token(p2, l, i)] = 0
    BY <1>1, <1>a DEF Bounded
  <2>2. Token(p2, l, i) # h
    <3>1. At(p, l, Next1(l, k, i)) /\ Token(p2, l, i) = Token(p, l, Next1(l, k, i))
          /\ ~(l = k /\ Next1(l, k, i) = 1)
      BY <1>1
    <3>2. Token(p, l, Next1(l, k, i)) = Token(p, k, 1) => l = k /\ Next1(l, k, i) = 1
      BY <1>2, <1>a, <3>1 DEF Apart
    <3>3. QED BY <3>1, <3>2 DEF h
  <2>3. Token(p2, l, i) \in Req
    <3>1. At(p, l, Next1(l, k, i)) /\ Token(p2, l, i) = Token(p, l, Next1(l, k, i))
      BY <1>1
    <3>2. Token(p2, l, i) \in Nat
      BY <3>1 DEF At, Token, Queues
    <3>3. Token(p2, l, i) # 0
      OBVIOUS
    <3>4. QED BY <2>1, <3>2, <3>3, SessionAssumption DEF Req
  <2>4. QED BY <1>2, <2>1, <2>2, <2>3
<1>4. Apart(p2, C)
  <2> SUFFICES ASSUME NEW l, NEW i, NEW m, NEW j, At(p2, l, i), At(p2, m, j),
                      Token(p2, l, i) \notin C, Token(p2, l, i) = Token(p2, m, j)
               PROVE  l = m /\ i = j
    BY DEF Apart
  <2>1. l = m /\ Next1(l, k, i) = Next1(m, k, j) /\ i \in Int /\ j \in Int
    BY <1>1, <1>a DEF Apart
  <2>2. QED BY <2>1 DEF Next1
<1>5. Answers(a2, s, C)
  <2> SUFFICES ASSUME NEW r \in Req PROVE (r \notin C => a2[r] <= 1) /\ (r > s => a2[r] = 0)
    BY <1>a DEF Answers
  <2>1. (r \notin C => a[r] <= 1) /\ (r > s => a[r] = 0) /\ a[r] \in Nat
    BY <1>a DEF Answers
  <2>2. CASE a2 = a
    BY <2>1, <2>2
  <2>3. CASE h # 0 /\ h \in Req /\ a2 = [a EXCEPT ![h] = @ + 1]
    <3>1. h \notin C => h <= s /\ a[h] = 0
      BY <1>2, <1>a DEF Bounded, h
    <3>2. h \in C => h <= s
      BY <1>a DEF Answers
    <3>3. CASE r = h
      <4>1. (r \notin C => a2[r] = 1) /\ r <= s /\ r \in Nat /\ s \in Nat
        BY <2>3, <3>1, <3>2, <3>3, SessionAssumption DEF Req
      <4>2. QED BY <4>1
    <3>4. CASE r # h
      BY <2>1, <2>3, <3>4
    <3>5. QED BY <3>3, <3>4
  <2>4. QED BY <1>2, <2>2, <2>3
<1>6. QED BY <1>3, <1>4, <1>5 DEF Once

(* Moving the first of a queue to the end of another, or turning it into   *)
(* something that is no request's, or a copied one's.                      *)
LEMMA MovingKeeps ==
  ASSUME NEW p, NEW p2, NEW a, NEW s, NEW C, Once(p, a, s, C), NEW k \in Places, NEW l \in Places, k # l,
         p[k] \in Seq(Nat), p[l] \in Seq(Nat), p[k] # <<>>, NEW t \in Nat, t \in C \/ t = p[k][1],
         Elsewhere(p, p2, {k, l}), p2[k] = Tail(p[k]), p2[l] = Append(p[l], t)
  PROVE  Once(p2, a, s, C)
<1> DEFINE new(m, i) == m = l /\ i = Len(p[l]) + 1
           from(m, i) == IF new(m, i) THEN k ELSE m
           at(m, i) == IF new(m, i) THEN 1 ELSE Next1(m, k, i)
<1>1. ASSUME NEW m, NEW i, At(p2, m, i), ~new(m, i)
      PROVE  /\ At(p, m, Next1(m, k, i)) /\ Token(p2, m, i) = Token(p, m, Next1(m, k, i))
             /\ i \in Int /\ ~(m = k /\ Next1(m, k, i) = 1)
  <2>1. CASE m = l
    <3>1. i \in 1 .. Len(Append(p[l], t))
      BY <1>1, <2>1 DEF At
    <3>2. i \in 1 .. Len(p[l]) /\ p2[l][i] = p[l][i] /\ i \in Nat
      BY <1>1, <2>1, <3>1, AppendIs
    <3>3. Next1(m, k, i) = i
      BY <2>1 DEF Next1
    <3>4. At(p, l, i) /\ Token(p2, l, i) = Token(p, l, i)
      BY <3>2 DEF At, Token
    <3>5. QED BY <2>1, <3>2, <3>3, <3>4
  <2>2. CASE m # l
    <3>1. m \in Places /\ (m = k \/ p2[m] = p[m])
      BY <1>1, <2>2 DEF At, Elsewhere
    <3>2. QED BY <1>1, <3>1, TakenIs
  <2>3. QED BY <2>1, <2>2
<1>2. ASSUME NEW m, NEW i, At(p2, m, i), new(m, i), Token(p2, m, i) \notin C
      PROVE  At(p, k, 1) /\ Token(p2, m, i) = Token(p, k, 1)
  <2>1. Token(p2, m, i) = t
    <3>1. i \in 1 .. Len(Append(p[l], t)) /\ i \notin 1 .. Len(p[l])
      BY <1>2, AppendIs DEF At
    <3>2. QED BY <1>2, <3>1, AppendIs DEF Token
  <2>2. QED BY <1>2, <2>1, TailIs DEF At, Token
<1>3. ASSUME NEW m, NEW i, At(p2, m, i), Token(p2, m, i) \notin C
      PROVE  At(p, from(m, i), at(m, i)) /\ Token(p2, m, i) = Token(p, from(m, i), at(m, i))
  <2>1. CASE new(m, i)
    BY <1>2, <1>3, <2>1
  <2>2. CASE ~new(m, i)
    BY <1>1, <1>3, <2>2
  <2>3. QED BY <2>1, <2>2
<1>4. ASSUME NEW m, NEW i, NEW o, NEW j, At(p2, m, i), At(p2, o, j),
             from(m, i) = from(o, j), at(m, i) = at(o, j)
      PROVE  m = o /\ i = j
  <2>1. CASE new(m, i) /\ new(o, j)
    BY <2>1
  <2>2. CASE ~new(m, i) /\ ~new(o, j)
    <3>1. m = o /\ Next1(m, k, i) = Next1(o, k, j) /\ i \in Int /\ j \in Int
      BY <1>1, <1>4, <2>2
    <3>2. QED BY <3>1 DEF Next1
  <2>3. CASE new(m, i) /\ ~new(o, j)
    BY <1>1, <1>4, <2>3
  <2>4. CASE ~new(m, i) /\ new(o, j)
    BY <1>1, <1>4, <2>4
  <2>5. QED BY <2>1, <2>2, <2>3, <2>4
<1> HIDE DEF new, from, at
<1>5. Bounded(p2, a, s, C)
  BY <1>3 DEF Bounded, Once
<1>6. Apart(p2, C)
  <2> SUFFICES ASSUME NEW m, NEW i, NEW o, NEW j, At(p2, m, i), At(p2, o, j),
                      Token(p2, m, i) \notin C, Token(p2, m, i) = Token(p2, o, j)
               PROVE  m = o /\ i = j
    BY DEF Apart
  <2>1. from(m, i) = from(o, j) /\ at(m, i) = at(o, j)
    BY <1>3 DEF Apart, Once
  <2>2. QED BY <1>4, <2>1
<1>7. QED BY <1>5, <1>6 DEF Once

(* What joins the end of a queue.                                          *)
LEMMA AddedIs ==
  ASSUME NEW p, NEW p2, NEW k \in Places, p[k] \in Seq(Nat), NEW t \in Nat,
         Elsewhere(p, p2, {k}), p2[k] = Append(p[k], t), NEW m, NEW i, At(p2, m, i)
  PROVE  \/ At(p, m, i) /\ Token(p2, m, i) = Token(p, m, i)
         \/ m = k /\ i = Len(p[k]) + 1 /\ Token(p2, m, i) = t
<1>1. CASE m = k
  <2>1. i \in 1 .. Len(Append(p[k], t))
    BY <1>1 DEF At
  <2>2. QED BY <1>1, <2>1, AppendIs DEF At, Token
<1>2. CASE m # k
  BY <1>2 DEF At, Token, Elsewhere
<1>3. QED BY <1>1, <1>2

(* Something that is no request's, or a copied one's, joins a queue.        *)
LEMMA OutputKeeps ==
  ASSUME NEW p, NEW p2, NEW a, NEW s, NEW C, Once(p, a, s, C), NEW k \in Places, p[k] \in Seq(Nat),
         NEW u \in Nat, u \in C, Elsewhere(p, p2, {k}), p2[k] = Append(p[k], u)
  PROVE  Once(p2, a, s, C)
<1>1. ASSUME NEW m, NEW i, At(p2, m, i), Token(p2, m, i) \notin C
      PROVE  At(p, m, i) /\ Token(p2, m, i) = Token(p, m, i)
  <2>1. CASE m = k
    <3>1. i \in 1 .. Len(Append(p[k], u)) /\ Append(p[k], u)[i] # u
      BY <1>1, <2>1 DEF At, Token
    <3>2. i \in 1 .. Len(p[k]) /\ Append(p[k], u)[i] = p[k][i]
      BY <3>1, AppendIs
    <3>3. QED BY <2>1, <3>2 DEF At, Token
  <2>2. CASE m # k
    BY <1>1, <2>2 DEF At, Token, Elsewhere
  <2>3. QED BY <2>1, <2>2
<1>2. Bounded(p2, a, s, C)
  BY <1>1 DEF Bounded, Once
<1>3. Apart(p2, C)
  BY <1>1 DEF Apart, Once
<1>4. QED BY <1>2, <1>3 DEF Once

(* A new request joins a queue.                                            *)
LEMMA AskingKeeps ==
  ASSUME NEW p, NEW p2, NEW a, NEW s \in Nat, NEW C, Once(p, a, s, C), s + 1 \in Req,
         NEW k \in Places, Queues(p), Elsewhere(p, p2, {k}), p2[k] = Append(p[k], s + 1)
  PROVE  Once(p2, a, s + 1, C)
<1>a. Bounded(p, a, s, C) /\ Apart(p, C) /\ Answers(a, s, C)
  BY DEF Once
<1>1. ASSUME NEW m, NEW i, At(p2, m, i)
      PROVE  \/ At(p, m, i) /\ Token(p2, m, i) = Token(p, m, i)
             \/ m = k /\ i = Len(p[k]) + 1 /\ Token(p2, m, i) = s + 1
  <2>1. p[k] \in Seq(Nat) /\ s + 1 \in Nat
    BY DEF Queues
  <2>2. QED BY <1>1, <2>1, AddedIs
<1>2. ASSUME NEW m, NEW i, At(p, m, i) PROVE Token(p, m, i) \in Nat /\ Token(p, m, i) # s + 1
  <2>1. Token(p, m, i) \in Nat
    BY <1>2 DEF At, Token, Queues
  <2>2. Token(p, m, i) \notin C => Token(p, m, i) <= s
    BY <1>2, <1>a DEF Bounded
  <2>3. Token(p, m, i) \in C => Token(p, m, i) <= s
    BY ONLY <1>a DEF Answers
  <2>4. QED BY <2>1, <2>2, <2>3
<1>3. Bounded(p2, a, s + 1, C)
  <2> SUFFICES ASSUME NEW m, NEW i, At(p2, m, i), Token(p2, m, i) \notin C
               PROVE  Token(p2, m, i) <= s + 1 /\ a[Token(p2, m, i)] = 0
    BY DEF Bounded
  <2>1. CASE At(p, m, i) /\ Token(p2, m, i) = Token(p, m, i)
    <3>1. Token(p2, m, i) \in Nat /\ Token(p2, m, i) <= s /\ a[Token(p2, m, i)] = 0
      BY <1>2, <1>a, <2>1 DEF Bounded
    <3>2. QED BY <3>1
  <2>2. CASE Token(p2, m, i) = s + 1
    BY <1>a, <2>2 DEF Answers
  <2>3. QED BY <1>1, <2>1, <2>2
<1>4. Apart(p2, C)
  <2> SUFFICES ASSUME NEW m, NEW i, NEW o, NEW j, At(p2, m, i), At(p2, o, j),
                      Token(p2, m, i) \notin C, Token(p2, m, i) = Token(p2, o, j)
               PROVE  m = o /\ i = j
    BY DEF Apart
  <2>1. CASE Token(p2, m, i) = s + 1
    <3>1. m = k /\ i = Len(p[k]) + 1
      BY <1>1, <1>2, <2>1
    <3>2. o = k /\ j = Len(p[k]) + 1
      BY <1>1, <1>2, <2>1
    <3>3. QED BY <3>1, <3>2
  <2>2. CASE Token(p2, m, i) # s + 1
    <3>1. /\ At(p, m, i) /\ Token(p2, m, i) = Token(p, m, i)
          /\ At(p, o, j) /\ Token(p2, o, j) = Token(p, o, j)
      BY <1>1, <2>2
    <3>2. QED BY <1>a, <3>1 DEF Apart
  <2>3. QED BY <2>1, <2>2
<1>5. Answers(a, s + 1, C)
  <2>1. ASSUME NEW r \in Req PROVE (r \notin C => a[r] <= 1) /\ (r > s + 1 => a[r] = 0)
    BY <1>a DEF Answers, Req
  <2>2. ASSUME NEW r \in C PROVE r \in Nat /\ r <= s + 1
    <3>1. r \in Nat /\ r <= s /\ s \in Nat
      BY <1>a DEF Answers
    <3>2. QED BY <3>1
  <2>3. QED BY <2>1, <2>2 DEF Answers
<1>6. QED BY <1>3, <1>4, <1>5 DEF Once

-----------------------------------------------------------------------------
(* The tokens of the queues.                                               *)

LEMMA MessageTokensAre ==
  ASSUME NEW S, NEW q \in Seq(S)
  PROVE  /\ MessageTokens(<<>>) = <<>>
         /\ q # <<>> => /\ MessageTokens(q) # <<>>
                        /\ MessageTokens(Tail(q)) = Tail(MessageTokens(q))
                        /\ MessageTokens(q)[1] = MessageToken(Head(q))
         /\ \A m \in S : MessageTokens(Append(q, m)) = Append(MessageTokens(q), MessageToken(m))
<1>1. MessageTokens(<<>>) = <<>>
  BY DEF MessageTokens
<1>2. ASSUME q # <<>>
      PROVE  /\ MessageTokens(q) # <<>>
             /\ MessageTokens(Tail(q)) = Tail(MessageTokens(q))
             /\ MessageTokens(q)[1] = MessageToken(Head(q))
  BY <1>2 DEF MessageTokens
<1>3. ASSUME NEW m \in S
      PROVE  MessageTokens(Append(q, m)) = Append(MessageTokens(q), MessageToken(m))
  BY DEF MessageTokens
<1>4. QED BY <1>1, <1>2, <1>3

LEMMA LineTokensAre ==
  ASSUME NEW S, NEW q \in Seq(S)
  PROVE  /\ LineTokens(<<>>) = <<>>
         /\ q # <<>> => /\ LineTokens(q) # <<>>
                        /\ LineTokens(Tail(q)) = Tail(LineTokens(q))
                        /\ LineTokens(q)[1] = LineToken(Head(q))
         /\ \A m \in S : LineTokens(Append(q, m)) = Append(LineTokens(q), LineToken(m))
<1>1. LineTokens(<<>>) = <<>>
  BY DEF LineTokens
<1>2. ASSUME q # <<>>
      PROVE  /\ LineTokens(q) # <<>>
             /\ LineTokens(Tail(q)) = Tail(LineTokens(q))
             /\ LineTokens(q)[1] = LineToken(Head(q))
  BY <1>2 DEF LineTokens
<1>3. ASSUME NEW m \in S
      PROVE  LineTokens(Append(q, m)) = Append(LineTokens(q), LineToken(m))
  BY DEF LineTokens
<1>4. QED BY <1>1, <1>2, <1>3

(* The tokens of typed messages and lines are numbers.                     *)
LEMMA TokensTyped ==
  /\ \A m \in ClientMessage : m.kind # "memory" /\ MessageToken(m) = m.id /\ m.id \in Nat /\ m.id \in Req
  /\ \A m \in AgentMessage : MessageToken(m) \in Nat /\ (m.kind # "memory" => MessageToken(m) = m.id)
  /\ \A l \in Line : /\ LineToken(l) \in Nat /\ l.id \in Req /\ l.id \in Nat
                     /\ LineToken(l) # 0 => LineToken(l) \in Req
<1> USE SessionAssumption
<1>1. \A m \in ClientMessage : m.kind # "memory" /\ MessageToken(m) = m.id /\ m.id \in Nat /\ m.id \in Req
  BY DEF ClientMessage, MessageToken, Req
<1>2. \A m \in AgentMessage : MessageToken(m) \in Nat /\ (m.kind # "memory" => MessageToken(m) = m.id)
  BY DEF AgentMessage, MessageToken, Req
<1>3. \A l \in Line : /\ LineToken(l) \in Nat /\ l.id \in Req /\ l.id \in Nat
                      /\ LineToken(l) # 0 => LineToken(l) \in Req
  BY DEF Line, LineToken, Req
<1>4. QED BY <1>1, <1>2, <1>3

LEMMA PlacesAre == Places = {1, 2, 3, 4, 5, 6, 7}
BY DEF Places

LEMMA PendingTyped ==
  ASSUME TypeOK
  PROVE  Queues(Pending)
<1>1. /\ toBridge \in Seq(ClientMessage) /\ stdin \in Seq(AgentMessage)
      /\ rx \in Seq(Line) /\ buffer \in Seq(Line) /\ replay \in Seq(Line) /\ inject \in Seq(Line)
      /\ left.rx \in Seq(Line)
  BY LeftTypes DEF TypeOK
<1>2. MessageTokens(toBridge) \in Seq(Nat)
  <2>1. \A i \in 1 .. Len(toBridge) : toBridge[i] \in ClientMessage
    BY <1>1
  <2>2. \A i \in 1 .. Len(toBridge) : MessageToken(toBridge[i]) \in Nat
    BY <2>1, TokensTyped
  <2>3. QED BY <1>1, <2>2 DEF MessageTokens
<1>3. MessageTokens(stdin) \in Seq(Nat)
  BY <1>1, TokensTyped DEF MessageTokens
<1>4. \A q \in Seq(Line) : LineTokens(q) \in Seq(Nat)
  BY TokensTyped DEF LineTokens
<1>5. /\ Pending[1] \in Seq(Nat) /\ Pending[2] \in Seq(Nat) /\ Pending[3] \in Seq(Nat)
      /\ Pending[4] \in Seq(Nat) /\ Pending[5] \in Seq(Nat) /\ Pending[6] \in Seq(Nat)
      /\ Pending[7] \in Seq(Nat)
  BY <1>1, <1>2, <1>3, <1>4 DEF Pending
<1>6. QED BY <1>5, PlacesAre DEF Queues

(* What a step changes of the tokens, by what it changes of the queues.    *)
LEMMA PendingIs ==
  /\ Pending[1] = MessageTokens(toBridge) /\ Pending[2] = MessageTokens(stdin)
  /\ Pending[3] = LineTokens(rx) /\ Pending[4] = LineTokens(buffer)
  /\ Pending[5] = LineTokens(replay) /\ Pending[6] = LineTokens(inject)
  /\ Pending[7] = LineTokens(left.rx) /\ Pending'[7] = LineTokens(left'.rx)
  /\ Pending'[1] = MessageTokens(toBridge') /\ Pending'[2] = MessageTokens(stdin')
  /\ Pending'[3] = LineTokens(rx') /\ Pending'[4] = LineTokens(buffer')
  /\ Pending'[5] = LineTokens(replay') /\ Pending'[6] = LineTokens(inject')
BY DEF Pending, MessageTokens, LineTokens

LEMMA PendingElse ==
  /\ UNCHANGED <<stdin, rx, buffer, replay, inject, left>> => Elsewhere(Pending, Pending', {1})
  /\ UNCHANGED <<toBridge, stdin, buffer, replay, inject, left>> => Elsewhere(Pending, Pending', {3})
  /\ UNCHANGED <<toBridge, stdin, rx, buffer, inject, left>> => Elsewhere(Pending, Pending', {5})
  /\ UNCHANGED <<toBridge, stdin, rx, buffer, replay, left>> => Elsewhere(Pending, Pending', {6})
  /\ UNCHANGED <<toBridge, stdin, rx, buffer, replay, inject>> => Elsewhere(Pending, Pending', {7})
  /\ UNCHANGED <<rx, buffer, replay, inject, left>> => Elsewhere(Pending, Pending', {1, 2})
  /\ UNCHANGED <<stdin, rx, buffer, replay, left>> => Elsewhere(Pending, Pending', {1, 6})
BY DEF Elsewhere, Places, Pending

(* A step that leaves the queues, the answers and the count alone.         *)
LEMMA OnceSame ==
  ASSUME OnceInv, left' = left, copied' = copied,
         UNCHANGED <<toBridge, stdin, rx, buffer, replay, inject, answers, sent>>
  PROVE  OnceInv'
BY DEF OnceInv, Pending, Excused

(* What the tokens, the answers and the excuses come to.                   *)
LEMMA OnceParts ==
  ASSUME TypeOK, OnceInv
  PROVE  /\ Once(Pending, answers, sent, Excused) /\ Queues(Pending) /\ 0 \in Excused
         /\ answers \in [Req -> Nat] /\ sent \in 0 .. MaxReq
         /\ copied' = copied => Excused' = Excused
BY PendingTyped DEF OnceInv, Excused, TypeOK

LEMMA OnceThen ==
  ASSUME Once(Pending', answers', sent', Excused')
  PROVE  OnceInv'
BY DEF OnceInv

(* What Deliver answers is the token of the line.                          *)
LEMMA DeliverAnswers ==
  ASSUME NEW line, line.id # 0, Deliver(line)
  PROVE  /\ sent' = sent
         /\ \/ answers' = answers
            \/ LineToken(line) # 0 /\ LineToken(line) = line.id
               /\ answers' = [answers EXCEPT ![LineToken(line)] = @ + 1]
BY DEF Deliver, LineToken

(* A line read from a queue of lines, answered or not.                     *)
LEMMA ReadLine ==
  ASSUME TypeOK, OnceInv, NEW k \in {3, 5, 6, 7},
         NEW q \in Seq(Line), NEW q2, q # <<>>, q2 = Tail(q),
         Pending[k] = LineTokens(q), Pending'[k] = LineTokens(q2), Elsewhere(Pending, Pending', {k}),
         sent' = sent, copied' = copied, answers' = answers \/ Deliver(Head(q))
  PROVE  OnceInv'
<1>1. /\ Pending[k] # <<>> /\ Pending'[k] = Tail(Pending[k])
      /\ Pending[k][1] = LineToken(Head(q))
  BY LineTokensAre
<1>2. Head(q) \in Line
  OBVIOUS
<1>3. Head(q).id # 0 /\ (LineToken(Head(q)) # 0 => LineToken(Head(q)) \in Req)
  BY <1>2, TokensTyped, SessionAssumption DEF Req
<1>4. \/ answers' = answers
      \/ Pending[k][1] # 0 /\ Pending[k][1] \in Req
         /\ answers' = [answers EXCEPT ![Pending[k][1]] = @ + 1]
  BY <1>1, <1>3, DeliverAnswers
<1>5. k \in Places
  BY DEF Places
<1>6. /\ Once(Pending, answers, sent, Excused) /\ Queues(Pending) /\ 0 \in Excused
      /\ answers \in [Req -> Nat] /\ sent \in 0 .. MaxReq
  BY OnceParts
<1>7. Once(Pending', answers', sent, Excused)
  BY ONLY <1>1, <1>4, <1>5, <1>6, TakingKeeps, Elsewhere(Pending, Pending', {k})
<1>8. QED BY <1>7, OnceParts, OnceThen

(* Task 1 or an intercept takes the client's message.                      *)
LEMMA ReadMessage ==
  ASSUME TypeOK, OnceInv, toBridge # <<>>, toBridge' = Tail(toBridge),
         UNCHANGED <<stdin, rx, buffer, replay, inject, left, copied>>, sent' = sent,
         \/ answers' = answers
         \/ \E kind \in {"init", "session"} : Deliver(Synthetic(kind, Head(toBridge).id))
  PROVE  OnceInv'
<1>1. /\ Pending[1] # <<>> /\ Pending'[1] = Tail(Pending[1])
      /\ Pending[1][1] = MessageToken(Head(toBridge))
  BY MessageTokensAre, PendingIs DEF TypeOK
<1>2. Head(toBridge) \in ClientMessage
  BY DEF TypeOK
<1>3. MessageToken(Head(toBridge)) = Head(toBridge).id /\ Head(toBridge).id \in Req /\ Head(toBridge).id # 0
  BY <1>2, TokensTyped, SessionAssumption DEF Req
<1>4. \/ answers' = answers
      \/ Pending[1][1] # 0 /\ Pending[1][1] \in Req
         /\ answers' = [answers EXCEPT ![Pending[1][1]] = @ + 1]
  <2>1. CASE answers' = answers
    BY <2>1
  <2>2. ASSUME NEW kind \in {"init", "session"}, Deliver(Synthetic(kind, Head(toBridge).id))
        PROVE  answers' = [answers EXCEPT ![Head(toBridge).id] = @ + 1]
    BY <2>2 DEF Deliver, Synthetic, IsResponse
  <2>3. QED BY <1>1, <1>3, <2>1, <2>2
<1>5. 1 \in Places /\ Elsewhere(Pending, Pending', {1})
  BY PendingElse DEF Places
<1>6. /\ Once(Pending, answers, sent, Excused) /\ Queues(Pending) /\ 0 \in Excused
      /\ answers \in [Req -> Nat] /\ sent \in 0 .. MaxReq
  BY OnceParts
<1>7. Once(Pending', answers', sent, Excused)
  BY ONLY <1>1, <1>4, <1>5, <1>6, TakingKeeps
<1>8. QED BY <1>7, OnceParts, OnceThen

(* Task 1 takes the client's message and puts something in another queue.  *)
LEMMA PassMessage ==
  ASSUME TypeOK, OnceInv, toBridge # <<>>, toBridge' = Tail(toBridge),
         NEW l \in Places \ {1}, NEW t \in Nat, t = 0 \/ t = Head(toBridge).id,
         Pending'[l] = Append(Pending[l], t), Elsewhere(Pending, Pending', {1, l}),
         UNCHANGED <<sent, answers, copied>>
  PROVE  OnceInv'
<1>1. /\ Pending[1] # <<>> /\ Pending'[1] = Tail(Pending[1])
      /\ Pending[1][1] = MessageToken(Head(toBridge))
  BY MessageTokensAre, PendingIs DEF TypeOK
<1>2. Head(toBridge) \in ClientMessage
  BY DEF TypeOK
<1>3. t \in Excused \/ t = Pending[1][1]
  BY <1>1, <1>2, TokensTyped DEF Excused
<1>4. 1 \in Places /\ l \in Places /\ 1 # l /\ Pending[1] \in Seq(Nat) /\ Pending[l] \in Seq(Nat)
  <2>1. 1 \in Places /\ l \in Places /\ 1 # l
    BY DEF Places
  <2>2. Queues(Pending)
    BY PendingTyped
  <2>3. QED BY <2>1, <2>2 DEF Queues
<1>5. Once(Pending, answers, sent, Excused)
  BY OnceParts
<1>6. Pending'[l] = Append(Pending[l], t) /\ Elsewhere(Pending, Pending', {1, l}) /\ t \in Nat
  OBVIOUS
<1>7. Once(Pending', answers, sent, Excused)
  BY ONLY <1>1, <1>3, <1>4, <1>5, <1>6, MovingKeeps
<1>8. QED BY <1>7, OnceParts, OnceThen

(* The client asks.                                                        *)
LEMMA OnceClient ==
  ASSUME TypeOK, OnceInv, NEW kind \in {"init", "new", "load", "prompt", "append"}, ClientSends(kind)
  PROVE  OnceInv'
<1> DEFINE msg == [kind |-> kind, id |-> sent + 1]
<1>1. /\ sent \in Nat /\ sent + 1 \in Req /\ msg \in ClientMessage /\ toBridge \in Seq(ClientMessage)
      /\ toBridge' = Append(toBridge, msg) /\ sent' = sent + 1
  BY SessionAssumption DEF TypeOK, ClientSends, Req, ClientMessage
<1>2. MessageToken(msg) = sent + 1
  BY DEF MessageToken
<1>3. Pending'[1] = Append(Pending[1], sent + 1)
  <2> HIDE DEF msg
  <2>1. QED BY <1>1, <1>2, MessageTokensAre, PendingIs
<1>4. UNCHANGED <<stdin, rx, buffer, replay, inject, answers, left, copied>>
  BY DEF ClientSends, agentVars
<1>5. /\ 1 \in Places /\ Queues(Pending) /\ Elsewhere(Pending, Pending', {1})
      /\ Once(Pending, answers, sent, Excused)
  BY <1>4, OnceParts, PendingElse DEF Places
<1>6. Once(Pending', answers, sent + 1, Excused)
  BY ONLY <1>1, <1>3, <1>5, AskingKeeps
<1>7. QED BY <1>1, <1>4, <1>6, OnceParts, OnceThen

(* Queues are lost, in whole or in part.                                   *)
LEMMA LostTokens ==
  /\ \A S : \A q \in Seq(S) : \A q2 : Lost(q, q2) => Lost(MessageTokens(q), MessageTokens(q2))
  /\ \A S : \A q \in Seq(S) : \A q2 : Lost(q, q2) => Lost(LineTokens(q), LineTokens(q2))
<1>1. ASSUME NEW S, NEW q \in Seq(S), NEW q2, Lost(q, q2)
      PROVE  Lost(MessageTokens(q), MessageTokens(q2))
  BY <1>1, MessageTokensAre DEF Lost
<1>2. ASSUME NEW S, NEW q \in Seq(S), NEW q2, Lost(q, q2)
      PROVE  Lost(LineTokens(q), LineTokens(q2))
  BY <1>2, LineTokensAre DEF Lost
<1>3. QED BY <1>1, <1>2

LEMMA OnceLoses ==
  ASSUME TypeOK, OnceInv, UNCHANGED <<sent, answers, copied>>,
         Lost(toBridge, toBridge'), Lost(stdin, stdin'), Lost(rx, rx'), Lost(buffer, buffer'),
         Lost(replay, replay'), Lost(inject, inject'), Lost(left.rx, left'.rx)
  PROVE  OnceInv'
<1>1. /\ toBridge \in Seq(ClientMessage) /\ stdin \in Seq(AgentMessage)
      /\ rx \in Seq(Line) /\ buffer \in Seq(Line) /\ replay \in Seq(Line) /\ inject \in Seq(Line)
      /\ left.rx \in Seq(Line)
  BY LeftTypes DEF TypeOK
<1>2. Lost(Pending[1], Pending'[1]) /\ Lost(Pending[2], Pending'[2])
  BY <1>1, LostTokens, PendingIs
<1>3. /\ Lost(Pending[3], Pending'[3]) /\ Lost(Pending[4], Pending'[4])
      /\ Lost(Pending[5], Pending'[5]) /\ Lost(Pending[6], Pending'[6])
      /\ Lost(Pending[7], Pending'[7])
  BY <1>1, LostTokens, PendingIs
<1>4. \A k \in Places : Lost(Pending[k], Pending'[k])
  BY <1>2, <1>3, PlacesAre
<1>5. Once(Pending, answers, sent, Excused) /\ Queues(Pending)
  BY OnceParts
<1>6. Once(Pending', answers, sent, Excused)
  BY ONLY <1>4, <1>5, LosingKeeps
<1>7. QED BY <1>6, OnceParts, OnceThen

(* Connections come, with the buffer or with a new agent, and go, the one  *)
(* left behind with the lines of its receiver.                             *)
LEMMA OnceLeave ==
  ASSUME TypeOK, OnceInv, Leave
  PROVE  OnceInv'
<1> DEFINE p == [k \in Places |-> IF k = 7 THEN Pending[3] ELSE IF k = 3 THEN <<>> ELSE Pending[k]]
<1>1. LineTokens(<<>>) = <<>> /\ MessageTokens(<<>>) = <<>> /\ <<>> \in Seq(Nat)
  BY DEF LineTokens, MessageTokens
<1>2. Once(Pending, answers, sent, Excused) /\ Queues(Pending)
  BY OnceParts
<1>3. /\ Elsewhere(Pending, p, {3, 7}) /\ p[7] = Pending[3] /\ p[3] = <<>>
      /\ 3 \in Places /\ 7 \in Places
  BY DEF Elsewhere, Places
<1>4. Queues(p)
  BY <1>1, <1>2 DEF Queues, Places
<1>5. /\ left'.rx = rx /\ rx' = <<>> /\ toBridge' = <<>> /\ stdin' = stdin /\ buffer' = buffer
      /\ replay' = <<>> /\ inject' = <<>> /\ UNCHANGED <<sent, answers, copied>>
  BY DEF Leave, ConnectionGone, agentVars
<1>6. /\ Pending'[1] = <<>> /\ Pending'[2] = p[2] /\ Pending'[3] = <<>> /\ Pending'[4] = p[4]
      /\ Pending'[5] = <<>> /\ Pending'[6] = <<>> /\ Pending'[7] = p[7]
  BY <1>1, <1>5, PendingIs DEF Places
<1> HIDE DEF p
<1>7. Once(p, answers, sent, Excused)
  BY ONLY <1>2, <1>3, WholeKeeps
<1>8. \A k \in Places : Lost(p[k], Pending'[k])
  <2>1. /\ Lost(p[1], Pending'[1]) /\ Lost(p[2], Pending'[2]) /\ Lost(p[3], Pending'[3])
        /\ Lost(p[4], Pending'[4]) /\ Lost(p[5], Pending'[5]) /\ Lost(p[6], Pending'[6])
        /\ Lost(p[7], Pending'[7])
    BY <1>6 DEF Lost
  <2>2. QED BY <2>1, PlacesAre
<1>9. Once(Pending', answers, sent, Excused)
  BY ONLY <1>4, <1>7, <1>8, LosingKeeps
<1>10. QED BY <1>5, <1>9, OnceParts, OnceThen

LEMMA OnceConnection ==
  ASSUME TypeOK, OnceInv, Connect \/ Disconnect \/ Leave \/ AgentDies
  PROVE  OnceInv'
<1>1. CASE Connect /\ alive
  <2>1. /\ UNCHANGED <<toBridge, stdin, rx, inject, left, sent, answers, copied>>
        /\ replay' = buffer /\ buffer' = <<>>
    BY <1>1 DEF Connect, agentVars
  <2>2. /\ Elsewhere(Pending, Pending', {4, 5}) /\ Pending'[5] = Pending[4] /\ Pending'[4] = <<>>
        /\ 4 \in Places /\ 5 \in Places
    <3>1. LineTokens(<<>>) = <<>>
      BY DEF LineTokens
    <3>2. /\ Pending'[1] = Pending[1] /\ Pending'[2] = Pending[2] /\ Pending'[3] = Pending[3]
          /\ Pending'[6] = Pending[6] /\ Pending'[7] = Pending[7]
      BY <2>1, PendingIs
    <3>3. QED BY <2>1, <3>1, <3>2, PendingIs DEF Elsewhere, Places
  <2>3. Once(Pending, answers, sent, Excused)
    BY OnceParts
  <2>4. Once(Pending', answers, sent, Excused)
    BY ONLY <2>2, <2>3, WholeKeeps
  <2>5. QED BY <2>1, <2>4, OnceParts, OnceThen
<1>2. CASE Connect /\ ~alive
  <2>0. left \in LeftBehind
    BY DEF TypeOK
  <2>1. left'.rx = left.rx
    BY <1>2, <2>0 DEF Connect, LeftBehind
  <2>2. /\ UNCHANGED <<sent, answers, copied, toBridge, rx, inject>>
        /\ stdin' = <<>> /\ buffer' = <<>> /\ replay' = <<>>
    BY <1>2 DEF Connect
  <2>3. QED BY <2>1, <2>2, OnceLoses DEF Lost
<1>3. CASE Disconnect
  <2>1. /\ UNCHANGED <<sent, answers, copied, stdin, buffer, left>>
        /\ toBridge' = <<>> /\ rx' = <<>> /\ replay' = <<>> /\ inject' = <<>>
    BY <1>3 DEF Disconnect, ConnectionGone, agentVars
  <2>2. QED BY <2>1, OnceLoses DEF Lost
<1>4. CASE AgentDies
  <2>1. /\ UNCHANGED <<sent, answers, copied, toBridge, rx, buffer, replay, inject, left>>
        /\ stdin' = <<>>
    BY <1>4 DEF AgentDies, clientVars, leftVars
  <2>2. QED BY <2>1, OnceLoses DEF Lost
<1>5. QED BY <1>1, <1>2, <1>3, <1>4, OnceLeave

(* The file system holds no request.                                       *)
LEMMA OnceFile ==
  ASSUME TypeOK, OnceInv, FileSystem
  PROVE  OnceInv'
<1>1. UNCHANGED <<toBridge, stdin, rx, buffer, replay, inject, left, copied, sent, answers>>
  BY DEF FileSystem, Rewrite, Land, Truncate, EndRewrite, clientVars, agentVars, leftVars
<1>2. QED BY <1>1, OnceSame

(* Task 2 of the connection left behind loses what it takes, or puts it in *)
(* the buffer.                                                             *)
LEMMA OnceLeft ==
  ASSUME TypeOK, OnceInv, LeftTask2
  PROVE  OnceInv'
<1>0. left.rx \in Seq(Line) /\ buffer \in Seq(Line)
  BY LeftTypes DEF TypeOK
<1>1. UNCHANGED <<sent, answers, copied, toBridge, stdin, rx, replay, inject>>
  BY DEF LeftTask2, LeftSends, LeftFails, LeftDrops, LeftEnds, clientVars, agentVars
<1>2. CASE LeftSends \/ LeftDrops
  <2>1. left.rx # <<>> /\ left'.rx = Tail(left.rx) /\ buffer' = buffer
    <3>1. left \in LeftBehind
      BY DEF TypeOK
    <3>2. left.rx # <<>> /\ LeftTakes /\ buffer' = buffer
      BY <1>2 DEF LeftSends, LeftDrops, LeftReady
    <3>3. QED BY <3>1, <3>2 DEF LeftTakes, LeftBehind
  <2>2. QED BY <1>1, <2>1, OnceLoses DEF Lost
<1>3. CASE LeftEnds
  <2>1. left'.rx = <<>> /\ buffer' = buffer
    BY <1>3 DEF LeftEnds, NoneLeft
  <2>2. QED BY <1>1, <2>1, OnceLoses DEF Lost
<1>4. CASE LeftFails
  <2> DEFINE t == LineToken(Head(left.rx))
             p == [k \in Places |-> IF k = 7 THEN Tail(Pending[7])
                                    ELSE IF k = 4 THEN Append(Pending[4], t) ELSE Pending[k]]
  <2>1. left.rx # <<>> /\ left'.rx = <<>> /\ buffer' = Append(buffer, Head(left.rx))
    BY <1>4 DEF LeftFails, LeftReady, NoneLeft
  <2>2. Head(left.rx) \in Line /\ t \in Nat
    BY <1>0, <2>1, TokensTyped
  <2>3. Once(Pending, answers, sent, Excused) /\ Queues(Pending)
    BY OnceParts
  <2>4. /\ 4 \in Places /\ 7 \in Places /\ 7 # 4
        /\ Pending[4] \in Seq(Nat) /\ Pending[7] \in Seq(Nat)
    BY <2>3 DEF Queues, Places
  <2>5. Pending[7] # <<>> /\ t = Pending[7][1]
    BY <1>0, <2>1, LineTokensAre, PendingIs
  <2>6. Elsewhere(Pending, p, {7, 4}) /\ p[7] = Tail(Pending[7]) /\ p[4] = Append(Pending[4], t)
    BY DEF Elsewhere, Places
  <2>7. Queues(p)
    <3>1. Tail(Pending[7]) \in Seq(Nat) /\ Append(Pending[4], t) \in Seq(Nat)
      BY <2>2, <2>4, <2>5
    <3>2. \A k \in Places : p[k] \in Seq(Nat)
      BY <2>3, <3>1 DEF Queues
    <3>3. QED BY <3>2 DEF Queues
  <2>8. /\ Pending'[1] = p[1] /\ Pending'[2] = p[2] /\ Pending'[3] = p[3] /\ Pending'[4] = p[4]
        /\ Pending'[5] = p[5] /\ Pending'[6] = p[6] /\ Pending'[7] = <<>>
    <3>1. Pending'[4] = Append(Pending[4], t)
      BY SMTT(30), <1>0, <2>1, <2>2, LineTokensAre, PendingIs
    <3>2. Pending'[7] = <<>>
      BY <2>1, PendingIs DEF LineTokens
    <3>3. /\ Pending'[1] = Pending[1] /\ Pending'[2] = Pending[2] /\ Pending'[3] = Pending[3]
          /\ Pending'[5] = Pending[5] /\ Pending'[6] = Pending[6]
      BY <1>1, PendingIs
    <3>4. QED BY <3>1, <3>2, <3>3 DEF Places
  <2> HIDE DEF p, t
  <2>9. Once(p, answers, sent, Excused)
    BY ONLY <2>2, <2>3, <2>4, <2>5, <2>6, MovingKeeps
  <2>10. \A k \in Places : Lost(p[k], Pending'[k])
    <3>1. /\ Lost(p[1], Pending'[1]) /\ Lost(p[2], Pending'[2]) /\ Lost(p[3], Pending'[3])
          /\ Lost(p[4], Pending'[4]) /\ Lost(p[5], Pending'[5]) /\ Lost(p[6], Pending'[6])
          /\ Lost(p[7], Pending'[7])
      BY <2>8 DEF Lost
    <3>2. QED BY <3>1, PlacesAre
  <2>11. Once(Pending', answers, sent, Excused)
    BY ONLY <2>7, <2>9, <2>10, LosingKeeps
  <2>12. QED BY <1>1, <2>11, OnceParts, OnceThen
<1>5. QED BY <1>2, <1>3, <1>4 DEF LeftTask2

(* The intercepts answer what they take, or drop it; the replay is read.   *)
LEMMA OnceIntercept ==
  ASSUME TypeOK, OnceInv, Intercept
  PROVE  OnceInv'
<1>1. CASE InterceptInit
  BY <1>1, ReadMessage DEF InterceptInit, agentVars, leftVars, clientVars, Deliver
<1>2. CASE InterceptSession
  <2>1. /\ toBridge # <<>> /\ toBridge' = Tail(toBridge)
        /\ UNCHANGED <<stdin, rx, buffer, replay, inject, left, copied>>
    BY <1>2 DEF InterceptSession, agentVars, leftVars
  <2>2. \/ UNCHANGED clientVars
        \/ \E kind \in {"init", "session"} : Deliver(Synthetic(kind, Head(toBridge).id))
    BY <1>2 DEF InterceptSession
  <2>3. sent' = sent
    BY <2>2 DEF Deliver, clientVars
  <2>4. QED BY <2>1, <2>2, <2>3, ReadMessage DEF clientVars
<1>3. CASE InterceptTimeout \/ ReplayComplete
  BY <1>3, OnceSame DEF InterceptTimeout, ReplayComplete, clientVars, agentVars, leftVars
<1>4. CASE ReplayLine
  <2>1. /\ replay \in Seq(Line) /\ replay # <<>> /\ replay' = Tail(replay)
        /\ UNCHANGED <<toBridge, stdin, rx, buffer, inject, left, copied>> /\ Deliver(Head(replay))
    BY <1>4 DEF ReplayLine, TypeOK, agentVars, leftVars
  <2>2. Elsewhere(Pending, Pending', {5}) /\ sent' = sent
    BY <2>1, PendingElse DEF Deliver
  <2>3. Pending[5] = LineTokens(replay) /\ Pending'[5] = LineTokens(replay')
    BY PendingIs
  <2>4. QED BY <2>1, <2>2, <2>3, ReadLine
<1>5. QED BY <1>1, <1>2, <1>3, <1>4 DEF Intercept

(* Task 1 passes a request on, refuses it, or keeps it.                    *)
LEMMA OnceTask1 ==
  ASSUME TypeOK, AppendInHand, OnceInv, Task1
  PROVE  OnceInv'
<1>h. toBridge # <<>> => Head(toBridge) \in ClientMessage /\ Head(toBridge).id \in Req
                         /\ Head(toBridge).id \in Nat
  BY TokensTyped DEF TypeOK
<1>1. CASE RefuseLoad
  <2> DEFINE line == Synthetic("error", Head(toBridge).id)
  <2>1. /\ toBridge # <<>> /\ toBridge' = Tail(toBridge) /\ inject' = Append(inject, line)
        /\ UNCHANGED <<stdin, rx, buffer, replay, sent, answers, left, copied>>
    BY <1>1 DEF RefuseLoad, Task1Ready, NextMessage, NotForwarded, clientVars, leftVars
  <2>2. LineToken(line) = Head(toBridge).id /\ line \in Line /\ inject \in Seq(Line)
    BY <1>h, <2>1, SyntheticIsLine DEF TypeOK, LineToken, IsResponse, Synthetic
  <2> HIDE DEF line
  <2>3. Pending'[6] = Append(Pending[6], Head(toBridge).id)
    BY <2>1, <2>2, LineTokensAre, PendingIs
  <2>4. Elsewhere(Pending, Pending', {1, 6}) /\ 6 \in Places \ {1}
    BY <2>1, PendingElse DEF Places
  <2>5. QED BY <1>h, <2>1, <2>3, <2>4, PassMessage
<1>2. ASSUME NEW msg \in AgentMessage, SendToAgent(msg), toBridge # <<>>, toBridge' = Tail(toBridge),
             UNCHANGED <<rx, buffer, replay, inject, sent, answers, left, copied>>,
             msg.kind # "memory" => msg.id = Head(toBridge).id
      PROVE  OnceInv'
  <2>1. CASE stdin' = stdin
    BY <1>2, <2>1, ReadMessage
  <2>2. CASE stdin' = Append(stdin, msg)
    <3>1. MessageToken(msg) \in Nat /\ (MessageToken(msg) = 0 \/ MessageToken(msg) = Head(toBridge).id)
      BY <1>2, TokensTyped DEF MessageToken
    <3>2. Pending'[2] = Append(Pending[2], MessageToken(msg))
      BY <2>2, MessageTokensAre, PendingIs DEF TypeOK
    <3>3. Elsewhere(Pending, Pending', {1, 2}) /\ 2 \in Places \ {1}
      BY <1>2, PendingElse DEF Places
    <3>4. QED BY <1>2, <3>1, <3>2, <3>3, PassMessage
  <2>3. QED BY <1>2, <2>1, <2>2 DEF SendToAgent
<1>3. CASE Forward
  <2> DEFINE head == Head(toBridge)
             memory == IF head.kind = "prompt" /\ ~injected THEN file ELSE {}
             msg == Message(head.kind, head.id, memory)
  <2>1. /\ toBridge # <<>> /\ toBridge' = Tail(toBridge)
        /\ UNCHANGED <<rx, buffer, replay, inject, sent, answers, left, copied>> /\ SendToAgent(msg)
        /\ head.kind \in {"init", "new", "load", "prompt"}
    BY <1>3 DEF Forward, Task1Ready, NextMessage, clientVars, leftVars
  <2>2. memory \in SUBSET Req /\ epoch \in Nat
    BY DEF TypeOK
  <2>3. msg \in AgentMessage /\ msg.id = head.id
    BY <1>h, <2>1, <2>2, MessageTyped DEF Message
  <2> HIDE DEF msg
  <2>4. QED BY <1>2, <2>1, <2>3
<1>4. CASE AppendFile
  <2>1. CASE toBridge' = toBridge
    BY <1>4, <2>1, OnceSame DEF AppendFile, clientVars, agentVars, leftVars
  <2>2. CASE toBridge' = Tail(toBridge)
    BY <1>4, <2>2, ReadMessage DEF AppendFile, Task1Ready, NextMessage, clientVars, agentVars, leftVars
  <2>3. QED BY <1>4, <2>1, <2>2 DEF AppendFile
<1>5. CASE RefuseAppend
  BY <1>5, ReadMessage DEF RefuseAppend, Task1Ready, NextMessage, clientVars, agentVars, leftVars
<1>9. CASE ReadNothing
  BY <1>9, ReadMessage DEF ReadNothing, AppendInHand, clientVars, agentVars, leftVars
<1>6. CASE ReadAndArm
  BY <1>6, OnceSame DEF ReadAndArm, clientVars, agentVars, leftVars
<1>7. CASE SendUpdate
  <2> DEFINE msg == Message("memory", Head(toBridge).id, update)
  <2>1. /\ toBridge # <<>> /\ toBridge' = Tail(toBridge)
        /\ UNCHANGED <<rx, buffer, replay, inject, sent, answers, left, copied>> /\ SendToAgent(msg)
    BY <1>7 DEF SendUpdate, AppendInHand, clientVars, leftVars
  <2>2. msg \in AgentMessage /\ msg.kind = "memory"
    BY <1>h, <2>1, MessageTyped DEF Message, TypeOK
  <2> HIDE DEF msg
  <2>3. QED BY <1>2, <2>1, <2>2
<1>8. QED BY <1>1, <1>3, <1>4, <1>5, <1>6, <1>7, <1>9 DEF Task1

(* Task 2 hands responses on, one by one.                                  *)
LEMMA OnceTask2 ==
  ASSUME TypeOK, OnceInv, Task2
  PROVE  OnceInv'
<1>1. CASE ForwardLine \/ DropLine
  <2>1. /\ rx \in Seq(Line) /\ rx # <<>> /\ rx' = Tail(rx)
        /\ UNCHANGED <<toBridge, stdin, buffer, replay, inject, left, copied>>
    BY <1>1 DEF ForwardLine, DropLine, Task2Ready, TypeOK, agentVars, leftVars
  <2>2. Elsewhere(Pending, Pending', {3}) /\ Pending[3] = LineTokens(rx) /\ Pending'[3] = LineTokens(rx')
    BY <2>1, PendingElse, PendingIs
  <2>3. sent' = sent /\ (answers' = answers \/ Deliver(Head(rx)))
    BY <1>1 DEF ForwardLine, DropLine, Deliver, clientVars
  <2>4. QED BY <2>1, <2>2, <2>3, ReadLine
<1>2. CASE ForwardInjected
  <2>1. /\ inject \in Seq(Line) /\ inject # <<>> /\ inject' = Tail(inject)
        /\ UNCHANGED <<toBridge, stdin, rx, buffer, replay, left, copied>> /\ Deliver(Head(inject))
    BY <1>2 DEF ForwardInjected, TypeOK, agentVars, leftVars
  <2>2. Elsewhere(Pending, Pending', {6}) /\ Pending[6] = LineTokens(inject)
        /\ Pending'[6] = LineTokens(inject') /\ sent' = sent
    BY <2>1, PendingElse, PendingIs DEF Deliver
  <2>3. QED BY <2>1, <2>2, ReadLine
<1>3. QED BY <1>1, <1>2 DEF Task2

(* A line pushed into a receiver, which first loses its oldest when full.  *)
LEMMA PushedTokens ==
  ASSUME NEW q \in Seq(Line), NEW line \in Line
  PROVE  \E q2 \in Seq(Nat) : /\ Lost(LineTokens(q), q2)
                              /\ LineTokens(Push(q, line)) = Append(q2, LineToken(line))
<1>1. LineTokens(q) \in Seq(Nat) /\ (q # <<>> => Tail(q) \in Seq(Line) /\ LineTokens(Tail(q)) \in Seq(Nat))
  BY TokensTyped DEF LineTokens
<1>2. CASE Len(q) >= RxCap
  <2>1. q # <<>> /\ Push(q, line) = Append(Tail(q), line) /\ Tail(q) \in Seq(Line)
    BY <1>2, SessionAssumption DEF Push
  <2>2. /\ LineTokens(q) # <<>> /\ LineTokens(Tail(q)) = Tail(LineTokens(q))
        /\ LineTokens(Append(Tail(q), line)) = Append(LineTokens(Tail(q)), LineToken(line))
    BY <2>1, LineTokensAre
  <2>3. QED BY <1>1, <2>1, <2>2 DEF Lost
<1>3. CASE ~(Len(q) >= RxCap)
  <2>1. LineTokens(Push(q, line)) = Append(LineTokens(q), LineToken(line))
    BY <1>3, LineTokensAre DEF Push
  <2>2. QED BY <1>1, <2>1 DEF Lost
<1>4. QED BY <1>2, <1>3

(* A line written is in the buffer or in one receiver, or in two and its   *)
(* request copied.                                                         *)
LEMMA WrittenIs ==
  ASSUME TypeOK, NEW line \in Line, Write(line)
  PROVE  \E q3, q7 \in Seq(Nat) :
           /\ Lost(Pending[3], q3) /\ Lost(Pending[7], q7)
           /\ \/ /\ Pending'[3] = q3 /\ Pending'[7] = q7 /\ copied' = copied
                 /\ Pending'[4] = Append(Pending[4], LineToken(line))
              \/ /\ Pending'[3] = Append(q3, LineToken(line)) /\ Pending'[7] = q7
                 /\ Pending'[4] = Pending[4] /\ copied' = copied
              \/ /\ Pending'[3] = q3 /\ Pending'[7] = Append(q7, LineToken(line))
                 /\ Pending'[4] = Pending[4] /\ copied' = copied
              \/ /\ Pending'[3] = Append(q3, LineToken(line))
                 /\ Pending'[7] = Append(q7, LineToken(line)) /\ Pending'[4] = Pending[4]
                 /\ copied' = copied \/ copied' = copied \cup {LineToken(line)}
                 /\ LineToken(line) \in Excused'
<1> DEFINE t == LineToken(line)
<1>1. rx \in Seq(Line) /\ buffer \in Seq(Line) /\ left.rx \in Seq(Line) /\ left \in LeftBehind
  BY LeftTypes DEF TypeOK
<1>2. Pending[3] \in Seq(Nat) /\ Pending[7] \in Seq(Nat)
  BY PendingTyped, PlacesAre DEF Queues
<1>3. PICK p3 \in Seq(Nat) : Lost(Pending[3], p3) /\ LineTokens(Push(rx, line)) = Append(p3, t)
  BY <1>1, PushedTokens, PendingIs
<1>4. PICK p7 \in Seq(Nat) : Lost(Pending[7], p7) /\ LineTokens(Push(left.rx, line)) = Append(p7, t)
  BY <1>1, PushedTokens, PendingIs
<1>5. LineTokens(Append(buffer, line)) = Append(Pending[4], t)
  BY <1>1, LineTokensAre, PendingIs
<1>6. Lost(Pending[3], Pending[3]) /\ Lost(Pending[7], Pending[7])
  BY DEF Lost
<1>7. LeftListens => left'.rx = Push(left.rx, line)
  BY <1>1 DEF Write, LeftBehind
<1>8. ~LeftListens => left' = left
  BY DEF Write
<1>9. CASE conn = "none" /\ ~LeftListens
  <2>1. rx' = rx /\ left' = left /\ buffer' = Append(buffer, line) /\ copied' = copied
    BY <1>9 DEF Write
  <2>2. Pending'[3] = Pending[3] /\ Pending'[7] = Pending[7] /\ Pending'[4] = Append(Pending[4], t)
    BY <1>5, <2>1, PendingIs
  <2>3. QED BY <1>2, <1>6, <2>1, <2>2
<1>10. CASE conn # "none" /\ ~LeftListens
  <2>1. rx' = Push(rx, line) /\ left' = left /\ buffer' = buffer /\ copied' = copied
    BY <1>10 DEF Write
  <2>2. Pending'[3] = Append(p3, t) /\ Pending'[7] = Pending[7] /\ Pending'[4] = Pending[4]
    BY <1>3, <2>1, PendingIs
  <2>3. QED BY <1>2, <1>3, <1>6, <2>1, <2>2
<1>11. CASE conn = "none" /\ LeftListens
  <2>1. rx' = rx /\ buffer' = buffer /\ copied' = copied
    BY <1>11 DEF Write
  <2>2. Pending'[3] = Pending[3] /\ Pending'[7] = Append(p7, t) /\ Pending'[4] = Pending[4]
    BY <1>4, <1>7, <1>11, <2>1, PendingIs
  <2>3. QED BY <1>2, <1>4, <1>6, <2>1, <2>2
<1>12. CASE conn # "none" /\ LeftListens
  <2>1. rx' = Push(rx, line) /\ buffer' = buffer
    BY <1>12 DEF Write
  <2>2. copied' = IF IsResponse(line) THEN copied \cup {line.id} ELSE copied
    BY <1>12 DEF Write
  <2>3. (copied' = copied \/ copied' = copied \cup {t}) /\ t \in Excused'
    BY <2>2 DEF LineToken, Excused
  <2>4. Pending'[3] = Append(p3, t) /\ Pending'[7] = Append(p7, t) /\ Pending'[4] = Pending[4]
    BY <1>3, <1>4, <1>7, <1>12, <2>1, PendingIs
  <2>5. QED BY <1>3, <1>4, <2>3, <2>4
<1>13. QED BY <1>9, <1>10, <1>11, <1>12

(* The agent writes what answers nothing, or answers what it takes.        *)
LEMMA OnceWrites ==
  ASSUME TypeOK, OnceInv, NEW line \in Line, Write(line),
         UNCHANGED <<answers, sent, toBridge, replay, inject>>,
         NEW took \in BOOLEAN,
         took => /\ stdin # <<>> /\ stdin' = Tail(stdin)
                 /\ LineToken(line) = MessageToken(Head(stdin)),
         ~took => stdin' = stdin /\ LineToken(line) = 0
  PROVE  OnceInv'
<1> DEFINE t == LineToken(line)
<1>1. /\ Once(Pending, answers, sent, Excused) /\ Queues(Pending) /\ 0 \in Excused
      /\ sent \in Nat /\ t \in Nat
  BY OnceParts, TokensTyped
<1>2. PICK q3 \in Seq(Nat), q7 \in Seq(Nat) :
           /\ Lost(Pending[3], q3) /\ Lost(Pending[7], q7)
           /\ \/ /\ Pending'[3] = q3 /\ Pending'[7] = q7 /\ copied' = copied
                 /\ Pending'[4] = Append(Pending[4], t)
              \/ /\ Pending'[3] = Append(q3, t) /\ Pending'[7] = q7
                 /\ Pending'[4] = Pending[4] /\ copied' = copied
              \/ /\ Pending'[3] = q3 /\ Pending'[7] = Append(q7, t)
                 /\ Pending'[4] = Pending[4] /\ copied' = copied
              \/ /\ Pending'[3] = Append(q3, t)
                 /\ Pending'[7] = Append(q7, t) /\ Pending'[4] = Pending[4]
                 /\ copied' = copied \/ copied' = copied \cup {t}
                 /\ t \in Excused'
  BY WrittenIs
<1>3. /\ Pending'[1] = Pending[1] /\ Pending'[5] = Pending[5] /\ Pending'[6] = Pending[6]
      /\ ~took => Pending'[2] = Pending[2] /\ t = 0
  BY PendingIs
<1>4. took => Pending[2] # <<>> /\ Pending'[2] = Tail(Pending[2]) /\ t = Pending[2][1]
  BY MessageTokensAre, PendingIs DEF TypeOK
<1> DEFINE p == [k \in Places |-> IF k = 3 THEN q3 ELSE IF k = 7 THEN q7 ELSE Pending[k]]
           p2 == [k \in Places |-> IF k = 2 THEN Pending'[2] ELSE p[k]]
           p3 == [k \in Places |-> IF k = 3 THEN Append(q3, t) ELSE p2[k]]
<1>5. /\ p[1] = Pending[1] /\ p[2] = Pending[2] /\ p[3] = q3 /\ p[4] = Pending[4]
      /\ p[5] = Pending[5] /\ p[6] = Pending[6] /\ p[7] = q7
  BY DEF Places
<1>6. /\ p2[1] = p[1] /\ p2[2] = Pending'[2] /\ p2[3] = p[3] /\ p2[4] = p[4]
      /\ p2[5] = p[5] /\ p2[6] = p[6] /\ p2[7] = p[7]
  BY DEF Places
<1>7. /\ p3[1] = p2[1] /\ p3[2] = p2[2] /\ p3[3] = Append(p2[3], t) /\ p3[4] = p2[4]
      /\ p3[5] = p2[5] /\ p3[6] = p2[6] /\ p3[7] = p2[7]
  BY <1>5, <1>6 DEF Places
<1>8. /\ Pending[1] \in Seq(Nat) /\ Pending[2] \in Seq(Nat) /\ Pending[4] \in Seq(Nat)
      /\ Pending[5] \in Seq(Nat) /\ Pending[6] \in Seq(Nat)
  BY <1>1, PlacesAre DEF Queues
<1> HIDE DEF p, p2, p3, t
<1>9. Queues(p) /\ p[2] \in Seq(Nat) /\ p[3] \in Seq(Nat) /\ p[4] \in Seq(Nat) /\ p[7] \in Seq(Nat)
  BY <1>2, <1>5, <1>8, PlacesAre DEF Queues
<1>10. Once(p, answers, sent, Excused)
  <2>1. /\ Lost(Pending[1], p[1]) /\ Lost(Pending[2], p[2]) /\ Lost(Pending[3], p[3])
        /\ Lost(Pending[4], p[4]) /\ Lost(Pending[5], p[5]) /\ Lost(Pending[6], p[6])
        /\ Lost(Pending[7], p[7])
    BY <1>2, <1>5 DEF Lost
  <2>2. \A k \in Places : Lost(Pending[k], p[k])
    BY <2>1, PlacesAre
  <2>3. QED BY ONLY <1>1, <2>2, LosingKeeps
<1>11. ASSUME NEW k \in {3, 4, 7}, Pending'[k] = Append(p[k], t), copied' = copied,
              \A l \in {3, 4, 7} \ {k} : Pending'[l] = p[l]
       PROVE  OnceInv'
  <2>1. k \in Places /\ p[k] \in Seq(Nat) /\ 2 \in Places /\ 2 # k
    BY <1>9, PlacesAre
  <2>2. Elsewhere(p, Pending', {2, k})
    BY <1>3, <1>5, <1>11, PlacesAre DEF Elsewhere
  <2>3. CASE took
    <3>1. p[2] \in Seq(Nat) /\ p[2] # <<>> /\ Pending'[2] = Tail(p[2]) /\ t = p[2][1] /\ t \in Nat
      BY <1>1, <1>4, <1>5, <1>9, <2>3
    <3>2. Pending'[k] = Append(p[k], t)
      BY <1>11
    <3>3. Once(Pending', answers, sent, Excused)
      BY ONLY <1>10, <2>1, <2>2, <3>1, <3>2, MovingKeeps
    <3>4. QED BY <1>11, <3>3, OnceParts, OnceThen
  <2>4. CASE ~took
    <3>1. Elsewhere(p, Pending', {k})
      BY <1>3, <1>5, <2>2, <2>4, PlacesAre DEF Elsewhere
    <3>2. Pending'[k] = Append(p[k], t) /\ t \in Nat /\ t \in Excused
      BY <1>1, <1>3, <1>11, <2>4
    <3>3. Once(Pending', answers, sent, Excused)
      BY ONLY <1>10, <2>1, <3>1, <3>2, OutputKeeps
    <3>4. QED BY <1>11, <3>3, OnceParts, OnceThen
  <2>5. QED BY <2>3, <2>4
<1>12. ASSUME Pending'[3] = Append(q3, t), Pending'[7] = Append(q7, t), Pending'[4] = Pending[4],
              copied' = copied \/ copied' = copied \cup {t}, t \in Excused'
       PROVE  OnceInv'
  <2>1. t \in Excused \/ t <= sent
    <3>1. CASE took
      <4>1. At(Pending, 2, 1) /\ Token(Pending, 2, 1) = t
        BY <1>4, <1>8, <3>1, TailIs, PlacesAre DEF At, Token
      <4>2. QED BY <1>1, <4>1 DEF Once, Bounded
    <3>2. CASE ~took
      BY <1>1, <1>3, <3>2
    <3>3. QED BY <3>1, <3>2
  <2>2. Excused \subseteq Excused' /\ \A r \in Excused' : r \in Nat /\ r <= sent
    <3>1. \A r \in Excused : r \in Nat /\ r <= sent
      BY <1>1 DEF Once, Answers
    <3>2. \A r \in Excused' : r \in Excused \/ r = t
      BY <1>12 DEF Excused
    <3>3. Excused \subseteq Excused'
      BY <1>12 DEF Excused
    <3>4. QED BY <1>1, <2>1, <3>1, <3>2, <3>3
  <2>3. Once(p, answers, sent, Excused')
    BY ONLY <1>10, <2>2, ExcusingKeeps
  <2>4. Queues(p2) /\ p2[3] \in Seq(Nat)
    <3>1. Pending'[2] \in Seq(Nat)
      <4>1. CASE took
        BY <1>4, <1>8, <4>1, TailIs
      <4>2. CASE ~took
        BY <1>3, <1>8, <4>2
      <4>3. QED BY <4>1, <4>2
    <3>2. QED BY <1>2, <1>5, <1>6, <1>8, <3>1, PlacesAre DEF Queues
  <2>5. Once(p2, answers, sent, Excused')
    <3>1. /\ Lost(p[1], p2[1]) /\ Lost(p[2], p2[2]) /\ Lost(p[3], p2[3]) /\ Lost(p[4], p2[4])
          /\ Lost(p[5], p2[5]) /\ Lost(p[6], p2[6]) /\ Lost(p[7], p2[7])
      BY <1>3, <1>4, <1>5, <1>6 DEF Lost
    <3>2. \A k \in Places : Lost(p[k], p2[k])
      BY <3>1, PlacesAre
    <3>3. QED BY ONLY <1>9, <2>3, <3>2, LosingKeeps
  <2>6. Once(p3, answers, sent, Excused')
    <3>1. Elsewhere(p2, p3, {3}) /\ 3 \in Places /\ t \in Nat /\ t \in Excused' /\ p3[3] = Append(p2[3], t)
      BY <1>1, <1>7, <1>12, PlacesAre DEF Elsewhere
    <3>2. QED BY ONLY <2>4, <2>5, <3>1, OutputKeeps
  <2>7. Once(Pending', answers, sent, Excused')
    <3>1. Pending'[2] = p3[2]
      BY <1>6, <1>7
    <3>2. Elsewhere(p3, Pending', {7})
      BY ZenonT(30), <1>3, <1>5, <1>6, <1>7, <1>12, <3>1, PlacesAre DEF Elsewhere
    <3>3. /\ 7 \in Places /\ t \in Nat /\ t \in Excused' /\ p3[7] \in Seq(Nat)
          /\ Pending'[7] = Append(p3[7], t)
      BY <1>1, <1>5, <1>6, <1>7, <1>9, <1>12, PlacesAre
    <3>4. QED BY ONLY <2>6, <3>2, <3>3, OutputKeeps
  <2>8. QED BY <2>7, OnceThen
<1>13. QED
  <2>1. CASE Pending'[3] = q3 /\ Pending'[7] = q7 /\ Pending'[4] = Append(Pending[4], t) /\ copied' = copied
    BY <1>5, <1>11, <2>1
  <2>2. CASE Pending'[3] = Append(q3, t) /\ Pending'[7] = q7 /\ Pending'[4] = Pending[4] /\ copied' = copied
    BY <1>5, <1>11, <2>2
  <2>3. CASE Pending'[3] = q3 /\ Pending'[7] = Append(q7, t) /\ Pending'[4] = Pending[4] /\ copied' = copied
    BY <1>5, <1>11, <2>3
  <2>4. QED BY <1>2, <1>12, <2>1, <2>2, <2>3

(* The agent streams what answers nothing, and answers what it was asked.  *)
LEMMA OnceAgent ==
  ASSUME TypeOK, OnceInv, AgentStreams \/ AgentAnswers
  PROVE  OnceInv'
<1> DEFINE msg == Head(stdin)
<1>1. /\ stdin \in Seq(AgentMessage) /\ stdin # <<>>
      /\ UNCHANGED <<answers, sent, toBridge, replay, inject>>
  BY DEF TypeOK, AgentStreams, AgentAnswers, clientVars
<1>2. msg \in AgentMessage
  BY <1>1
<1>3. CASE AgentStreams
  <2> DEFINE text == IF msg.kind = "memory" THEN msg.text ELSE {}
             line == LineOf("update", msg, text)
  <2>1. text \in SUBSET Req
    BY <1>2 DEF AgentMessage
  <2>2. line \in Line /\ LineToken(line) = 0
    BY <1>2, <2>1, LineOfIsLine DEF LineOf, LineToken, IsResponse
  <2>3. Write(line) /\ stdin' = stdin
    BY <1>3 DEF AgentStreams
  <2> HIDE DEF line
  <2>4. QED BY <1>1, <2>2, <2>3, OnceWrites
<1>4. CASE AgentAnswers
  <2>1. PICK kind \in {"init", "session", "loaded", "error", "final"} :
          Write(LineOf(kind, msg, {})) /\ (msg.kind = "memory" => kind = "final")
    BY <1>4 DEF AgentAnswers
  <2> DEFINE line == LineOf(kind, msg, {})
  <2>2. line \in Line /\ LineToken(line) = MessageToken(msg)
    BY <1>2, LineOfIsLine DEF LineOf, LineToken, IsResponse, MessageToken
  <2>3. Write(line) /\ stdin' = Tail(stdin)
    BY <1>4, <2>1 DEF AgentAnswers
  <2> HIDE DEF line
  <2>4. QED BY <1>1, <2>2, <2>3, OnceWrites
<1>5. QED BY <1>3, <1>4

LEMMA OnceStep ==
  ASSUME TypeOK, AppendInHand, OnceInv, [Next]_vars
  PROVE  OnceInv'
<1>1. CASE Client
  BY <1>1, OnceClient DEF Client
<1>2. CASE Agent
  BY <1>2, OnceAgent, OnceConnection DEF Agent
<1>3. CASE UNCHANGED vars
  BY <1>3, OnceSame DEF vars, clientVars, agentVars, leftVars
<1>4. QED
  BY <1>1, <1>2, <1>3, OnceConnection, OnceIntercept, OnceTask1, OnceTask2, OnceLeft, OnceFile
     DEF Next

(* No request of the client is answered twice, however often it comes back *)
(* to cached, refused, replayed and live answers, unless two connections   *)
(* listened to the answer.                                                 *)
THEOREM AnsweredOnceKept == Spec => []AnsweredOnce
<1>1. Init => OnceInv
  <2> SUFFICES ASSUME Init PROVE OnceInv
    OBVIOUS
  <2>1. MessageTokens(<<>>) = <<>> /\ LineTokens(<<>>) = <<>>
    BY DEF MessageTokens, LineTokens
  <2>2. Len(<<>>) = 0 /\ 1 .. 0 = {}
    OBVIOUS
  <2>3. left.rx = <<>>
    BY DEF Init, NoneLeft
  <2>4. \A k \in Places : 1 .. Len(Pending[k]) = {}
    BY <2>1, <2>2, <2>3, PendingIs, PlacesAre DEF Init
  <2>5. Bounded(Pending, answers, sent, Excused) /\ Apart(Pending, Excused)
    BY <2>4 DEF Bounded, Apart, At
  <2>6. Answers(answers, sent, Excused)
    BY DEF Init, Answers, Excused
  <2>7. QED BY <2>5, <2>6 DEF OnceInv, Once
<1>2. IInv /\ OnceInv /\ [Next]_vars => OnceInv'
  BY OnceStep DEF IInv
<1>3. OnceInv => AnsweredOnce
  <2>1. \A r \in Req : r \in Excused => r \in copied
    BY SessionAssumption DEF Excused, Req
  <2>2. QED BY <2>1 DEF OnceInv, Once, Answers, AnsweredOnce
<1>4. QED BY <1>1, <1>2, <1>3, SessionInvariant, PTL DEF Spec

-----------------------------------------------------------------------------
(* The silence of memory updates.  An update ends the suppression with its *)
(* own final response, which comes after all of its output: SilentHere     *)
(* needs the order of everything on the way from the client to the agent   *)
(* and back.  In what follows asks, msgs and lines stand for toBridge,     *)
(* stdin and rx, s for the requests sent and e for the epoch.              *)

(* The ids of the client's messages grow.                                  *)
AsksInOrder(asks, s) ==
  /\ \A i \in 1 .. Len(asks) : asks[i].id <= s
  /\ \A i, j \in 1 .. Len(asks) : i < j => asks[i].id < asks[j].id

(* The updates under way are older than id, or of connections up to e.     *)
UpdatesBelow(msgs, lines, id) ==
  /\ \A j \in 1 .. Len(msgs) : msgs[j].kind = "memory" => msgs[j].id < id
  /\ \A j \in 1 .. Len(lines) : lines[j].silent => lines[j].id < id
UpdatesUntil(msgs, lines, e) ==
  /\ \A j \in 1 .. Len(msgs) : msgs[j].kind = "memory" => msgs[j].epoch <= e
  /\ \A j \in 1 .. Len(lines) : lines[j].silent => lines[j].epoch <= e

(* Updates are asked of the agent, and answered by it, in their order, and *)
(* nothing follows a final response.                                       *)
Follows(early, late) ==
  early.silent /\ late.silent =>
    early.id <= late.id /\ (early.kind = "final" => early.id < late.id)
FollowsMessage(line, msg) ==
  line.silent /\ msg.kind = "memory" =>
    line.id <= msg.id /\ (line.kind = "final" => line.id < msg.id)
MessagesInOrder(msgs) ==
  \A i, j \in 1 .. Len(msgs) :
    i < j /\ msgs[i].kind = "memory" /\ msgs[j].kind = "memory" => msgs[i].id < msgs[j].id
LinesInOrder(lines) == \A i, j \in 1 .. Len(lines) : i < j => Follows(lines[i], lines[j])
LinesBeforeMessages(msgs, lines) ==
  \A i \in 1 .. Len(lines), j \in 1 .. Len(msgs) : FollowsMessage(lines[i], msgs[j])

OrderInv(asks, msgs, lines, s, e) ==
  /\ AsksInOrder(asks, s)
  /\ \A i \in 1 .. Len(asks) : UpdatesBelow(msgs, lines, asks[i].id)
  /\ UpdatesBelow(msgs, lines, s + 1)
  /\ UpdatesUntil(msgs, lines, e)
  /\ MessagesInOrder(msgs) /\ LinesInOrder(lines) /\ LinesBeforeMessages(msgs, lines)

(* The armed id is the latest update's, and without suppression nothing of *)
(* the connection's own is under way.                                      *)
ArmedInv ==
  /\ suppress # 0 => UpdatesBelow(stdin, rx, suppress + 1)
  /\ conn # "none" /\ suppress = 0 => UpdatesUntil(stdin, rx, epoch - 1)
  /\ appending = "armed" => suppress = Head(toBridge).id
  /\ conn = "none" => suppress = 0 /\ toBridge = <<>>

SilentInv == OrderInv(toBridge, stdin, rx, sent, epoch) /\ ArmedInv

(* What is left of a queue from place d + 1 on.                            *)
Rest(q2, q, d) == \A i \in 1 .. Len(q2) : i + d \in 1 .. Len(q) /\ q2[i] = q[i + d]

LEMMA RestIs ==
  ASSUME NEW S, NEW q \in Seq(S), NEW q2
  PROVE  /\ Len(q) \in Nat
         /\ q2 = q => Rest(q2, q, 0)
         /\ q2 = <<>> => Rest(q2, q, 0)
         /\ q # <<>> /\ q2 = Tail(q) => Rest(q2, q, 1)
<1>1. q2 = q => Rest(q2, q, 0)
  BY DEF Rest
<1>2. q2 = <<>> => Rest(q2, q, 0)
  BY DEF Rest
<1>3. q # <<>> /\ q2 = Tail(q) => Rest(q2, q, 1)
  BY DEF Rest
<1>4. QED BY <1>1, <1>2, <1>3

(* Forgetting the first of the queues keeps what holds of the updates.     *)
LEMMA RestBelow ==
  ASSUME NEW msgs, NEW lines, NEW msgs2, NEW lines2, NEW c, NEW d,
         Rest(msgs2, msgs, c), Rest(lines2, lines, d), NEW x
  PROVE  /\ UpdatesBelow(msgs, lines, x) => UpdatesBelow(msgs2, lines2, x)
         /\ UpdatesUntil(msgs, lines, x) => UpdatesUntil(msgs2, lines2, x)
BY DEF Rest, UpdatesBelow, UpdatesUntil

LEMMA RestOrdered ==
  ASSUME NEW asks, NEW msgs, NEW lines, NEW s, NEW e, OrderInv(asks, msgs, lines, s, e),
         NEW asks2, NEW msgs2, NEW lines2, NEW b \in Nat, NEW c \in Nat, NEW d \in Nat,
         Rest(asks2, asks, b), Rest(msgs2, msgs, c), Rest(lines2, lines, d)
  PROVE  OrderInv(asks2, msgs2, lines2, s, e)
<1>a. /\ \A i \in 1 .. Len(asks2) : i \in Nat /\ i + b \in 1 .. Len(asks) /\ asks2[i] = asks[i + b]
      /\ \A i \in 1 .. Len(msgs2) : i \in Nat /\ i + c \in 1 .. Len(msgs) /\ msgs2[i] = msgs[i + c]
  BY DEF Rest
<1>b. \A i, j, k \in Nat : i < j => i + k < j + k
  OBVIOUS
<1>1. AsksInOrder(asks2, s)
  <2>1. ASSUME NEW i \in 1 .. Len(asks2), NEW j \in 1 .. Len(asks2), i < j
        PROVE  asks2[i].id < asks2[j].id
    <3>1. i + b < j + b
      BY <1>a, <1>b, <2>1
    <3>2. QED BY <1>a, <3>1 DEF OrderInv, AsksInOrder
  <2>2. QED BY <1>a, <2>1 DEF OrderInv, AsksInOrder
<1>2. \A i \in 1 .. Len(asks2) : UpdatesBelow(msgs2, lines2, asks2[i].id)
  <2> SUFFICES ASSUME NEW i \in 1 .. Len(asks2) PROVE UpdatesBelow(msgs2, lines2, asks2[i].id)
    OBVIOUS
  <2>1. UpdatesBelow(msgs, lines, asks2[i].id)
    BY <1>a DEF OrderInv
  <2>2. QED BY <2>1, RestBelow
<1>3. UpdatesBelow(msgs2, lines2, s + 1) /\ UpdatesUntil(msgs2, lines2, e)
  BY RestBelow DEF OrderInv
<1>4. MessagesInOrder(msgs2)
  <2> SUFFICES ASSUME NEW i \in 1 .. Len(msgs2), NEW j \in 1 .. Len(msgs2), i < j,
                      msgs2[i].kind = "memory", msgs2[j].kind = "memory"
               PROVE  msgs2[i].id < msgs2[j].id
    BY DEF MessagesInOrder
  <2>1. i + c < j + c
    BY <1>a, <1>b
  <2>2. QED BY <1>a, <2>1 DEF OrderInv, MessagesInOrder
<1>5. LinesInOrder(lines2)
  BY DEF OrderInv, LinesInOrder, Rest
<1>6. LinesBeforeMessages(msgs2, lines2)
  BY DEF OrderInv, LinesBeforeMessages, Rest
<1>7. QED BY <1>1, <1>2, <1>3, <1>4, <1>5, <1>6 DEF OrderInv

(* The client's next message is newer than everything.                     *)
LEMMA AskOrdered ==
  ASSUME NEW asks \in Seq(ClientMessage), NEW msgs \in Seq(AgentMessage), NEW lines \in Seq(Line),
         NEW s \in Nat, NEW e, OrderInv(asks, msgs, lines, s, e), NEW ask, ask.id = s + 1,
         ask \in ClientMessage
  PROVE  OrderInv(Append(asks, ask), msgs, lines, s + 1, e)
<1> DEFINE asks2 == Append(asks, ask)
<1>1. \A i \in 1 .. Len(asks2) : \/ i \in 1 .. Len(asks) /\ asks2[i] = asks[i]
                                 \/ i = Len(asks) + 1 /\ asks2[i] = ask
  OBVIOUS
<1>2. \A i \in 1 .. Len(asks) : asks[i].id \in Nat /\ asks[i].id <= s /\ i \in Nat /\ i <= Len(asks)
  <2>1. \A i \in 1 .. Len(asks) : asks[i] \in ClientMessage
    OBVIOUS
  <2>2. \A i \in 1 .. Len(asks) : asks[i].id \in Nat
    BY <2>1, TokensTyped
  <2>3. QED BY <2>2 DEF OrderInv, AsksInOrder
<1>a. Len(asks) \in Nat
  OBVIOUS
<1> HIDE DEF asks2
<1>3. \A i \in 1 .. Len(asks2) : asks2[i].id <= s + 1
  BY <1>1, <1>2
<1>4. \A i, j \in 1 .. Len(asks2) : i < j => asks2[i].id < asks2[j].id
  <2> SUFFICES ASSUME NEW i \in 1 .. Len(asks2), NEW j \in 1 .. Len(asks2), i < j
               PROVE  asks2[i].id < asks2[j].id
    OBVIOUS
  <2>1. i \in 1 .. Len(asks) /\ asks2[i] = asks[i]
    BY <1>1, <1>2, <1>a
  <2>2. CASE j \in 1 .. Len(asks) /\ asks2[j] = asks[j]
    BY <2>1, <2>2 DEF OrderInv, AsksInOrder
  <2>3. CASE asks2[j] = ask
    BY <1>2, <2>1, <2>3
  <2>4. QED BY <1>1, <2>2, <2>3
<1>5. \A i \in 1 .. Len(asks2) : UpdatesBelow(msgs, lines, asks2[i].id)
  BY <1>1 DEF OrderInv
<1>6. UpdatesBelow(msgs, lines, s + 1 + 1)
  <2>1. UpdatesBelow(msgs, lines, s + 1)
    BY DEF OrderInv
  <2>2. /\ \A j \in 1 .. Len(msgs) : msgs[j].id \in Nat
        /\ \A j \in 1 .. Len(lines) : lines[j].id \in Nat
    <3>1. \A j \in 1 .. Len(msgs) : msgs[j] \in AgentMessage
      OBVIOUS
    <3>2. \A j \in 1 .. Len(lines) : lines[j] \in Line
      OBVIOUS
    <3>3. \A m \in AgentMessage : m.id \in Nat
      BY DEF AgentMessage, Req
    <3>4. QED BY <3>1, <3>2, <3>3, TokensTyped
  <2>3. QED BY <2>1, <2>2 DEF UpdatesBelow
<1>7. QED BY <1>3, <1>4, <1>5, <1>6 DEF OrderInv, AsksInOrder, asks2

(* A message to the agent that is no update, or a newer one.               *)
LEMMA SendOrdered ==
  ASSUME NEW asks, NEW msgs \in Seq(AgentMessage), NEW lines,
         NEW s, NEW e, OrderInv(asks, msgs, lines, s, e), NEW msg \in AgentMessage,
         msg.kind = "memory" =>
           /\ msg.id < s + 1 /\ msg.epoch <= e
           /\ \A i \in 1 .. Len(asks) : msg.id < asks[i].id
           /\ UpdatesBelow(msgs, lines, msg.id),
         \A i \in 1 .. Len(lines) : lines[i].id \in Nat
  PROVE  OrderInv(asks, Append(msgs, msg), lines, s, e)
<1> DEFINE msgs2 == Append(msgs, msg)
<1>1. \A i \in 1 .. Len(msgs2) : /\ \/ i \in 1 .. Len(msgs) /\ msgs2[i] = msgs[i] /\ i <= Len(msgs)
                                    \/ i = Len(msgs) + 1 /\ msgs2[i] = msg
                                 /\ i \in Nat
  OBVIOUS
<1>2. Len(msgs) \in Nat /\ msg.id \in Nat
  BY DEF AgentMessage, Req
<1> HIDE DEF msgs2
<1>3. ASSUME NEW x, UpdatesBelow(msgs, lines, x), msg.kind = "memory" => msg.id < x
      PROVE  UpdatesBelow(msgs2, lines, x)
  BY <1>1, <1>3 DEF UpdatesBelow
<1>4. \A i \in 1 .. Len(asks) : UpdatesBelow(msgs2, lines, asks[i].id)
  BY <1>3 DEF OrderInv
<1>5. UpdatesBelow(msgs2, lines, s + 1)
  BY <1>3 DEF OrderInv
<1>6. UpdatesUntil(msgs2, lines, e)
  BY <1>1 DEF OrderInv, UpdatesUntil
<1>7. MessagesInOrder(msgs2)
  <2> SUFFICES ASSUME NEW i \in 1 .. Len(msgs2), NEW j \in 1 .. Len(msgs2), i < j,
                      msgs2[i].kind = "memory", msgs2[j].kind = "memory"
               PROVE  msgs2[i].id < msgs2[j].id
    BY DEF MessagesInOrder
  <2>1. i \in 1 .. Len(msgs) /\ msgs2[i] = msgs[i]
    BY <1>1, <1>2
  <2>2. QED BY <1>1, <2>1 DEF OrderInv, MessagesInOrder, UpdatesBelow
<1>8. LinesBeforeMessages(msgs2, lines)
  <2> SUFFICES ASSUME NEW i \in 1 .. Len(lines), NEW j \in 1 .. Len(msgs2)
               PROVE  FollowsMessage(lines[i], msgs2[j])
    BY DEF LinesBeforeMessages
  <2>1. CASE j \in 1 .. Len(msgs) /\ msgs2[j] = msgs[j]
    BY <2>1 DEF OrderInv, LinesBeforeMessages
  <2>2. CASE msgs2[j] = msg
    <3>1. lines[i].silent /\ msg.kind = "memory" => lines[i].id < msg.id
      BY DEF UpdatesBelow
    <3>2. lines[i].id \in Nat
      OBVIOUS
    <3>3. QED BY <1>2, <2>2, <3>1, <3>2 DEF FollowsMessage
  <2>3. QED BY <1>1, <2>1, <2>2
<1>9. QED BY <1>4, <1>5, <1>6, <1>7, <1>8 DEF OrderInv, msgs2

(* A line the agent writes that is no update's, or follows the others.     *)
LEMMA WriteOrdered ==
  ASSUME NEW asks, NEW msgs, NEW lines \in Seq(Line),
         NEW s, NEW e, OrderInv(asks, msgs, lines, s, e), NEW line \in Line,
         line.silent =>
           /\ line.id < s + 1 /\ line.epoch <= e
           /\ \A i \in 1 .. Len(asks) : line.id < asks[i].id,
         \A i \in 1 .. Len(lines) : Follows(lines[i], line),
         \A j \in 1 .. Len(msgs) : FollowsMessage(line, msgs[j])
  PROVE  OrderInv(asks, msgs, Append(lines, line), s, e)
<1> DEFINE lines2 == Append(lines, line)
<1>1. \A i \in 1 .. Len(lines2) : /\ \/ i \in 1 .. Len(lines) /\ lines2[i] = lines[i] /\ i <= Len(lines)
                                     \/ i = Len(lines) + 1 /\ lines2[i] = line
                                  /\ i \in Nat
  OBVIOUS
<1>2. Len(lines) \in Nat
  OBVIOUS
<1> HIDE DEF lines2
<1>3. ASSUME NEW x, UpdatesBelow(msgs, lines, x), line.silent => line.id < x
      PROVE  UpdatesBelow(msgs, lines2, x)
  BY <1>1, <1>3 DEF UpdatesBelow
<1>4. \A i \in 1 .. Len(asks) : UpdatesBelow(msgs, lines2, asks[i].id)
  BY <1>3 DEF OrderInv
<1>5. UpdatesBelow(msgs, lines2, s + 1)
  BY <1>3 DEF OrderInv
<1>6. UpdatesUntil(msgs, lines2, e)
  BY <1>1 DEF OrderInv, UpdatesUntil
<1>7. LinesInOrder(lines2)
  <2> SUFFICES ASSUME NEW i \in 1 .. Len(lines2), NEW j \in 1 .. Len(lines2), i < j
               PROVE  Follows(lines2[i], lines2[j])
    BY DEF LinesInOrder
  <2>1. i \in 1 .. Len(lines) /\ lines2[i] = lines[i]
    BY <1>1, <1>2
  <2>2. QED BY <1>1, <2>1 DEF OrderInv, LinesInOrder
<1>8. LinesBeforeMessages(msgs, lines2)
  BY <1>1 DEF OrderInv, LinesBeforeMessages
<1>9. QED BY <1>4, <1>5, <1>6, <1>7, <1>8 DEF OrderInv, lines2

-----------------------------------------------------------------------------
(* What is typed, said of the elements.                                    *)
LEMMA Numbers ==
  ASSUME TypeOK
  PROVE  /\ toBridge \in Seq(ClientMessage) /\ stdin \in Seq(AgentMessage) /\ rx \in Seq(Line)
         /\ \A i \in 1 .. Len(toBridge) : toBridge[i].id \in Nat
         /\ \A i \in 1 .. Len(stdin) : stdin[i].id \in Nat /\ stdin[i].epoch \in Nat
         /\ \A i \in 1 .. Len(rx) : rx[i].id \in Nat /\ rx[i].epoch \in Nat
         /\ toBridge # <<>> => /\ Head(toBridge) = toBridge[1] /\ 1 \in 1 .. Len(toBridge)
                               /\ Head(toBridge).id \in Nat \ {0}
         /\ stdin # <<>> => Head(stdin) = stdin[1] /\ 1 \in 1 .. Len(stdin)
         /\ rx # <<>> => Head(rx) = rx[1] /\ 1 \in 1 .. Len(rx)
         /\ sent \in Nat /\ epoch \in Nat /\ suppress \in Nat
<1> USE SessionAssumption
<1>1. toBridge \in Seq(ClientMessage) /\ stdin \in Seq(AgentMessage) /\ rx \in Seq(Line)
      /\ sent \in Nat /\ epoch \in Nat /\ suppress \in Nat
  BY DEF TypeOK
<1>2. /\ \A m \in AgentMessage : m.id \in Nat /\ m.epoch \in Nat
      /\ \A l \in Line : l.id \in Nat /\ l.epoch \in Nat
      /\ \A m \in ClientMessage : m.id \in Nat \ {0}
  BY DEF AgentMessage, Line, ClientMessage, Req
<1>3. /\ \A i \in 1 .. Len(toBridge) : toBridge[i] \in ClientMessage
      /\ \A i \in 1 .. Len(stdin) : stdin[i] \in AgentMessage
      /\ \A i \in 1 .. Len(rx) : rx[i] \in Line
  BY <1>1
<1>4. /\ toBridge # <<>> => Head(toBridge) = toBridge[1] /\ 1 \in 1 .. Len(toBridge)
      /\ stdin # <<>> => Head(stdin) = stdin[1] /\ 1 \in 1 .. Len(stdin)
      /\ rx # <<>> => Head(rx) = rx[1] /\ 1 \in 1 .. Len(rx)
  BY <1>1
<1>5. /\ \A i \in 1 .. Len(toBridge) : toBridge[i].id \in Nat \ {0}
      /\ \A i \in 1 .. Len(stdin) : stdin[i].id \in Nat /\ stdin[i].epoch \in Nat
      /\ \A i \in 1 .. Len(rx) : rx[i].id \in Nat /\ rx[i].epoch \in Nat
  BY <1>2, <1>3
<1>6. QED BY <1>1, <1>4, <1>5

(* A step that only takes from the queues.                                 *)
LEMMA SilentLost ==
  ASSUME TypeOK, SilentInv, UNCHANGED <<sent, epoch, suppress>>,
         NEW b \in Nat, NEW c \in Nat, NEW d \in Nat,
         Rest(toBridge', toBridge, b), Rest(stdin', stdin, c), Rest(rx', rx, d),
         conn' = "none" <=> conn = "none", toBridge' = toBridge \/ conn' # "none",
         appending' = "armed" => appending = "armed" /\ toBridge' = toBridge
  PROVE  SilentInv'
<1>1. OrderInv(toBridge, stdin, rx, sent, epoch)'
  BY RestOrdered DEF SilentInv
<1>2. suppress # 0 => UpdatesBelow(stdin', rx', suppress + 1)
  BY RestBelow DEF SilentInv, ArmedInv
<1>3. conn # "none" /\ suppress = 0 => UpdatesUntil(stdin', rx', epoch - 1)
  BY RestBelow DEF SilentInv, ArmedInv
<1>4. ArmedInv'
  BY <1>2, <1>3 DEF SilentInv, ArmedInv
<1>5. QED BY <1>1, <1>4 DEF SilentInv

LEMMA SilentClient ==
  ASSUME TypeOK, AppendInHand, SilentInv, Client
  PROVE  SilentInv'
<1>1. PICK kind \in {"init", "new", "load", "prompt", "append"} : ClientSends(kind)
  BY DEF Client
<1> DEFINE ask == [kind |-> kind, id |-> sent + 1]
<1>2. /\ toBridge' = Append(toBridge, ask) /\ sent' = sent + 1 /\ conn # "none"
      /\ UNCHANGED <<stdin, rx, epoch, suppress, conn, appending>>
  BY <1>1 DEF ClientSends, connVars, agentVars, task1Vars
<1>3. ask \in ClientMessage /\ ask.id = sent + 1
  BY <1>1, SessionAssumption DEF ClientMessage, Req, TypeOK, ClientSends
<1> HIDE DEF ask
<1>4. OrderInv(toBridge, stdin, rx, sent, epoch)'
  BY <1>2, <1>3, Numbers, AskOrdered DEF SilentInv
<1>5. toBridge # <<>> => Head(toBridge') = Head(toBridge)
  BY <1>2, <1>3, Numbers
<1>6. ArmedInv'
  BY <1>2, <1>5 DEF SilentInv, ArmedInv, AppendInHand
<1>7. QED BY <1>4, <1>6 DEF SilentInv

LEMMA SilentConnection ==
  ASSUME IInv, SilentInv, Connect \/ Disconnect \/ Leave \/ AgentDies
  PROVE  SilentInv'
<1>t. TypeOK /\ AppendInHand /\ QuietWhenGone
  BY DEF IInv
<1>1. CASE Connect
  <2>1. /\ conn = "none" /\ epoch' = epoch + 1 /\ conn' # "none"
        /\ UNCHANGED <<toBridge, rx, sent, suppress, appending>> /\ (stdin' = stdin \/ stdin' = <<>>)
    BY <1>1 DEF Connect, task1Vars, agentVars
  <2>2. Rest(toBridge', toBridge, 0) /\ Rest(stdin', stdin, 0) /\ Rest(rx', rx, 0)
    BY <1>t, <2>1, Numbers, RestIs
  <2>3. OrderInv(toBridge', stdin', rx', sent, epoch)
    BY <2>2, RestOrdered DEF SilentInv
  <2>4. UpdatesUntil(stdin', rx', epoch)
    BY <2>3 DEF OrderInv
  <2>5. UpdatesUntil(stdin', rx', epoch + 1)
    <3>1. /\ \A j \in 1 .. Len(stdin') : stdin'[j].epoch \in Nat
          /\ \A j \in 1 .. Len(rx') : rx'[j].epoch \in Nat
          /\ epoch \in Nat
      BY <1>t, <2>1, Numbers
    <3>2. QED BY <2>4, <3>1 DEF UpdatesUntil
  <2>6. OrderInv(toBridge, stdin, rx, sent, epoch)'
    BY <2>1, <2>3, <2>5 DEF OrderInv
  <2>7. epoch' - 1 = epoch
    BY <1>t, <2>1, Numbers
  <2>8. suppress' = 0 /\ appending' # "armed"
    BY <1>t, <2>1 DEF SilentInv, ArmedInv, AppendInHand
  <2>9. QED BY <2>1, <2>4, <2>6, <2>7, <2>8 DEF SilentInv, ArmedInv
<1>2. CASE Disconnect \/ Leave
  <2>1. /\ conn' = "none" /\ toBridge' = <<>> /\ rx' = <<>> /\ suppress' = 0 /\ appending' = "no"
        /\ UNCHANGED <<stdin, sent, epoch>>
    BY <1>2 DEF Disconnect, Leave, ConnectionGone, agentVars
  <2>2. Rest(toBridge', toBridge, 0) /\ Rest(stdin', stdin, 0) /\ Rest(rx', rx, 0)
    BY <1>t, <2>1, Numbers, RestIs
  <2>3. OrderInv(toBridge, stdin, rx, sent, epoch)'
    BY <2>1, <2>2, RestOrdered DEF SilentInv
  <2>4. QED BY <2>1, <2>3 DEF SilentInv, ArmedInv
<1>3. CASE AgentDies
  <2>1. UNCHANGED <<toBridge, rx, sent, epoch, suppress, conn, appending>> /\ stdin' = <<>>
    BY <1>3 DEF AgentDies, clientVars, connVars, task1Vars
  <2>2. Rest(toBridge', toBridge, 0) /\ Rest(stdin', stdin, 0) /\ Rest(rx', rx, 0)
    BY <1>t, <2>1, Numbers, RestIs
  <2>3. QED BY <1>t, <2>1, <2>2, SilentLost
<1>4. QED BY <1>1, <1>2, <1>3

LEMMA SilentIntercept ==
  ASSUME TypeOK, AppendInHand, SilentInv, Intercept
  PROVE  SilentInv'
<1>1. /\ UNCHANGED <<stdin, rx, sent, epoch, suppress, appending>>
      /\ conn \in {"init", "session", "replay"} /\ conn' # "none"
      /\ toBridge' = toBridge \/ (toBridge # <<>> /\ toBridge' = Tail(toBridge))
  <2>1. CASE InterceptInit
    BY <2>1 DEF InterceptInit, Deliver, AfterInit, clientVars, task1Vars, agentVars
  <2>2. CASE InterceptSession
    BY <2>2 DEF InterceptSession, Deliver, clientVars, agentVars
  <2>3. CASE InterceptTimeout
    BY <2>3 DEF InterceptTimeout, AfterInit, clientVars, agentVars
  <2>4. CASE ReplayLine
    <3>1. conn = "replay" /\ UNCHANGED <<conn, stdin, rx, sent, epoch, suppress, appending, toBridge>>
      BY <2>4 DEF ReplayLine, Deliver, connVars, task1Vars, agentVars
    <3>2. QED BY <3>1
  <2>5. CASE ReplayComplete
    <3>1. /\ conn = "replay" /\ conn' = "live"
          /\ UNCHANGED <<stdin, rx, sent, epoch, suppress, appending, toBridge>>
      BY <2>5 DEF ReplayComplete, clientVars, task1Vars, agentVars
    <3>2. QED BY <3>1
  <2>6. QED BY <2>1, <2>2, <2>3, <2>4, <2>5 DEF Intercept
<1>2. appending # "armed"
  BY <1>1 DEF AppendInHand
<1>3. /\ Rest(toBridge', toBridge, 0) \/ Rest(toBridge', toBridge, 1)
      /\ Rest(stdin', stdin, 0) /\ Rest(rx', rx, 0)
  BY <1>1, Numbers, RestIs
<1>4. QED BY <1>1, <1>2, <1>3, SilentLost

LEMMA SilentTask1 ==
  ASSUME TypeOK, AppendInHand, SilentInv, Task1
  PROVE  SilentInv'
<1>1. ASSUME UNCHANGED <<stdin, rx, sent, epoch, suppress, conn>>, conn = "live",
             appending' # "armed",
             toBridge' = toBridge \/ (toBridge # <<>> /\ toBridge' = Tail(toBridge))
      PROVE  SilentInv'
  <2>1. /\ Rest(toBridge', toBridge, 0) \/ Rest(toBridge', toBridge, 1)
        /\ Rest(stdin', stdin, 0) /\ Rest(rx', rx, 0)
    BY <1>1, Numbers, RestIs
  <2>2. QED BY <1>1, <2>1, SilentLost
<1>2. CASE RefuseLoad \/ RefuseAppend \/ AppendFile
  <2>1. CASE RefuseLoad
    BY <1>1, <2>1 DEF RefuseLoad, Task1Ready, NextMessage, NotForwarded, clientVars, connVars, task1Vars
  <2>2. CASE RefuseAppend
    BY <1>1, <2>2 DEF RefuseAppend, Task1Ready, NextMessage, clientVars, connVars, task1Vars, agentVars
  <2>3. CASE AppendFile
    <3>1. /\ UNCHANGED <<stdin, rx, sent, epoch, suppress, conn>> /\ conn = "live" /\ toBridge # <<>>
          /\ appending = "no"
      BY <2>3 DEF AppendFile, Task1Ready, NextMessage, clientVars, connVars, agentVars
    <3>2. \/ appending' = "written" /\ toBridge' = toBridge
          \/ appending' = appending /\ toBridge' = Tail(toBridge)
      BY <2>3 DEF AppendFile
    <3>3. QED BY <1>1, <3>1, <3>2
  <2>4. QED BY <1>2, <2>1, <2>2, <2>3
<1>3. ASSUME UNCHANGED <<rx, sent, epoch, suppress, conn>>, conn = "live", appending' # "armed",
             toBridge # <<>>, toBridge' = Tail(toBridge),
             NEW msg \in AgentMessage, stdin' = Append(stdin, msg),
             msg.kind = "memory" => /\ suppress = msg.id /\ msg.id = toBridge[1].id
                                    /\ msg.epoch = epoch
      PROVE  SilentInv'
  <2>1. Rest(toBridge', toBridge, 1) /\ Rest(stdin, stdin, 0) /\ Rest(rx, rx, 0)
    BY <1>3, Numbers, RestIs
  <2>2. OrderInv(toBridge', stdin, rx, sent, epoch)
    BY <2>1, RestOrdered DEF SilentInv
  <2>3. 1 \in 1 .. Len(toBridge) /\ toBridge[1].id \in Nat /\ sent \in Nat /\ epoch \in Nat
    BY <1>3, Numbers
  <2>4. /\ toBridge[1].id <= sent /\ UpdatesBelow(stdin, rx, toBridge[1].id)
        /\ \A i, j \in 1 .. Len(toBridge) : i < j => toBridge[i].id < toBridge[j].id
    BY <2>3 DEF SilentInv, OrderInv, AsksInOrder
  <2>5. \A i \in 1 .. Len(toBridge') : toBridge[1].id < toBridge'[i].id
    <3> SUFFICES ASSUME NEW i \in 1 .. Len(toBridge') PROVE toBridge[1].id < toBridge'[i].id
      OBVIOUS
    <3>1. i + 1 \in 1 .. Len(toBridge) /\ toBridge'[i] = toBridge[i + 1] /\ 1 < i + 1
      BY <2>1 DEF Rest
    <3>2. QED BY <2>3, <2>4, <3>1
  <2>6. msg.kind = "memory" =>
           /\ msg.id < sent + 1 /\ msg.epoch <= epoch
           /\ \A i \in 1 .. Len(toBridge') : msg.id < toBridge'[i].id
           /\ UpdatesBelow(stdin, rx, msg.id)
    BY <1>3, <2>3, <2>4, <2>5
  <2>7. OrderInv(toBridge', stdin', rx, sent, epoch)
    BY <1>3, <2>2, <2>6, Numbers, SendOrdered
  <2>8. \A i \in 1 .. Len(stdin') : \/ i \in 1 .. Len(stdin) /\ stdin'[i] = stdin[i]
                                    \/ stdin'[i] = msg
    BY <1>3, Numbers
  <2>9. suppress # 0 => UpdatesBelow(stdin', rx, suppress + 1)
    <3>1. msg.kind = "memory" => msg.id < suppress + 1
      BY <1>3, <2>3
    <3>2. suppress # 0 => UpdatesBelow(stdin, rx, suppress + 1)
      BY DEF SilentInv, ArmedInv
    <3>3. QED BY <2>8, <3>1, <3>2 DEF UpdatesBelow
  <2>10. suppress = 0 => UpdatesUntil(stdin', rx, epoch - 1)
    <3>1. suppress = 0 => msg.kind # "memory"
      BY <1>3, Numbers
    <3>2. suppress = 0 => UpdatesUntil(stdin, rx, epoch - 1)
      BY <1>3 DEF SilentInv, ArmedInv
    <3>3. QED BY <2>8, <3>1, <3>2 DEF UpdatesUntil
  <2>11. QED BY <1>3, <2>7, <2>9, <2>10 DEF SilentInv, ArmedInv
<1>4. CASE Forward
  <2> DEFINE head == Head(toBridge)
             memory == IF head.kind = "prompt" /\ ~injected THEN file ELSE {}
             msg == Message(head.kind, head.id, memory)
  <2>1. /\ toBridge # <<>> /\ toBridge' = Tail(toBridge) /\ conn = "live" /\ appending' # "armed"
        /\ UNCHANGED <<rx, sent, epoch, suppress, conn>> /\ SendToAgent(msg)
        /\ head.kind \in {"init", "new", "load", "prompt"}
    BY <1>4 DEF Forward, Task1Ready, NextMessage, clientVars, connVars
  <2>2. memory \in SUBSET Req /\ epoch \in Nat /\ head.id \in Req
    BY <2>1, QueueTypes DEF TypeOK, ClientMessage
  <2>3. msg \in AgentMessage /\ msg.kind # "memory"
    BY <2>1, <2>2, MessageTyped DEF Message
  <2> HIDE DEF msg
  <2>4. QED BY <1>1, <1>3, <2>1, <2>3 DEF SendToAgent
<1>8. CASE ReadNothing
  <2>1. /\ UNCHANGED <<stdin, rx, sent, epoch, suppress, conn>> /\ conn = "live" /\ appending' = "no"
        /\ toBridge # <<>> /\ toBridge' = Tail(toBridge)
    BY <1>8 DEF ReadNothing, AppendInHand, clientVars, connVars, agentVars
  <2>2. QED BY <1>1, <2>1
<1>5. CASE ReadAndArm
  <2>1. /\ toBridge # <<>> /\ conn = "live" /\ suppress' = Head(toBridge).id
        /\ UNCHANGED <<toBridge, stdin, rx, sent, epoch, conn>>
    BY <1>5 DEF ReadAndArm, Armed, AppendInHand, clientVars, connVars, agentVars
  <2>2. Head(toBridge) = toBridge[1] /\ 1 \in 1 .. Len(toBridge) /\ Head(toBridge).id \in Nat \ {0}
    BY <2>1, Numbers
  <2>3. UpdatesBelow(stdin, rx, suppress')
    BY <2>1, <2>2 DEF SilentInv, OrderInv
  <2>4. UpdatesBelow(stdin, rx, suppress' + 1)
    <3>1. /\ \A j \in 1 .. Len(stdin) : stdin[j].id \in Nat
          /\ \A j \in 1 .. Len(rx) : rx[j].id \in Nat
          /\ suppress' \in Nat
      BY <2>1, <2>2, Numbers
    <3>2. QED BY <2>3, <3>1 DEF UpdatesBelow
  <2>5. QED BY <2>1, <2>2, <2>4 DEF SilentInv, ArmedInv
<1>6. CASE SendUpdate
  <2> DEFINE msg == Message("memory", Head(toBridge).id, update)
  <2>1. /\ toBridge # <<>> /\ toBridge' = Tail(toBridge) /\ conn = "live" /\ appending' # "armed"
        /\ UNCHANGED <<rx, sent, epoch, suppress, conn>> /\ SendToAgent(msg)
        /\ suppress = Head(toBridge).id
    BY <1>6 DEF SendUpdate, AppendInHand, SilentInv, ArmedInv, clientVars, connVars
  <2>2. msg \in AgentMessage /\ msg.id = toBridge[1].id /\ msg.epoch = epoch
    <3>1. Head(toBridge).id \in Req /\ update \in SUBSET Req /\ epoch \in Nat
      BY <2>1, QueueTypes DEF TypeOK, ClientMessage
    <3>2. QED BY <2>1, <3>1, MessageTyped, Numbers DEF Message
  <2>3. suppress = msg.id
    BY <2>1 DEF Message
  <2> HIDE DEF msg
  <2>4. QED BY <1>1, <1>3, <2>1, <2>2, <2>3 DEF SendToAgent
<1>7. QED BY <1>2, <1>4, <1>5, <1>6, <1>8 DEF Task1

LEMMA SilentTask2 ==
  ASSUME TypeOK, AppendInHand, SilentInv, Task2
  PROVE  SilentInv'
<1>1. /\ UNCHANGED <<toBridge, stdin, sent, epoch, conn, appending>> /\ conn = "live"
      /\ rx' = rx \/ (rx # <<>> /\ rx' = Tail(rx))
  <2>1. CASE ForwardLine
    BY <2>1 DEF ForwardLine, Task2Ready, Deliver, connVars, task1Vars, agentVars
  <2>2. CASE DropLine
    BY <2>2 DEF DropLine, Task2Ready, clientVars, connVars, task1Vars, agentVars
  <2>3. CASE ForwardInjected
    <3>1. conn = "live" /\ UNCHANGED <<conn, stdin, rx, sent, epoch, appending, toBridge>>
      BY <2>3 DEF ForwardInjected, Deliver, connVars, task1Vars, agentVars
    <3>2. QED BY <3>1
  <2>4. QED BY <2>1, <2>2, <2>3 DEF Task2
<1>2. /\ Rest(toBridge', toBridge, 0) /\ Rest(stdin', stdin, 0)
      /\ Rest(rx', rx, 0) \/ Rest(rx', rx, 1)
  BY <1>1, Numbers, RestIs
<1>3. CASE suppress' = suppress
  BY <1>1, <1>2, <1>3, SilentLost
<1>4. CASE suppress' # suppress
  <2>1. /\ rx # <<>> /\ rx' = Tail(rx) /\ suppress # 0 /\ suppress' = 0
        /\ Head(rx).kind = "final" /\ Head(rx).silent /\ Head(rx).id = suppress
    BY <1>4 DEF Task2, ForwardLine, DropLine, ForwardInjected, Task2Ready, IsFinal, StillArmed
  <2>2. /\ 1 \in 1 .. Len(rx) /\ rx[1].kind = "final" /\ rx[1].silent /\ rx[1].id = suppress
        /\ suppress \in Nat /\ Rest(rx', rx, 1)
    BY <2>1, Numbers, RestIs
  <2>3. OrderInv(toBridge, stdin, rx, sent, epoch)'
    BY <1>1, <1>2, RestOrdered DEF SilentInv
  <2>4. appending # "armed"
    <3>1. toBridge # <<>> => UpdatesBelow(stdin, rx, Head(toBridge).id)
      BY Numbers DEF SilentInv, OrderInv
    <3>2. toBridge # <<>> => suppress # Head(toBridge).id
      BY <2>2, <3>1, Numbers DEF UpdatesBelow
    <3>3. QED BY <3>2 DEF AppendInHand, SilentInv, ArmedInv
  <2>5. \A j \in 1 .. Len(stdin) : stdin[j].kind # "memory"
    <3> SUFFICES ASSUME NEW j \in 1 .. Len(stdin), stdin[j].kind = "memory" PROVE FALSE
      OBVIOUS
    <3>1. FollowsMessage(rx[1], stdin[j]) /\ stdin[j].id < suppress + 1
      BY <2>1, <2>2 DEF SilentInv, OrderInv, ArmedInv, LinesBeforeMessages, UpdatesBelow
    <3>2. suppress < stdin[j].id /\ stdin[j].id \in Nat
      BY <2>2, <3>1, Numbers DEF FollowsMessage
    <3>3. QED BY <2>2, <3>1, <3>2
  <2>6. \A j \in 1 .. Len(rx') : ~rx'[j].silent
    <3> SUFFICES ASSUME NEW j \in 1 .. Len(rx'), rx'[j].silent PROVE FALSE
      OBVIOUS
    <3>1. j + 1 \in 1 .. Len(rx) /\ rx'[j] = rx[j + 1] /\ 1 < j + 1
      BY <2>2 DEF Rest
    <3>2. Follows(rx[1], rx[j + 1]) /\ rx[j + 1].id < suppress + 1
      BY <2>1, <2>2, <3>1 DEF SilentInv, OrderInv, ArmedInv, LinesInOrder, UpdatesBelow
    <3>3. suppress < rx[j + 1].id /\ rx[j + 1].id \in Nat
      BY <2>2, <3>1, <3>2, Numbers DEF Follows
    <3>4. QED BY <2>2, <3>2, <3>3
  <2>7. UpdatesUntil(stdin', rx', epoch' - 1)
    BY <1>1, <2>5, <2>6 DEF UpdatesUntil
  <2>8. QED BY <1>1, <2>1, <2>3, <2>4, <2>7 DEF SilentInv, ArmedInv
<1>5. QED BY <1>3, <1>4

(* What the agent writes for its first message.                            *)
LEMMA SilentWrite ==
  ASSUME TypeOK, SilentInv, stdin # <<>>, NEW line \in Line, Write(line),
         NEW c \in {0, 1}, Rest(stdin', stdin, c), c = 0 => line.kind # "final",
         line.silent = (stdin[1].kind = "memory"), line.id = stdin[1].id,
         line.epoch = stdin[1].epoch,
         UNCHANGED <<toBridge, sent, epoch, conn, suppress, appending>>
  PROVE  SilentInv'
<1>1. /\ Rest(toBridge', toBridge, 0) /\ Rest(rx, rx, 0) /\ rx \in Seq(Line)
      /\ 1 \in 1 .. Len(stdin) /\ c \in Nat /\ stdin[1].id \in Nat /\ stdin[1].epoch \in Nat
      /\ epoch \in Nat /\ suppress \in Nat
  BY Numbers, RestIs
<1>2. CASE rx' = rx
  BY <1>1, <1>2, SilentLost
<1>3. CASE rx' = Push(rx, line)
  <2> DEFINE q == IF Len(rx) >= RxCap THEN Tail(rx) ELSE rx
  <2>p. PICK d \in {0, 1} : q \in Seq(Line) /\ Rest(q, rx, d)
    <3>1. CASE Len(rx) >= RxCap
      <4>1. rx # <<>>
        BY <1>1, <3>1, SessionAssumption
      <4>2. q = Tail(rx) /\ q \in Seq(Line)
        BY <1>1, <3>1, <4>1
      <4>3. Rest(q, rx, 1)
        BY <1>1, <4>1, <4>2, RestIs
      <4>4. QED BY <4>2, <4>3
    <3>2. CASE ~(Len(rx) >= RxCap)
      BY <1>1, <3>2
    <3>3. QED BY <3>1, <3>2
  <2>q. rx' = Append(q, line)
    BY <1>3 DEF Push
  <2> HIDE DEF q
  <2>1. OrderInv(toBridge', stdin', q, sent, epoch)
    BY <1>1, <2>p, RestOrdered DEF SilentInv
  <2>o. OrderInv(toBridge, stdin, rx, sent, epoch) /\ ArmedInv
    BY DEF SilentInv
  <2>2. line.silent =>
          /\ line.id < sent + 1 /\ line.epoch <= epoch
          /\ \A i \in 1 .. Len(toBridge') : line.id < toBridge'[i].id
    BY <1>1, <2>o DEF OrderInv, UpdatesBelow, UpdatesUntil
  <2>3. \A i \in 1 .. Len(q) : Follows(q[i], line)
    <3>1. \A i \in 1 .. Len(rx) : FollowsMessage(rx[i], stdin[1])
      BY <1>1, <2>o DEF OrderInv, LinesBeforeMessages
    <3>2. \A i \in 1 .. Len(q) : FollowsMessage(q[i], stdin[1])
      BY <2>p, <3>1 DEF Rest
    <3>3. QED BY <3>2 DEF Follows, FollowsMessage
  <2>4. ASSUME NEW j \in 1 .. Len(stdin') PROVE FollowsMessage(line, stdin'[j])
    <3>1. j + c \in 1 .. Len(stdin) /\ stdin'[j] = stdin[j + c] /\ j \in Nat /\ j > 0
      BY DEF Rest
    <3>2. \A i, k \in 1 .. Len(stdin) :
            i < k /\ stdin[i].kind = "memory" /\ stdin[k].kind = "memory" => stdin[i].id < stdin[k].id
      BY <2>o DEF OrderInv, MessagesInOrder
    <3>3. CASE j + c = 1
      <4>1. c = 0 /\ stdin'[j] = stdin[1]
        BY <3>1, <3>3
      <4>2. QED BY <1>1, <4>1 DEF FollowsMessage
    <3>4. CASE j + c # 1
      <4>1. 1 < j + c
        BY <3>1, <3>4
      <4>2. stdin[1].kind = "memory" /\ stdin'[j].kind = "memory" => stdin[1].id < stdin'[j].id
        BY <1>1, <3>1, <3>2, <4>1
      <4>3. stdin'[j].id \in Nat
        BY <3>1, Numbers
      <4>4. line.silent /\ stdin'[j].kind = "memory" => line.id < stdin'[j].id /\ line.id <= stdin'[j].id
        <5>1. line.silent => stdin[1].kind = "memory"
          OBVIOUS
        <5>2. line.id = stdin[1].id /\ stdin[1].id \in Nat
          BY <1>1
        <5>3. QED BY <4>2, <4>3, <5>1, <5>2
      <4>5. QED BY <4>4 DEF FollowsMessage
    <3>5. QED BY <3>3, <3>4
  <2>5. OrderInv(toBridge', stdin', rx', sent, epoch)
    BY <1>1, <2>p, <2>q, <2>1, <2>2, <2>3, <2>4, WriteOrdered
  <2>6. \A i \in 1 .. Len(rx') : \/ i \in 1 .. Len(q) /\ rx'[i] = q[i]
                                 \/ rx'[i] = line
    BY <2>p, <2>q
  <2>7. ASSUME NEW x, UpdatesBelow(stdin, rx, x) PROVE UpdatesBelow(stdin', rx', x)
    <3>1. UpdatesBelow(stdin', q, x)
      BY <1>1, <2>p, <2>7, RestBelow
    <3>2. line.silent => line.id < x
      BY <1>1, <2>7 DEF UpdatesBelow
    <3>3. QED BY <2>6, <3>1, <3>2 DEF UpdatesBelow
  <2>8. ASSUME NEW x, UpdatesUntil(stdin, rx, x) PROVE UpdatesUntil(stdin', rx', x)
    <3>1. UpdatesUntil(stdin', q, x)
      BY <1>1, <2>p, <2>8, RestBelow
    <3>2. line.silent => line.epoch <= x
      BY <1>1, <2>8 DEF UpdatesUntil
    <3>3. QED BY <2>6, <3>1, <3>2 DEF UpdatesUntil
  <2>9. ArmedInv'
    BY <2>o, <2>7, <2>8 DEF ArmedInv
  <2>10. QED BY <2>5, <2>9 DEF SilentInv
<1>4. QED BY <1>2, <1>3 DEF Write

LEMMA SilentAgent ==
  ASSUME TypeOK, SilentInv, AgentStreams \/ AgentAnswers
  PROVE  SilentInv'
<1> DEFINE msg == Head(stdin)
<1>0. /\ stdin # <<>> /\ msg = stdin[1] /\ msg \in AgentMessage
      /\ UNCHANGED <<toBridge, sent, epoch, conn, suppress, appending>>
  BY QueueTypes, Numbers DEF AgentStreams, AgentAnswers, clientVars, connVars, task1Vars
<1>1. CASE AgentStreams
  <2> DEFINE text == IF msg.kind = "memory" THEN msg.text ELSE {}
             line == LineOf("update", msg, text)
  <2>1. text \in SUBSET Req
    BY <1>0 DEF AgentMessage
  <2>2. /\ line \in Line /\ line.silent = (msg.kind = "memory") /\ line.id = msg.id
        /\ line.epoch = msg.epoch /\ line.kind # "final"
    BY <1>0, <2>1, LineOfIsLine DEF LineOf
  <2>3. Write(line) /\ stdin' = stdin
    BY <1>1 DEF AgentStreams
  <2> HIDE DEF line
  <2>4. Rest(stdin', stdin, 0)
    BY <2>3, Numbers, RestIs
  <2>5. QED BY <1>0, <2>2, <2>3, <2>4, SilentWrite
<1>2. CASE AgentAnswers
  <2>1. PICK kind \in {"init", "session", "loaded", "error", "final"} : Write(LineOf(kind, msg, {}))
    BY <1>2 DEF AgentAnswers
  <2> DEFINE line == LineOf(kind, msg, {})
  <2>2. /\ line \in Line /\ line.silent = (msg.kind = "memory") /\ line.id = msg.id
        /\ line.epoch = msg.epoch
    BY <1>0, LineOfIsLine DEF LineOf
  <2>3. Write(line) /\ stdin' = Tail(stdin)
    BY <1>2, <2>1 DEF AgentAnswers
  <2> HIDE DEF line
  <2>4. Rest(stdin', stdin, 1)
    BY <1>0, <2>3, Numbers, RestIs
  <2>5. QED BY <1>0, <2>2, <2>3, <2>4, SilentWrite
<1>3. QED BY <1>1, <1>2

(* Neither the connection left behind nor the file system has a part in    *)
(* it.                                                                     *)
LEMMA SilentElsewhere ==
  ASSUME SilentInv, LeftTask2 \/ FileSystem
  PROVE  SilentInv'
<1>1. UNCHANGED <<toBridge, stdin, rx, sent, epoch, suppress, conn, appending>>
  <2>1. CASE LeftTask2
    BY <2>1 DEF LeftTask2, LeftSends, LeftFails, LeftDrops, LeftEnds, clientVars, connVars,
                task1Vars, agentVars
  <2>2. CASE FileSystem
    BY <2>2 DEF FileSystem, Rewrite, Land, Truncate, EndRewrite, clientVars, connVars, task1Vars,
                agentVars
  <2>3. QED BY <2>1, <2>2
<1>2. QED BY <1>1 DEF SilentInv, ArmedInv

LEMMA SilentStep ==
  ASSUME IInv, SilentInv, [Next]_vars
  PROVE  SilentInv'
<1>t. TypeOK /\ AppendInHand
  BY DEF IInv
<1>1. CASE UNCHANGED vars
  BY <1>1 DEF vars, clientVars, connVars, task1Vars, agentVars, SilentInv, ArmedInv
<1>2. CASE Agent
  BY <1>2, <1>t, SilentAgent, SilentConnection DEF Agent
<1>3. QED BY <1>t, <1>1, <1>2, SilentClient, SilentConnection, SilentIntercept, SilentTask1,
             SilentTask2, SilentElsewhere DEF Next

(* The output of a memory update never reaches the connection that caused  *)
(* it, for any number of overlapping updates, connections and prompts.     *)
THEOREM SilentHereKept == Spec => SilentHere
<1>1. Init => SilentInv
  <2>1. Len(<<>>) = 0 /\ 1 .. 0 = {}
    OBVIOUS
  <2>2. QED BY <2>1 DEF Init, SilentInv, ArmedInv, OrderInv, AsksInOrder, UpdatesBelow, UpdatesUntil,
                        MessagesInOrder, LinesInOrder, LinesBeforeMessages
<1>2. IInv /\ SilentInv /\ [Next]_vars => SilentInv'
  BY SilentStep
<1>3. IInv /\ SilentInv /\ [Next]_vars =>
        [ForwardLine => ~(Head(rx).silent /\ Head(rx).epoch = epoch)]_vars
  <2> SUFFICES ASSUME TypeOK, SilentInv, ForwardLine, Head(rx).silent, Head(rx).epoch = epoch
               PROVE  FALSE
    BY DEF IInv
  <2>1. conn # "none" /\ suppress = 0 /\ rx # <<>>
    BY DEF ForwardLine, Task2Ready
  <2>2. rx[1].epoch <= epoch - 1
    BY <2>1, Numbers DEF SilentInv, ArmedInv, UpdatesUntil
  <2>3. QED BY <2>1, <2>2, Numbers
<1>4. QED BY <1>1, <1>2, <1>3, SessionInvariant, PTL DEF Spec, SilentHere

================================================================================
