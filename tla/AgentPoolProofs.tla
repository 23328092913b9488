--------------------------- MODULE AgentPoolProofs ---------------------------
(***************************************************************************)
(* Theorems about AgentPool, for every value of its constants.             *)
(***************************************************************************)
EXTENDS AgentPool, FiniteSetTheorems, SequenceTheorems, TLAPS

(* A connection that is past get_or_spawn has a token and an agent, and a  *)
(* failed send left a line in hand.                                        *)
ConnInv ==
  \A c \in Conn :
    /\ phase[c] # "none" => tok[c] \in Token /\ agent[c] \in Agent
    /\ phase[c] = "failed" => held[c] \in Line

TypeInv == TypeOK /\ ConnInv

-----------------------------------------------------------------------------
(* Lemmas about the queues.                                                *)

(* A line put on a receiver keeps it within the channel's capacity.        *)
LEMMA PushInQueue ==
  ASSUME NEW q \in Queue(ChanCap), NEW line \in Line
  PROVE  Push(q, line) \in Queue(ChanCap)
<1> USE PoolAssumption
<1>1. CASE Len(q) < ChanCap
  BY <1>1 DEF Push, Queue
<1>2. CASE ~(Len(q) < ChanCap)
  <2>1. q # <<>> /\ q \in Seq(Line)
    BY <1>2 DEF Queue
  <2>2. Tail(q) \in Seq(Line) /\ Len(Tail(q)) = Len(q) - 1
    BY <2>1
  <2>3. QED BY <1>2, <2>2 DEF Push, Queue
<1>3. QED BY <1>1, <1>2

(* The tail of a queue is a queue, and its head a line.                    *)
LEMMA TailInQueue ==
  ASSUME NEW n \in Nat, NEW q \in Queue(n), q # <<>>
  PROVE  Tail(q) \in Queue(n) /\ Head(q) \in Line
<1>1. q \in Seq(Line) /\ Len(q) <= n
  BY DEF Queue
<1>2. Tail(q) \in Seq(Line) /\ Len(Tail(q)) = Len(q) - 1 /\ Head(q) \in Line
  BY <1>1
<1>3. QED BY <1>1, <1>2 DEF Queue

(* Merging the two buffers on reconnect respects max_buffer_size.          *)
LEMMA DrainedInQueue ==
  ASSUME NEW a \in Agent,
         buffer \in [Agent -> Queue(MaxBuffer)], overflow \in [Agent -> Queue(MaxBuffer)]
  PROVE  Drained(a) \in Queue(MaxBuffer)
<1> USE PoolAssumption
<1> DEFINE b == buffer[a]
           o == overflow[a]
           room == IF Len(b) < MaxBuffer THEN MaxBuffer - Len(b) ELSE 0
           n == IF Len(o) < room THEN Len(o) ELSE room
<1>1. b \in Seq(Line) /\ Len(b) \in Nat /\ Len(b) <= MaxBuffer
  BY DEF Queue
<1>2. o \in Seq(Line) /\ Len(o) \in Nat
  BY DEF Queue
<1>3. room \in Nat /\ Len(b) + room <= MaxBuffer
  BY <1>1
<1>4. n \in Nat /\ n <= Len(o) /\ n <= room
  BY <1>2, <1>3
<1> HIDE DEF n, room, b, o
<1>5. SubSeq(o, 1, n) \in Seq(Line) /\ Len(SubSeq(o, 1, n)) = n
  BY <1>2, <1>4
<1>6. b \o SubSeq(o, 1, n) \in Seq(Line) /\ Len(b \o SubSeq(o, 1, n)) = Len(b) + n
  BY <1>1, <1>5
<1>7. b \o SubSeq(o, 1, n) \in Queue(MaxBuffer)
  BY <1>1, <1>3, <1>4, <1>6 DEF Queue
<1>8. QED BY <1>7 DEF Drained, n, room, b, o

(* A line that a client receives is one more of its agent's.               *)
LEMMA ShownTyped ==
  ASSUME shown \in [Agent -> Seq(Line)], NEW line \in Line
  PROVE  ShownAlso(line) \in [Agent -> Seq(Line)]
<1>1. line[1] \in Agent
  BY DEF Line
<1>2. QED BY <1>1 DEF ShownAlso

(* What an eviction may choose are sets of other tokens of the pool.       *)
LEMMA VictimsPooled ==
  ASSUME NEW t \in Token, NEW victims \in Victims(t)
  PROVE  /\ victims \subseteq Pooled \ {t}
         /\ \A u \in victims : ~connected[pool[u]]
         /\ Cardinality(Pooled \ {t}) >= MaxAgents => victims # {}
<1>1. CASE Cardinality(Pooled \ {t}) >= MaxAgents
  BY <1>1 DEF Victims, OldestIdle
<1>2. CASE ~(Cardinality(Pooled \ {t}) >= MaxAgents)
  BY <1>2 DEF Victims, OldestIdle
<1>3. QED BY <1>1, <1>2

-----------------------------------------------------------------------------
(* Type correctness: every variable keeps its type; no buffer outgrows     *)
(* max_buffer_size and no receiver the channel's capacity.                 *)
THEOREM TypeCorrect == Spec => []TypeInv
<1> USE PoolAssumption
<1>1. Init => TypeInv
  <2> SUFFICES ASSUME Init PROVE TypeInv
    OBVIOUS
  <2>1. <<>> \in Queue(MaxBuffer) /\ <<>> \in Queue(ChanCap) /\ <<>> \in Seq(Line)
    BY DEF Queue
  <2>2. QED BY <2>1 DEF Init, TypeInv, TypeOK, ConnInv, Phase, Age
<1>2. TypeInv /\ [Next]_vars => TypeInv'
  <2> SUFFICES ASSUME TypeInv, [Next]_vars PROVE TypeInv'
    OBVIOUS
  <2> USE DEF TypeInv, TypeOK, ConnInv, poolVars, histVars, bufVars, outVars, connVars
  <2>0. <<>> \in Queue(MaxBuffer) /\ <<>> \in Queue(ChanCap) /\ <<>> \in Seq(Line)
    BY DEF Queue
  <2>1. ASSUME NEW c \in Conn, NEW t \in Token, Reuse(c, t)
        PROVE  TypeInv'
    <3>1. pool[t] \in Agent
      BY <2>1 DEF Reuse
    <3>2. Drained(pool[t]) \in Seq(Line)
      BY <3>1, DrainedInQueue DEF Queue
    <3>3. QED BY <2>0, <2>1, <3>1, <3>2 DEF Reuse, MarkConnected, Taken, Phase
  <2>2. ASSUME NEW c \in Conn, NEW t \in Token, NEW a \in Agent, Spawn(c, t, a)
        PROVE  TypeInv'
    <3>1. PICK victims \in Victims(t) :
            /\ pool' = [u \in Token |-> IF u = t THEN a
                                        ELSE IF u \in victims THEN None ELSE pool[u]]
            /\ alive' = (alive \ Killed(victims)) \cup {a}
      BY <2>2 DEF Spawn
    <3>2. QED BY <2>2, <3>1 DEF Spawn, MarkConnected, Phase
  <2>3. ASSUME NEW t \in Token, SpawnFails(t)
        PROVE  TypeInv'
    BY <2>3 DEF SpawnFails
  <2>4. ASSUME NEW t \in Token, PoolFull(t)
        PROVE  TypeInv'
    BY <2>4 DEF PoolFull
  <2>5. ASSUME NEW a \in Agent, Die(a)
        PROVE  TypeInv'
    BY <2>5 DEF Die
  <2>6. ASSUME NEW a \in Agent, StdoutSend(a)
        PROVE  TypeInv'
    <3>1. emitted[a] + 1 \in 0 .. MaxEmit /\ <<a, emitted[a] + 1>> \in Line
      BY <2>6 DEF StdoutSend, Line
    <3>2. rx' \in [Conn -> Queue(ChanCap)]
      <4> DEFINE line == <<a, emitted[a] + 1>>
      <4>1. \A c \in Conn : Push(rx[c], line) \in Queue(ChanCap)
        BY <3>1, PushInQueue
      <4> HIDE DEF line
      <4>2. CASE Receivers(a) # {}
        <5>1. rx' = [c \in Conn |-> IF c \in Receivers(a) THEN Push(rx[c], line) ELSE rx[c]]
          BY <2>6, <4>2 DEF StdoutSend, line
        <5>2. QED BY <4>1, <5>1
      <4>3. CASE Receivers(a) = {}
        BY <2>6, <4>3 DEF StdoutSend
      <4>4. QED BY <4>2, <4>3
    <3>3. pending' \in [Agent -> 0 .. MaxEmit] /\ emitted' \in [Agent -> 0 .. MaxEmit]
      BY <2>6, <3>1 DEF StdoutSend
    <3>4. QED BY <2>6, <3>2, <3>3 DEF StdoutSend
  <2>7. ASSUME NEW a \in Agent, StdoutStore(a)
        PROVE  TypeInv'
    <3>1. <<a, pending[a]>> \in Line
      BY <2>7 DEF StdoutStore, Line
    <3>2. overflow' \in [Agent -> Queue(MaxBuffer)]
      BY <2>7, <3>1 DEF StdoutStore, Queue
    <3>3. QED BY <2>7, <3>2 DEF StdoutStore
  <2>8. ASSUME NEW c \in Conn, Subscribe(c)
        PROVE  TypeInv'
    BY <2>8 DEF Subscribe, Phase
  <2>9. ASSUME NEW c \in Conn, ReplayLine(c)
        PROVE  TypeInv'
    <3>1. Tail(replay[c]) \in Seq(Line) /\ Head(replay[c]) \in Line
      BY <2>9 DEF ReplayLine
    <3>2. replay' \in [Conn -> Seq(Line)] /\ shown' \in [Agent -> Seq(Line)]
      BY <2>9, <3>1, ShownTyped DEF ReplayLine
    <3>3. QED BY <2>9, <3>2 DEF ReplayLine
  <2>10. ASSUME NEW c \in Conn, ForwardLine(c)
         PROVE  TypeInv'
    <3>1. Tail(rx[c]) \in Queue(ChanCap) /\ Head(rx[c]) \in Line
      BY <2>10, TailInQueue DEF ForwardLine
    <3>2. rx' \in [Conn -> Queue(ChanCap)] /\ shown' \in [Agent -> Seq(Line)]
      BY <2>10, <3>1, ShownTyped DEF ForwardLine
    <3>3. QED BY <2>10, <3>2 DEF ForwardLine
  <2>11. ASSUME NEW c \in Conn, ClientGone(c)
         PROVE  TypeInv'
    BY <2>11 DEF ClientGone, Phase
  <2>12. ASSUME NEW c \in Conn, SendFails(c)
         PROVE  TypeInv'
    <3>1. Tail(rx[c]) \in Queue(ChanCap) /\ Head(rx[c]) \in Line
      BY <2>12, TailInQueue DEF SendFails
    <3>2. QED BY <2>12, <3>1 DEF SendFails, Phase
  <2>13. ASSUME NEW c \in Conn, BufferFailedLine(c)
         PROVE  TypeInv'
    <3>1. held[c] \in Line
      BY <2>13 DEF BufferFailedLine
    <3>2. Keeper(c) \in Agent \cup {None}
      BY <2>13 DEF BufferFailedLine, Keeper
    <3>3. buffer' \in [Agent -> Queue(MaxBuffer)]
      BY <2>13, <3>1, <3>2 DEF BufferFailedLine, Queue
    <3>4. QED BY <2>0, <2>13, <3>3 DEF BufferFailedLine, Phase
  <2>14. ASSUME NEW c \in Conn, EndTasks(c)
         PROVE  TypeInv'
    BY <2>0, <2>14 DEF EndTasks, Phase
  <2>15. ASSUME NEW c \in Conn, MarkDisconnected(c)
         PROVE  TypeInv'
    <3>1. 0 \in Age
      BY DEF Age
    <3>2. /\ connected' \in [Agent -> BOOLEAN] /\ idleFor' \in [Agent -> Age \cup {None}]
          /\ deserted' \subseteq Agent
      <4> DEFINE a == pool[tok[c]]
      <4>1. tok[c] \in Token
        BY <2>15 DEF MarkDisconnected
      <4>2. CASE a = None
        BY <2>15, <4>2 DEF MarkDisconnected
      <4>3. CASE a # None
        <5>1. a \in Agent
          BY <4>1, <4>3
        <5>2. /\ connected' = [connected EXCEPT ![a] = FALSE]
              /\ idleFor' = [idleFor EXCEPT ![a] = 0]
              /\ deserted' \in {deserted, deserted \cup {a}}
          BY <2>15, <4>3 DEF MarkDisconnected
        <5> HIDE DEF a
        <5>3. QED BY <3>1, <5>1, <5>2
      <4>4. QED BY <4>2, <4>3
    <3>3. phase' \in [Conn -> Phase] /\ tok' \in [Conn -> Token \cup {None}]
          /\ agent' \in [Conn -> Agent \cup {None}]
      BY <2>15 DEF MarkDisconnected, Phase
    <3>4. ConnInv'
      BY <2>15 DEF MarkDisconnected
    <3>5. QED BY <2>15, <3>2, <3>3, <3>4 DEF MarkDisconnected
  <2>16. ASSUME Tick
         PROVE  TypeInv'
    <3>1. idleFor' \in [Agent -> Age \cup {None}]
      BY SMTT(30), <2>16 DEF Tick, Age
    <3>2. QED BY <2>16, <3>1 DEF Tick
  <2>17. ASSUME Reap
         PROVE  TypeInv'
    BY <2>17 DEF Reap
  <2>18. CASE UNCHANGED vars
    BY <2>18 DEF vars
  <2>19. QED
    BY <2>1, <2>2, <2>3, <2>4, <2>5, <2>6, <2>7, <2>8, <2>9, <2>10, <2>11, <2>12,
       <2>13, <2>14, <2>15, <2>16, <2>17, <2>18 DEF Next, ConnStep, AgentStep
<1>3. QED BY <1>1, <1>2, PTL DEF Spec

(* Every variable keeps its type: the buffers and the receivers' backlogs  *)
(* never outgrow their capacity.                                           *)
THEOREM TypeOKKept == Spec => []TypeOK
<1>1. TypeInv => TypeOK
  BY DEF TypeInv
<1>2. QED BY <1>1, TypeCorrect, PTL

-----------------------------------------------------------------------------
(* What PoolOwnership promises, proved of PoolOwnership itself.            *)

(* The instance's cardinality is the cardinality.                          *)
LEMMA SameCardinality == ASSUME NEW S PROVE Ownership!Cardinality(S) = Cardinality(S)
BY DEF Ownership!Cardinality, Cardinality

Fits == Cardinality(Pooled) <= MaxAgents

(* The inductive invariant: owned and running processes have been spawned, *)
(* which keeps a fresh process out of every other token's entry, and the   *)
(* set of tokens with an agent is finite, so that its size means something.*)
OwnInv ==
  /\ Ownership!OwnTypeOK
  /\ alive \subseteq spawned
  /\ \A t \in Pooled : pool[t] \in spawned
  /\ Ownership!NoSharedAgent
  /\ NoOrphanProcess
  /\ IsFiniteSet(Pooled)
  /\ Fits

(* The invariant holds initially.                                          *)
LEMMA OwnInvInit == ASSUME Ownership!Init PROVE OwnInv
<1> USE PoolAssumption
<1>1. Pooled = {}
  BY DEF Ownership!Init, Pooled, Ownership!Pooled
<1>2. IsFiniteSet(Pooled) /\ Cardinality(Pooled) = 0
  BY <1>1, FS_EmptySet
<1>3. QED
  BY <1>1, <1>2
     DEF Ownership!Init, OwnInv, Ownership!OwnTypeOK, Ownership!NoSharedAgent, NoOrphanProcess,
         Ownership!NoOrphanProcess, Fits, Pooled, Ownership!Pooled

(* A process that ends leaves the pool as it is.                           *)
LEMMA OwnInvExit == ASSUME OwnInv, NEW a \in Agent, Ownership!Exit(a) PROVE OwnInv'
BY DEF Ownership!Exit, OwnInv, Ownership!OwnTypeOK, Ownership!NoSharedAgent, NoOrphanProcess,
       Ownership!NoOrphanProcess, Fits, Pooled, Ownership!Pooled

(* Removal takes the processes along, so none is orphaned.                 *)
LEMMA OwnInvRemove ==
  ASSUME OwnInv, NEW gone \in SUBSET Pooled, Ownership!Remove(gone)
  PROVE  OwnInv'
<1> USE PoolAssumption
<1>1. Pooled' = Pooled \ gone
  BY DEF Ownership!Remove, Pooled, OwnInv, Ownership!OwnTypeOK, Ownership!Pooled
<1>2. IsFiniteSet(Pooled') /\ Cardinality(Pooled') <= Cardinality(Pooled)
  BY <1>1, FS_Subset DEF OwnInv
<1>3. Fits'
  <2>1. Cardinality(Pooled) \in Nat /\ Cardinality(Pooled') \in Nat
    BY <1>2, FS_CardinalityType DEF OwnInv
  <2>2. QED BY <1>2, <2>1 DEF OwnInv, Fits, Ownership!Remove, Ownership!Pooled, Pooled
<1>4. Ownership!OwnTypeOK' /\ (alive \subseteq spawned)' /\ (\A t \in Pooled : pool[t] \in spawned)'
  BY DEF OwnInv, Ownership!OwnTypeOK, Pooled, Ownership!Remove, Ownership!Pooled
<1>5. Ownership!NoSharedAgent'
  BY <1>1 DEF OwnInv, Ownership!NoSharedAgent, Pooled, Ownership!Remove, Ownership!Pooled
<1>6. NoOrphanProcess'
  <2> SUFFICES ASSUME NEW a \in alive' PROVE \E t \in Token : pool'[t] = a
    BY DEF NoOrphanProcess, Ownership!NoOrphanProcess
  <2>1. a \in alive /\ a \notin {pool[u] : u \in gone}
    BY DEF Ownership!Remove, Ownership!Pooled, Pooled
  <2>2. PICK t \in Token : pool[t] = a
    BY <2>1 DEF OwnInv, NoOrphanProcess, Ownership!NoOrphanProcess
  <2>3. t \notin gone
    BY <2>1, <2>2
  <2>4. QED BY <2>2, <2>3 DEF Ownership!Remove, Ownership!Pooled, Pooled
<1>7. QED BY <1>2, <1>3, <1>4, <1>5, <1>6 DEF OwnInv

(* A process starts only where no running one is, and only where there is  *)
(* room once the evicted ones are gone.                                    *)
LEMMA OwnInvStart ==
  ASSUME OwnInv, NEW t \in Token, NEW a \in Agent, NEW evicted \in SUBSET Pooled,
         Ownership!Start(t, a, evicted)
  PROVE  OwnInv'
<1> USE PoolAssumption
<1> DEFINE rest == Pooled \ {t}
<1>1. Pooled' = (rest \ evicted) \cup {t}
  BY DEF Ownership!Start, Pooled, OwnInv, Ownership!OwnTypeOK, Ownership!Pooled
<1>2. IsFiniteSet(rest) /\ Cardinality(rest) <= Cardinality(Pooled)
  BY FS_Subset DEF OwnInv
<1>3. IsFiniteSet(rest \ evicted) /\ Cardinality(rest \ evicted) <= Cardinality(rest)
  BY <1>2, FS_Subset
<1>4. Cardinality(Pooled) \in Nat /\ Cardinality(rest) \in Nat /\ Cardinality(rest \ evicted) \in Nat
  BY <1>2, <1>3, FS_CardinalityType DEF OwnInv
<1>5. Cardinality(rest \ evicted) < MaxAgents
  <2>1. CASE ~(Cardinality(rest) >= MaxAgents)
    BY <1>3, <1>4, <2>1
  <2>2. CASE evicted # {}
    <3>1. PICK u \in evicted : u \in rest
      BY <2>2 DEF Ownership!Start
    <3>2. IsFiniteSet(rest \ {u}) /\ Cardinality(rest \ {u}) = Cardinality(rest) - 1
      BY <1>2, <3>1, FS_RemoveElement
    <3>3. Cardinality(rest \ evicted) <= Cardinality(rest \ {u})
      <4>1. rest \ evicted \subseteq rest \ {u}
        BY <3>1
      <4>2. QED BY <3>2, <4>1, FS_Subset
    <3>4. QED BY <1>2, <1>4, <3>2, <3>3 DEF OwnInv, Fits
  <2>3. Cardinality(rest) >= MaxAgents => evicted # {}
    BY SameCardinality DEF Ownership!Start, Pooled, Ownership!Pooled
  <2>4. QED BY <2>1, <2>2, <2>3
<1>6. t \notin rest \ evicted
  OBVIOUS
<1>7. IsFiniteSet(Pooled') /\ Cardinality(Pooled') = Cardinality(rest \ evicted) + 1
  BY <1>1, <1>3, <1>6, FS_AddElement
<1>8. Fits'
  BY <1>4, <1>5, <1>7 DEF Fits
<1>9. Ownership!OwnTypeOK' /\ (alive \subseteq spawned)' /\ (\A u \in Pooled : pool[u] \in spawned)'
  BY DEF OwnInv, Ownership!OwnTypeOK, Pooled, Ownership!Start, Ownership!Pooled
<1>10. Ownership!NoSharedAgent'
  <2> SUFFICES ASSUME NEW u \in Pooled', NEW v \in Pooled', pool'[u] = pool'[v]
               PROVE  u = v
    BY DEF Ownership!NoSharedAgent, Ownership!Pooled, Pooled
  <2>1. \A w \in Pooled' : w # t => w \in Pooled /\ pool'[w] = pool[w] /\ pool[w] # a
    BY <1>1 DEF Ownership!Start, OwnInv, Pooled, Ownership!Pooled
  <2>2. pool'[t] = a
    BY DEF Ownership!Start
  <2>3. QED BY <2>1, <2>2 DEF OwnInv, Ownership!NoSharedAgent, Ownership!Pooled, Pooled
<1>11. NoOrphanProcess'
  <2> SUFFICES ASSUME NEW b \in alive' PROVE \E u \in Token : pool'[u] = b
    BY DEF NoOrphanProcess, Ownership!NoOrphanProcess
  <2>1. CASE b = a
    BY <2>1 DEF Ownership!Start
  <2>2. CASE b # a
    <3>1. b \in alive /\ b \notin {pool[u] : u \in evicted}
      BY <2>2 DEF Ownership!Start
    <3>2. PICK u \in Token : pool[u] = b
      BY <3>1 DEF OwnInv, NoOrphanProcess, Ownership!NoOrphanProcess
    <3>3. u # t /\ u \notin evicted
      BY <3>1, <3>2 DEF Ownership!Start
    <3>4. QED BY <3>2, <3>3 DEF Ownership!Start
  <2>3. QED BY <2>1, <2>2
<1>12. QED BY <1>7, <1>8, <1>9, <1>10, <1>11 DEF OwnInv

(* The ownership promises hold in every behaviour of PoolOwnership.        *)
THEOREM OwnershipKept == Ownership!Spec => []OwnInv
<1>1. OwnInv /\ [Ownership!Next]_(Ownership!ownVars) => OwnInv'
  <2> SUFFICES ASSUME OwnInv, [Ownership!Next]_(Ownership!ownVars) PROVE OwnInv'
    OBVIOUS
  <2>1. CASE UNCHANGED Ownership!ownVars
    BY <2>1 DEF Ownership!ownVars, OwnInv, Ownership!OwnTypeOK, Ownership!NoSharedAgent,
                NoOrphanProcess, Ownership!NoOrphanProcess, Fits, Pooled, Ownership!Pooled
  <2>2. QED BY <2>1, OwnInvExit, OwnInvRemove, OwnInvStart
            DEF Ownership!Next, Ownership!Pooled, Pooled
<1>2. QED BY <1>1, OwnInvInit, PTL DEF Ownership!Spec

-----------------------------------------------------------------------------
(* Refinement: every step of the pool is a step of PoolOwnership or leaves *)
(* its variables alone.                                                    *)

(* The pool implements PoolOwnership.                                      *)
THEOREM PoolImplementsOwnership == Spec => ImplementsOwnership
<1> USE PoolAssumption
<1>1. Init => Ownership!Init
  BY DEF Init, Ownership!Init
<1>2. TypeInv /\ [Next]_vars => [Ownership!Next]_(Ownership!ownVars)
  <2> SUFFICES ASSUME TypeInv, [Next]_vars
               PROVE  Ownership!Next \/ UNCHANGED Ownership!ownVars
    OBVIOUS
  <2> USE DEF TypeInv, TypeOK, poolVars, histVars, connVars, Pooled, Ownership!Pooled, Ownership!ownVars
  <2>1. ASSUME NEW c \in Conn, NEW t \in Token, NEW a \in Agent, Spawn(c, t, a)
        PROVE  Ownership!Next
    <3>1. PICK victims \in Victims(t) :
            /\ pool' = [u \in Token |-> IF u = t THEN a
                                        ELSE IF u \in victims THEN None ELSE pool[u]]
            /\ alive' = (alive \ Killed(victims)) \cup {a}
      BY <2>1 DEF Spawn
    <3>2. /\ victims \subseteq Pooled \ {t}
          /\ Cardinality(Pooled \ {t}) >= MaxAgents => victims # {}
      BY <3>1, VictimsPooled
    <3>3. Ownership!Start(t, a, victims)
      BY <2>1, <3>1, <3>2, SameCardinality DEF Spawn, Killed, Ownership!Start
    <3>4. QED BY <3>2, <3>3 DEF Ownership!Next
  <2>2. ASSUME NEW t \in Token, SpawnFails(t)
        PROVE  Ownership!Next
    <3>1. PICK victims \in Victims(t) :
            /\ pool' = [u \in Token |-> IF u \in victims \cup {t} THEN None ELSE pool[u]]
            /\ alive' = alive \ Killed(victims)
      BY <2>2 DEF SpawnFails
    <3> DEFINE gone == victims \cup ({t} \cap Pooled)
    <3>2. gone \subseteq Pooled
      BY <3>1, VictimsPooled
    <3>3. pool' = [u \in Token |-> IF u \in gone THEN None ELSE pool[u]]
      BY <3>1
    <3>4. alive' = alive \ {pool[u] : u \in gone}
      BY <2>2, <3>1 DEF SpawnFails, Killed
    <3>5. Ownership!Remove(gone)
      BY <2>2, <3>2, <3>3, <3>4 DEF SpawnFails, Ownership!Remove
    <3>6. QED BY <3>2, <3>5 DEF Ownership!Next
  <2>3. ASSUME NEW t \in Token, PoolFull(t)
        PROVE  Ownership!Next
    <3> DEFINE gone == {t} \cap Pooled
    <3>1. pool' = [u \in Token |-> IF u \in gone THEN None ELSE pool[u]]
      BY <2>3 DEF PoolFull
    <3>2. alive' = alive \ {pool[u] : u \in gone}
      BY <2>3 DEF PoolFull
    <3>3. Ownership!Remove(gone)
      BY <2>3, <3>1, <3>2 DEF PoolFull, Ownership!Remove
    <3>4. QED BY <3>3 DEF Ownership!Next
  <2>4. ASSUME NEW a \in Agent, Die(a)
        PROVE  Ownership!Next
    BY <2>4 DEF Die, Ownership!Exit, Ownership!Next
  <2>5. ASSUME Reap
        PROVE  Ownership!Next
    <3>1. Reapable \subseteq Pooled
      BY DEF Reapable
    <3>2. Ownership!Remove(Reapable)
      BY <2>5, <3>1 DEF Reap, Killed, Ownership!Remove
    <3>3. QED BY <3>1, <3>2 DEF Ownership!Next
  <2>6. ASSUME NEW c \in Conn, NEW t \in Token, Reuse(c, t)
        PROVE  UNCHANGED Ownership!ownVars
    BY <2>6 DEF Reuse
  <2>7. ASSUME NEW a \in Agent, StdoutSend(a) \/ StdoutStore(a)
        PROVE  UNCHANGED Ownership!ownVars
    BY <2>7 DEF StdoutSend, StdoutStore
  <2>8. ASSUME NEW c \in Conn, ConnStep(c)
        PROVE  UNCHANGED Ownership!ownVars
    BY <2>8 DEF ConnStep, Subscribe, ReplayLine, ForwardLine, ClientGone, SendFails,
                BufferFailedLine, EndTasks, MarkDisconnected
  <2>9. ASSUME Tick
        PROVE  UNCHANGED Ownership!ownVars
    BY <2>9 DEF Tick
  <2>10. CASE UNCHANGED vars
    BY <2>10 DEF vars
  <2>11. QED
    BY <2>1, <2>2, <2>3, <2>4, <2>5, <2>6, <2>7, <2>8, <2>9, <2>10 DEF Next, AgentStep
<1>3. QED
  BY <1>1, <1>2, TypeCorrect, PTL DEF Spec, ImplementsOwnership, Ownership!Spec

(* The ownership invariant carries over to the pool.                       *)
LEMMA PoolOwnInv == Spec => []OwnInv
BY OwnershipKept, PoolImplementsOwnership, PTL DEF ImplementsOwnership

(* The pool never holds more than max_agents agents.                       *)
THEOREM PoolBoundKept == Spec => []PoolBound
<1>1. OwnInv => PoolBound
  BY SameCardinality DEF OwnInv, Fits, PoolBound, Ownership!PoolBound, Ownership!Pooled, Pooled
<1>2. QED BY <1>1, PoolOwnInv, PTL

(* Every running agent process is owned by a token of the pool.            *)
THEOREM NoOrphanProcessKept == Spec => []NoOrphanProcess
<1>1. OwnInv => NoOrphanProcess
  BY DEF OwnInv, NoOrphanProcess
<1>2. QED BY <1>1, PoolOwnInv, PTL

-----------------------------------------------------------------------------
(* The client of an agent keeps it connected, until another connection of  *)
(* its token ends.                                                         *)

(* Removing agents from the pool disturbs no connection's attachment.       *)
LEMMA RemovalKeepsAttached ==
  ASSUME TypeInv, AttachedIsConnected,
         \A u \in Token : pool'[u] \in {None, pool[u]},
         UNCHANGED <<connected, deserted, phase, tok, agent>>
  PROVE  AttachedIsConnected'
<1> USE PoolAssumption
    DEF TypeInv, TypeOK, ConnInv, AttachedIsConnected, Attached, Using
<1> SUFFICES ASSUME NEW d \in Conn, NEW u \in Token, Using(d, u)', agent'[d] = pool'[u]
             PROVE  connected'[pool'[u]] \/ pool'[u] \in deserted'
  OBVIOUS
<1>1. Using(d, u) /\ agent[d] \in Agent /\ agent[d] = pool'[u]
  OBVIOUS
<1>2. pool'[u] = pool[u]
  BY <1>1
<1>3. QED BY <1>1, <1>2

(* Each step keeps AttachedIsConnected; by NoSharedAgent the end of a      *)
(* connection of another token disturbs nobody.                            *)
LEMMA AttachedStep ==
  ASSUME TypeInv, OwnInv, AttachedIsConnected, [Next]_vars
  PROVE  AttachedIsConnected'
<1> USE PoolAssumption
    DEF TypeInv, TypeOK, ConnInv, poolVars, histVars, connVars, AttachedIsConnected, Attached, Using
<1>1. ASSUME NEW c \in Conn, NEW t \in Token, Reuse(c, t)
      PROVE  AttachedIsConnected'
  <2>1. pool[t] \in Agent
    BY <1>1 DEF Reuse
  <2>2. /\ connected' = [connected EXCEPT ![pool[t]] = TRUE] /\ pool' = pool
        /\ deserted' = deserted \ {pool[t]}
    BY <1>1 DEF Reuse, MarkConnected
  <2> SUFFICES ASSUME NEW d \in Conn, NEW u \in Token, Using(d, u)', agent'[d] = pool[u]
               PROVE  connected'[pool[u]] \/ pool[u] \in deserted'
    BY <2>2
  <2>3. CASE d = c
    BY <1>1, <2>1, <2>2, <2>3 DEF Reuse
  <2>4. CASE d # c
    <3>1. Using(d, u) /\ agent[d] = pool[u]
      BY <1>1, <2>4 DEF Reuse
    <3>2. (connected[pool[u]] \/ pool[u] \in deserted) /\ pool[u] \in Agent
      BY <3>1
    <3>3. QED BY <2>1, <2>2, <3>2
  <2>5. QED BY <2>3, <2>4
<1>2. ASSUME NEW c \in Conn, NEW t \in Token, NEW a \in Agent, Spawn(c, t, a)
      PROVE  AttachedIsConnected'
  <2>1. connected' = [connected EXCEPT ![a] = TRUE] /\ deserted' = deserted
    BY <1>2 DEF Spawn, MarkConnected
  <2>2. \A u \in Token : pool'[u] \in {a, None, pool[u]}
    BY <1>2 DEF Spawn
  <2>3. pool'[t] = a
    BY <1>2 DEF Spawn
  <2> SUFFICES ASSUME NEW d \in Conn, NEW u \in Token, Using(d, u)', agent'[d] = pool'[u]
               PROVE  connected'[pool'[u]] \/ pool'[u] \in deserted'
    OBVIOUS
  <2>4. CASE d = c
    BY <1>2, <2>1, <2>3, <2>4 DEF Spawn
  <2>5. CASE d # c
    <3>1. Using(d, u) /\ agent[d] = pool'[u] /\ agent[d] \in Agent
      BY <1>2, <2>5 DEF Spawn
    <3>2. CASE pool'[u] = a
      BY <2>1, <3>2
    <3>3. CASE pool'[u] # a
      <4>1. pool'[u] = pool[u]
        BY <2>2, <3>1, <3>3
      <4>2. QED BY <2>1, <3>1, <4>1
    <3>4. QED BY <3>2, <3>3
  <2>6. QED BY <2>4, <2>5
<1>3. ASSUME NEW t \in Token, SpawnFails(t) \/ PoolFull(t)
      PROVE  AttachedIsConnected'
  <2>1. \A u \in Token : pool'[u] \in {None, pool[u]}
    BY <1>3 DEF SpawnFails, PoolFull
  <2>2. UNCHANGED <<connected, deserted, phase, tok, agent>>
    BY <1>3 DEF SpawnFails, PoolFull
  <2>3. QED BY <2>1, <2>2, RemovalKeepsAttached
<1>4. ASSUME Reap
      PROVE  AttachedIsConnected'
  <2>1. \A u \in Token : pool'[u] \in {None, pool[u]}
    BY <1>4 DEF Reap
  <2>2. UNCHANGED <<connected, deserted, phase, tok, agent>>
    BY <1>4 DEF Reap
  <2>3. QED BY <2>1, <2>2, RemovalKeepsAttached
<1>5. ASSUME NEW c \in Conn, MarkDisconnected(c)
      PROVE  AttachedIsConnected'
  <2> DEFINE a == pool[tok[c]]
  <2>1. tok[c] \in Token /\ pool' = pool /\ phase[c] # "none"
    BY <1>5 DEF MarkDisconnected
  <2>2. phase' = [phase EXCEPT ![c] = "none"] /\ tok' = [tok EXCEPT ![c] = None]
        /\ agent' = [agent EXCEPT ![c] = None]
    BY <1>5 DEF MarkDisconnected
  <2>3. /\ \A b \in Agent : b # a => connected'[b] = connected[b]
        /\ deserted \subseteq deserted'
    BY <1>5 DEF MarkDisconnected
  <2> SUFFICES ASSUME NEW d \in Conn, NEW u \in Token, Using(d, u)', agent'[d] = pool'[u]
               PROVE  connected'[pool'[u]] \/ pool'[u] \in deserted'
    OBVIOUS
  <2>4. d # c /\ Using(d, u) /\ agent[d] = pool[u]
    BY <2>1, <2>2
  <2>5. pool[u] \in Agent /\ (connected[pool[u]] \/ pool[u] \in deserted)
    BY <2>4
  <2>6. CASE pool[u] # a
    BY <2>1, <2>3, <2>5, <2>6
  <2>7. CASE pool[u] = a
    <3>1. u = tok[c]
      BY ZenonT(30), <2>1, <2>5, <2>7 DEF OwnInv, Ownership!NoSharedAgent, Ownership!Pooled
    <3>2. Attached(d, tok[c]) /\ d \in Conn \ {c} /\ pool[tok[c]] # None
      BY <2>4, <2>5, <3>1
    <3>3. a \in deserted'
      BY <1>5, <3>2 DEF MarkDisconnected
    <3>4. QED BY <2>1, <2>7, <3>3
  <2>8. QED BY <2>6, <2>7
<1>6. ASSUME NEW c \in Conn,
             \/ Subscribe(c) \/ ReplayLine(c) \/ ForwardLine(c) \/ ClientGone(c)
             \/ SendFails(c) \/ BufferFailedLine(c) \/ EndTasks(c)
      PROVE  AttachedIsConnected'
  <2>1. UNCHANGED <<pool, connected, deserted, tok, agent>>
    BY <1>6 DEF Subscribe, ReplayLine, ForwardLine, ClientGone, SendFails,
                BufferFailedLine, EndTasks
  <2>2. \A d \in Conn : phase'[d] # "none" => phase[d] # "none"
    BY <1>6 DEF Subscribe, ReplayLine, ForwardLine, ClientGone, SendFails,
                BufferFailedLine, EndTasks
  <2>3. QED BY <2>1, <2>2
<1>7. ASSUME NEW a \in Agent, AgentStep(a)
      PROVE  AttachedIsConnected'
  BY <1>7 DEF AgentStep, Die, StdoutSend, StdoutStore
<1>8. ASSUME Tick
      PROVE  AttachedIsConnected'
  BY <1>8 DEF Tick
<1>9. CASE UNCHANGED vars
  BY <1>9 DEF vars
<1>10. QED
  BY <1>1, <1>2, <1>3, <1>4, <1>5, <1>6, <1>7, <1>8, <1>9 DEF Next, ConnStep

(* A client's agent counts as connected until another connection of the    *)
(* token ends, for any number of devices per token.                        *)
THEOREM AttachedIsConnectedKept == Spec => []AttachedIsConnected
<1>1. Init => AttachedIsConnected
  BY DEF Init, AttachedIsConnected, Attached, Using
<1>2. TypeInv /\ OwnInv /\ AttachedIsConnected /\ [Next]_vars => AttachedIsConnected'
  BY AttachedStep
<1>3. QED BY <1>1, <1>2, TypeCorrect, PoolOwnInv, PTL DEF Spec

(* No connection has more to replay than max_buffer_size lines: the merge  *)
(* of the two buffers on reconnect respects the cap of one.                *)
THEOREM ReplayBoundedKept == Spec => []ReplayBounded
<1> USE PoolAssumption
<1>1. Init => ReplayBounded
  BY DEF Init, ReplayBounded
<1>2. TypeInv /\ ReplayBounded /\ [Next]_vars => ReplayBounded'
  <2> SUFFICES ASSUME TypeInv, ReplayBounded, [Next]_vars,
                      NEW d \in Conn
               PROVE  Len(replay'[d]) <= MaxBuffer
    BY DEF ReplayBounded
  <2>0. Len(replay[d]) <= MaxBuffer /\ replay \in [Conn -> Seq(Line)]
    BY DEF ReplayBounded, TypeInv, TypeOK
  <2>1. ASSUME NEW c \in Conn, NEW t \in Token, Reuse(c, t)
        PROVE  Len(replay'[d]) <= MaxBuffer
    <3>1. pool[t] \in Agent
      BY <2>1 DEF Reuse, TypeInv, TypeOK
    <3>2. Len(Drained(pool[t])) <= MaxBuffer
      BY <3>1, DrainedInQueue DEF TypeInv, TypeOK, Queue
    <3>3. QED BY <2>0, <2>1, <3>2 DEF Reuse
  <2>2. ASSUME NEW c \in Conn, ReplayLine(c)
        PROVE  Len(replay'[d]) <= MaxBuffer
    <3>1. Len(Tail(replay[c])) = Len(replay[c]) - 1 /\ Len(replay[c]) \in Nat
      BY <2>0, <2>2 DEF ReplayLine
    <3>2. QED BY <2>0, <2>2, <3>1 DEF ReplayLine
  <2>3. ASSUME NEW c \in Conn, ConnStep(c), ~ReplayLine(c)
        PROVE  UNCHANGED replay
    BY <2>3 DEF ConnStep, Subscribe, ForwardLine, ClientGone, SendFails, BufferFailedLine,
                EndTasks, MarkDisconnected
  <2>4. ASSUME NEW a \in Agent, AgentStep(a)
        PROVE  UNCHANGED replay
    BY <2>4 DEF AgentStep, Die, StdoutSend, StdoutStore, connVars
  <2>5. ASSUME \/ \E c \in Conn, t \in Token, a \in Agent : Spawn(c, t, a)
               \/ \E t \in Token : SpawnFails(t) \/ PoolFull(t)
               \/ Tick \/ Reap \/ UNCHANGED vars
        PROVE  UNCHANGED replay
    BY <2>5 DEF Spawn, SpawnFails, PoolFull, Tick, Reap, vars, connVars
  <2>6. QED BY <2>0, <2>1, <2>2, <2>3, <2>4, <2>5 DEF Next
<1>3. QED BY <1>1, <1>2, TypeCorrect, PTL DEF Spec

(* Eviction and the reaper end the process a client is attached to only    *)
(* if another connection of the token has ended since, for any number of   *)
(* devices per token.                                                      *)
THEOREM KilledOnlyIfDesertedKept == Spec => KilledOnlyIfDeserted
<1> DEFINE Spared ==
      \A t \in Pooled :
        pool[t] \in alive /\ pool'[t] # pool[t] /\ pool[t] \notin deserted
          => ~ \E c \in Conn : Attached(c, t)
<1>1. TypeInv /\ AttachedIsConnected /\ [Next]_vars => Spared
  <2> SUFFICES ASSUME TypeInv, AttachedIsConnected, [Next]_vars,
                      NEW u \in Pooled, pool[u] \in alive, pool'[u] # pool[u],
                      pool[u] \notin deserted, NEW c \in Conn, Attached(c, u)
               PROVE  FALSE
    OBVIOUS
  <2>1. u \in Token /\ connected[pool[u]]
    BY DEF AttachedIsConnected, Pooled
  <2> USE DEF TypeInv, TypeOK, poolVars, connVars
  <2>2. ASSUME NEW d \in Conn, NEW t \in Token, NEW a \in Agent, Spawn(d, t, a)
        PROVE  FALSE
    <3>1. u # t
      BY <2>2 DEF Spawn
    <3>2. PICK victims \in Victims(t) : u \in victims
      BY <2>1, <2>2, <3>1 DEF Spawn
    <3>3. QED BY <2>1, <3>2, VictimsPooled
  <2>3. ASSUME NEW t \in Token, SpawnFails(t)
        PROVE  FALSE
    <3>1. u # t
      BY <2>3 DEF SpawnFails
    <3>2. PICK victims \in Victims(t) : u \in victims
      BY <2>1, <2>3, <3>1 DEF SpawnFails
    <3>3. QED BY <2>1, <3>2, VictimsPooled
  <2>4. ASSUME NEW t \in Token, PoolFull(t)
        PROVE  FALSE
    BY <2>1, <2>4 DEF PoolFull
  <2>5. ASSUME Reap
        PROVE  FALSE
    BY <2>1, <2>5 DEF Reap, Reapable
  <2>6. CASE UNCHANGED pool
    BY <2>6
  <2>7. QED
    <3>1. ASSUME NEW d \in Conn, ConnStep(d) PROVE UNCHANGED pool
      BY <3>1 DEF ConnStep, Subscribe, ReplayLine, ForwardLine, ClientGone, SendFails,
                  BufferFailedLine, EndTasks, MarkDisconnected
    <3>2. ASSUME NEW d \in Conn, NEW t \in Token, Reuse(d, t) PROVE UNCHANGED pool
      BY <3>2 DEF Reuse
    <3>3. ASSUME NEW a \in Agent, AgentStep(a) PROVE UNCHANGED pool
      BY <3>3 DEF AgentStep, Die, StdoutSend, StdoutStore
    <3>4. Tick \/ UNCHANGED vars => UNCHANGED pool
      BY DEF Tick, vars
    <3>5. QED BY <2>2, <2>3, <2>4, <2>5, <2>6, <3>1, <3>2, <3>3, <3>4 DEF Next
<1>2. QED
  BY <1>1, TypeCorrect, AttachedIsConnectedKept, PTL DEF Spec, KilledOnlyIfDeserted
-----------------------------------------------------------------------------
(* Where the lines of an agent are.                                        *)

(* The lines the agents of token t have written so far, and those anybody  *)
(* has.                                                                    *)
Written(t) == {line \in Line : line[2] <= emitted[line[1]] /\ owner[line[1]] = t}
AnyWritten == {line \in Line : line[2] <= emitted[line[1]]}

(* A connection's agent was spawned for the connection's token, though the *)
(* token may have another one by now; an agent yet to be spawned has       *)
(* written nothing, so that giving it an owner changes no line's.          *)
OwnerInv ==
  /\ \A t \in Pooled : owner[pool[t]] = t
  /\ \A c \in Conn : phase[c] # "none" => agent[c] \in spawned /\ owner[agent[c]] = tok[c]
  /\ \A a \in Agent \ spawned : /\ emitted[a] = 0 /\ pending[a] = 0
                                /\ buffer[a] = <<>> /\ overflow[a] = <<>>

(* A connection holds lines only in the phases that move them.             *)
HoldsLines ==
  \A c \in Conn :
    /\ phase[c] \notin {"attached", "live", "gone"} => replay[c] = <<>>
    /\ phase[c] \notin {"live", "gone", "failed"} => rx[c] = <<>>
    /\ phase[c] # "failed" => held[c] = None

(* Every line that waits or is under way is in a place of the token whose  *)
(* agent wrote it.                                                         *)
LinesInv ==
  /\ \A a \in Agent : /\ buffer[a] \in Seq(Written(owner[a]))
                      /\ overflow[a] \in Seq(Written(owner[a]))
                      /\ pending[a] <= emitted[a]
                      /\ shown[a] \in Seq(AnyWritten)
  /\ \A c \in Conn : /\ rx[c] \in Seq(Written(tok[c])) /\ replay[c] \in Seq(Written(tok[c]))
                     /\ held[c] # None => held[c] \in Written(tok[c])

DeliveryInv == OwnerInv /\ HoldsLines /\ LinesInv
-----------------------------------------------------------------------------
(* Each step keeps OwnerInv.                                               *)
LEMMA OwnerStep ==
  ASSUME TypeInv, OwnInv, OwnerInv, [Next]_vars
  PROVE  OwnerInv'
<1> USE DEF poolVars, histVars, bufVars, outVars, connVars
<1>0. /\ None \notin Agent
      /\ \A t \in Pooled : pool[t] \in Agent /\ pool[t] \in spawned
      /\ pool \in [Token -> Agent \cup {None}] /\ phase \in [Conn -> Phase]
      /\ tok \in [Conn -> Token \cup {None}] /\ agent \in [Conn -> Agent \cup {None}]
      /\ buffer \in [Agent -> Queue(MaxBuffer)] /\ overflow \in [Agent -> Queue(MaxBuffer)]
      /\ emitted \in [Agent -> 0 .. MaxEmit] /\ pending \in [Agent -> 0 .. MaxEmit]
      /\ owner \in [Agent -> Token \cup {None}] /\ spawned \subseteq Agent
  BY PoolAssumption DEF OwnInv, Pooled, TypeInv, TypeOK
<1> DEFINE Owned == \A t \in Pooled : owner[pool[t]] = t
           Users == \A c \in Conn : phase[c] # "none" =>
                      agent[c] \in spawned /\ owner[agent[c]] = tok[c]
           Silent == \A a \in Agent \ spawned : /\ emitted[a] = 0 /\ pending[a] = 0
                                                /\ buffer[a] = <<>> /\ overflow[a] = <<>>
<1>a. OwnerInv <=> Owned /\ Users /\ Silent
  BY DEF OwnerInv
<1>b. OwnerInv' <=> Owned' /\ Users' /\ Silent'
  BY DEF OwnerInv
<1>c. ASSUME UNCHANGED <<spawned, owner>>, \A u \in Token : pool'[u] \in {None, pool[u]}
      PROVE  Owned'
  BY <1>a, <1>c DEF Pooled
<1>d. ASSUME UNCHANGED <<spawned, owner>>,
             \A d \in Conn : phase'[d] # "none" =>
               phase[d] # "none" /\ tok'[d] = tok[d] /\ agent'[d] = agent[d]
      PROVE  Users'
  BY <1>a, <1>d
<1>e. ASSUME UNCHANGED spawned, UNCHANGED <<bufVars, outVars>>
      PROVE  Silent'
  BY <1>a, <1>e
<1>1. ASSUME NEW c \in Conn, NEW t \in Token, Reuse(c, t)
      PROVE  OwnerInv'
  <2>1. pool' = pool /\ spawned' = spawned /\ owner' = owner /\ UNCHANGED outVars
    BY <1>1 DEF Reuse
  <2>2. t \in Pooled
    BY <1>0, <1>1 DEF Reuse, Pooled, TypeInv, TypeOK
  <2>3. \A d \in Conn : /\ phase'[d] = IF d = c THEN "attached" ELSE phase[d]
                        /\ tok'[d] = IF d = c THEN t ELSE tok[d]
                        /\ agent'[d] = IF d = c THEN pool[t] ELSE agent[d]
    BY <1>0, <1>1 DEF Reuse
  <2>4. Owned'
    BY <1>c, <2>1
  <2>5. Users'
    BY SMTT(30), <1>0, <1>a, <2>1, <2>2, <2>3
  <2>6. \A a \in Agent : buffer'[a] \in {<<>>, buffer[a]} /\ overflow'[a] \in {<<>>, overflow[a]}
    BY <1>0, <1>1 DEF Reuse, Taken
  <2>7. Silent'
    BY <1>a, <2>1, <2>6
  <2>8. QED BY <1>b, <2>4, <2>5, <2>7
<1>2. ASSUME NEW c \in Conn, NEW t \in Token, NEW a \in Agent, Spawn(c, t, a)
      PROVE  OwnerInv'
  <2>1. a \notin spawned /\ spawned' = spawned \cup {a} /\ UNCHANGED <<bufVars, outVars>>
    BY <1>2 DEF Spawn
  <2>2. \A u \in Token : IF u = t THEN pool'[u] = a ELSE pool'[u] \in {None, pool[u]}
    BY <1>2 DEF Spawn
  <2>3. \A b \in Agent : owner'[b] = IF b = a THEN t ELSE owner[b]
    BY <1>0, <1>2 DEF Spawn
  <2>4. \A d \in Conn : /\ phase'[d] = IF d = c THEN "live" ELSE phase[d]
                        /\ tok'[d] = IF d = c THEN t ELSE tok[d]
                        /\ agent'[d] = IF d = c THEN a ELSE agent[d]
    BY <1>0, <1>2 DEF Spawn
  <2>5. Owned'
    <3> SUFFICES ASSUME NEW u \in Token, pool'[u] # None PROVE owner'[pool'[u]] = u
      BY DEF Pooled
    <3>1. CASE u = t
      BY <2>2, <2>3, <3>1
    <3>2. CASE u # t
      <4>1. u \in Pooled /\ pool'[u] = pool[u]
        BY <2>2, <3>2 DEF Pooled
      <4>2. pool[u] \in Agent /\ pool[u] # a
        BY <1>0, <2>1, <4>1
      <4>3. QED BY <1>a, <2>3, <4>1, <4>2
    <3>3. QED BY <3>1, <3>2
  <2>6. Users'
    <3> SUFFICES ASSUME NEW d \in Conn, phase'[d] # "none"
                 PROVE  agent'[d] \in spawned' /\ owner'[agent'[d]] = tok'[d]
      OBVIOUS
    <3>1. CASE d = c
      BY <2>1, <2>3, <2>4, <3>1
    <3>2. CASE d # c
      <4>1. agent[d] \in spawned /\ owner[agent[d]] = tok[d] /\ agent[d] # a /\ agent[d] \in Agent
        BY <1>0, <1>a, <2>1, <2>4, <3>2
      <4>2. QED BY <2>1, <2>3, <2>4, <3>2, <4>1
    <3>3. QED BY <3>1, <3>2
  <2>7. Silent'
    BY <1>a, <2>1
  <2>8. QED BY <1>b, <2>5, <2>6, <2>7
<1>3. ASSUME (\E t \in Token : SpawnFails(t) \/ PoolFull(t)) \/ Reap
      PROVE  OwnerInv'
  <2>1. \A u \in Token : pool'[u] \in {None, pool[u]}
    BY <1>0, <1>3 DEF SpawnFails, PoolFull, Reap
  <2>2. UNCHANGED <<spawned, owner, bufVars, outVars, connVars>>
    BY <1>3 DEF SpawnFails, PoolFull, Reap
  <2>3. QED BY <1>b, <1>c, <1>d, <1>e, <2>1, <2>2
<1>4. ASSUME NEW c \in Conn, ConnStep(c), ~BufferFailedLine(c)
      PROVE  OwnerInv'
  <2>1. UNCHANGED <<pool, spawned, owner, bufVars, outVars>>
    BY <1>4 DEF ConnStep, Subscribe, ReplayLine, ForwardLine, ClientGone, SendFails,
                EndTasks, MarkDisconnected
  <2>2. \A d \in Conn : phase'[d] # "none" =>
          phase[d] # "none" /\ tok'[d] = tok[d] /\ agent'[d] = agent[d]
    BY <1>0, <1>4 DEF ConnStep, Subscribe, ReplayLine, ForwardLine, ClientGone, SendFails,
                EndTasks, MarkDisconnected
  <2>3. QED BY <1>b, <1>c, <1>d, <1>e, <2>1, <2>2
<1>5. ASSUME NEW c \in Conn, BufferFailedLine(c)
      PROVE  OwnerInv'
  <2>1. UNCHANGED <<pool, spawned, owner, overflow, outVars, tok, agent>>
    BY <1>5 DEF BufferFailedLine
  <2>2. \A d \in Conn : phase'[d] # "none" => phase[d] # "none"
    BY <1>0, <1>5 DEF BufferFailedLine
  <2>3. \A b \in Agent : buffer'[b] # buffer[b] => b \in spawned
    <3>1. tok[c] \in Token
      BY <1>5 DEF BufferFailedLine, TypeInv, ConnInv
    <3>2. Keeper(c) # None => Keeper(c) \in spawned
      BY <1>0, <3>1 DEF Keeper, Pooled
    <3>3. \A b \in Agent : buffer'[b] # buffer[b] => b = Keeper(c) /\ Keeper(c) # None
      BY <1>0, <1>5 DEF BufferFailedLine
    <3>4. QED BY <3>2, <3>3
  <2>4. Silent'
    BY <1>a, <2>1, <2>3
  <2>5. QED BY <1>b, <1>c, <1>d, <2>1, <2>2, <2>4
<1>6. ASSUME NEW a \in Agent, StdoutSend(a) \/ StdoutStore(a)
      PROVE  OwnerInv'
  <2>1. UNCHANGED <<pool, spawned, owner, buffer, phase, tok, agent>>
    BY <1>6 DEF StdoutSend, StdoutStore
  <2>2. a \in spawned
    BY <1>6, <1>a DEF StdoutSend, StdoutStore
  <2>3. \A b \in Agent : b # a => /\ emitted'[b] = emitted[b] /\ pending'[b] = pending[b]
                                  /\ overflow'[b] = overflow[b]
    BY <1>0, <1>6 DEF StdoutSend, StdoutStore
  <2>4. Silent'
    BY <1>a, <2>1, <2>2, <2>3
  <2>5. QED BY <1>b, <1>c, <1>d, <2>1, <2>4
<1>7. ASSUME (\E a \in Agent : Die(a)) \/ Tick \/ UNCHANGED vars
      PROVE  OwnerInv'
  <2>1. UNCHANGED <<pool, spawned, owner, bufVars, outVars, connVars>>
    BY <1>7 DEF Die, Tick, vars
  <2>2. QED BY <1>b, <1>c, <1>d, <1>e, <2>1
<1>8. QED BY <1>1, <1>2, <1>3, <1>4, <1>5, <1>6, <1>7 DEF Next, ConnStep, AgentStep

-----------------------------------------------------------------------------
(* Between connections, and in each phase, a connection's places are empty *)
(* where nothing may be in them.                                           *)
LEMMA HoldsStep ==
  ASSUME TypeInv, HoldsLines, [Next]_vars
  PROVE  HoldsLines'
<1> USE DEF TypeInv, TypeOK, ConnInv, poolVars, histVars, connVars, HoldsLines
<1>1. ASSUME NEW c \in Conn, NEW t \in Token, Reuse(c, t)
      PROVE  HoldsLines'
  BY <1>1 DEF Reuse
<1>2. ASSUME NEW c \in Conn, NEW t \in Token, NEW a \in Agent, Spawn(c, t, a)
      PROVE  HoldsLines'
  BY <1>2 DEF Spawn
<1>3. ASSUME NEW a \in Agent, StdoutSend(a)
      PROVE  HoldsLines'
  BY <1>3 DEF StdoutSend, Receivers
<1>4. ASSUME NEW c \in Conn, Subscribe(c) \/ ClientGone(c) \/ MarkDisconnected(c)
      PROVE  HoldsLines'
  BY <1>4 DEF Subscribe, ClientGone, MarkDisconnected
<1>5. ASSUME NEW c \in Conn, ReplayLine(c) \/ ForwardLine(c)
      PROVE  HoldsLines'
  BY <1>5 DEF ReplayLine, ForwardLine
<1>6. ASSUME NEW c \in Conn, SendFails(c) \/ BufferFailedLine(c) \/ EndTasks(c)
      PROVE  HoldsLines'
  BY <1>6 DEF SendFails, BufferFailedLine, EndTasks
<1>7. ASSUME \/ \E t \in Token : SpawnFails(t) \/ PoolFull(t)
             \/ \E a \in Agent : Die(a) \/ StdoutStore(a)
             \/ Tick \/ Reap \/ UNCHANGED vars
      PROVE  UNCHANGED connVars
  BY <1>7 DEF SpawnFails, PoolFull, Die, StdoutStore, Tick, Reap, vars
<1>8. CASE UNCHANGED connVars
  BY <1>8
<1>9. QED BY <1>1, <1>2, <1>3, <1>4, <1>5, <1>6, <1>7, <1>8 DEF Next, ConnStep, AgentStep

-----------------------------------------------------------------------------
(* Queues of lines.                                                        *)
LEMMA QueueOps ==
  ASSUME NEW S, NEW q \in Seq(S)
  PROVE  /\ \A T : S \subseteq T => q \in Seq(T)
         /\ \A x \in S : Append(q, x) \in Seq(S) /\ Push(q, x) \in Seq(S)
         /\ q # <<>> => Tail(q) \in Seq(S) /\ Head(q) \in S
<1>1. ASSUME NEW T, S \subseteq T PROVE q \in Seq(T)
  <2>1. Len(q) \in Nat /\ q \in [1 .. Len(q) -> T]
    BY <1>1
  <2>2. QED BY <2>1
<1>2. q # <<>> => Tail(q) \in Seq(S) /\ Head(q) \in S
  BY HeadTailProperties
<1>3. ASSUME NEW x \in S PROVE Append(q, x) \in Seq(S) /\ Push(q, x) \in Seq(S)
  <2>1. Append(q, x) \in Seq(S)
    BY AppendProperties
  <2>2. CASE Len(q) < ChanCap
    BY <2>1, <2>2 DEF Push
  <2>3. CASE ~(Len(q) < ChanCap)
    <3>1. q # <<>>
      BY <2>3, PoolAssumption
    <3>2. Append(Tail(q), x) \in Seq(S)
      BY <1>2, <3>1, AppendProperties
    <3>3. QED BY <2>1, <2>3, <3>2 DEF Push
  <2>4. QED BY <2>2, <2>3
<1>4. QED BY <1>1, <1>2, <1>3

LEMMA DrainedLines ==
  ASSUME NEW a \in Agent, NEW S, buffer[a] \in Seq(S), overflow[a] \in Seq(S)
  PROVE  Drained(a) \in Seq(S)
<1> DEFINE room == IF Len(buffer[a]) < MaxBuffer THEN MaxBuffer - Len(buffer[a]) ELSE 0
           n == IF Len(overflow[a]) < room THEN Len(overflow[a]) ELSE room
<1>1. room \in Nat
  BY PoolAssumption
<1>2. n \in Nat /\ n <= Len(overflow[a])
  BY <1>1
<1> HIDE DEF n
<1>3. SubSeq(overflow[a], 1, n) \in Seq(S)
  BY <1>2
<1>4. buffer[a] \o SubSeq(overflow[a], 1, n) \in Seq(S)
  BY <1>3
<1>5. QED BY <1>4 DEF Drained, n

(* Lines stay in the places of the token whose agent wrote them.           *)
LEMMA LinesStep ==
  ASSUME TypeInv, OwnInv, OwnerInv, HoldsLines, LinesInv, [Next]_vars
  PROVE  LinesInv'
<1> USE DEF poolVars, histVars, bufVars, outVars, connVars, LinesInv
<1>0. \A t : <<>> \in Seq(Written(t))
  OBVIOUS
<1>a. /\ pool \in [Token -> Agent \cup {None}]
      /\ buffer \in [Agent -> Queue(MaxBuffer)] /\ overflow \in [Agent -> Queue(MaxBuffer)]
      /\ emitted \in [Agent -> 0 .. MaxEmit] /\ pending \in [Agent -> 0 .. MaxEmit]
      /\ tok \in [Conn -> Token \cup {None}] /\ agent \in [Conn -> Agent \cup {None}]
      /\ replay \in [Conn -> Seq(Line)] /\ rx \in [Conn -> Queue(ChanCap)]
      /\ held \in [Conn -> Line \cup {None}] /\ shown \in [Agent -> Seq(Line)]
      /\ owner \in [Agent -> Token \cup {None}]
  BY DEF TypeInv, TypeOK
<1>b. \A t \in Token : pool[t] # None => owner[pool[t]] = t
  BY DEF OwnerInv, Pooled
<1>c. MaxEmit \in Nat /\ None \notin Agent /\ None \notin Line
  BY PoolAssumption, NoneIsNoLine DEF Line
<1>d. \A line \in Line : line[1] \in Agent /\ line[2] \in Nat \ {0}
  BY DEF Line
<1>1. ASSUME NEW c \in Conn, NEW t \in Token, Reuse(c, t)
      PROVE  LinesInv'
  <2>1. pool[t] \in Agent /\ owner[pool[t]] = t
    BY <1>1, <1>b, <1>c DEF Reuse, TypeInv, TypeOK
  <2>2. Drained(pool[t]) \in Seq(Written(t))
    BY <2>1, DrainedLines
  <2>3. rx[c] = <<>> /\ held[c] = None
    BY <1>1 DEF Reuse, HoldsLines
  <2>4. UNCHANGED <<emitted, pending, owner, rx, held, shown>>
    BY <1>1 DEF Reuse
  <2>5. \A u : Written(u)' = Written(u) /\ AnyWritten' = AnyWritten
    BY <2>4 DEF Written, AnyWritten
  <2>6. \A d \in Conn : /\ tok'[d] = IF d = c THEN t ELSE tok[d]
                        /\ replay'[d] = IF d = c THEN Drained(pool[t]) ELSE replay[d]
    BY <1>1, <1>a DEF Reuse
  <2>7. \A a \in Agent : buffer'[a] \in {<<>>, buffer[a]} /\ overflow'[a] \in {<<>>, overflow[a]}
    BY <1>1, <1>a DEF Reuse, Taken
  <2>8. QED BY <1>0, <2>2, <2>3, <2>4, <2>5, <2>6, <2>7
<1>2. ASSUME NEW c \in Conn, NEW t \in Token, NEW a \in Agent, Spawn(c, t, a)
      PROVE  LinesInv'
  <2>1. rx[c] = <<>> /\ held[c] = None /\ replay[c] = <<>>
    BY <1>2 DEF Spawn, HoldsLines
  <2>2. UNCHANGED <<bufVars, outVars, replay, rx, held, shown>> /\ owner' = [owner EXCEPT ![a] = t]
    BY <1>2 DEF Spawn
  <2>3. emitted[a] = 0 /\ buffer[a] = <<>> /\ overflow[a] = <<>>
    BY <1>2 DEF Spawn, OwnerInv
  <2>4. \A line \in Line : line[2] <= emitted[line[1]] => owner'[line[1]] = owner[line[1]]
    <3> SUFFICES ASSUME NEW line \in Line, line[2] <= emitted[line[1]]
                 PROVE  owner'[line[1]] = owner[line[1]]
      OBVIOUS
    <3>1. line[1] # a
      BY <1>d, <2>3
    <3>2. QED BY <1>a, <1>d, <2>2, <3>1
  <2>5. \A u : Written(u)' = Written(u) /\ AnyWritten' = AnyWritten
    BY <2>2, <2>4 DEF Written, AnyWritten
  <2>6. \A d \in Conn : tok'[d] = IF d = c THEN t ELSE tok[d]
    BY <1>2, <1>a DEF Spawn
  <2>7. \A b \in Agent : b # a => owner'[b] = owner[b]
    BY <1>a, <2>2
  <2>8. QED BY <1>0, <2>1, <2>2, <2>3, <2>5, <2>6, <2>7
<1>3. ASSUME NEW a \in Agent, StdoutSend(a)
      PROVE  LinesInv'
  <2> DEFINE line == <<a, emitted[a] + 1>>
  <2>1. /\ emitted' = [emitted EXCEPT ![a] = emitted[a] + 1] /\ pending[a] = 0
        /\ UNCHANGED <<owner, buffer, overflow, tok, replay, held, shown>>
    BY <1>3 DEF StdoutSend
  <2>2. line \in Written(owner[a])'
    BY <1>a, <1>c, <2>1 DEF Written, Line
  <2>3. \A t : Written(t) \subseteq Written(t)'
    BY <1>a, <1>c, <2>1 DEF Written, Line
  <2>4. AnyWritten \subseteq AnyWritten'
    BY <1>a, <1>c, <2>1 DEF AnyWritten, Line
  <2> HIDE DEF line
  <2>5. \A b \in Agent : pending'[b] <= emitted'[b]
    BY <1>3, <1>a, <1>c, <2>1 DEF StdoutSend
  <2>6. \A d \in Conn : rx'[d] = rx[d] \/ (tok[d] = owner[a] /\ rx'[d] = Push(rx[d], line))
    <3>1. \A d \in Receivers(a) : tok[d] = owner[a]
      BY DEF Receivers, OwnerInv
    <3>2. QED BY <1>3, <1>a, <3>1 DEF StdoutSend, line
  <2>7. \A d \in Conn : rx'[d] \in Seq(Written(tok[d])')
    <3> SUFFICES ASSUME NEW d \in Conn PROVE rx'[d] \in Seq(Written(tok[d])')
      OBVIOUS
    <3>1. rx[d] \in Seq(Written(tok[d])) /\ Written(tok[d]) \subseteq Written(tok[d])'
      BY <2>1, <2>3
    <3>2. rx[d] \in Seq(Written(tok[d])')
      BY <3>1, QueueOps
    <3>3. Push(rx[d], line) \in Seq(Written(tok[d])') \/ tok[d] # owner[a]
      BY <2>1, <2>2, <3>2, QueueOps
    <3>4. QED BY <2>6, <3>2, <3>3
  <2>8. \A b \in Agent : /\ buffer[b] \in Seq(Written(owner[b])')
                         /\ overflow[b] \in Seq(Written(owner[b])')
                         /\ shown[b] \in Seq(AnyWritten')
    <3> SUFFICES ASSUME NEW b \in Agent
                 PROVE  /\ buffer[b] \in Seq(Written(owner[b])')
                        /\ overflow[b] \in Seq(Written(owner[b])')
                        /\ shown[b] \in Seq(AnyWritten')
      OBVIOUS
    <3>1. /\ Written(owner[b]) \subseteq Written(owner[b])'
          /\ buffer[b] \in Seq(Written(owner[b])) /\ overflow[b] \in Seq(Written(owner[b]))
          /\ shown[b] \in Seq(AnyWritten)
      BY <2>1, <2>3
    <3>2. QED BY <2>4, <3>1, QueueOps
  <2>9. \A d \in Conn : /\ replay[d] \in Seq(Written(tok[d])')
                        /\ held[d] # None => held[d] \in Written(tok[d])'
    <3> SUFFICES ASSUME NEW d \in Conn
                 PROVE  /\ replay[d] \in Seq(Written(tok[d])')
                        /\ held[d] # None => held[d] \in Written(tok[d])'
      OBVIOUS
    <3>1. /\ Written(tok[d]) \subseteq Written(tok[d])' /\ replay[d] \in Seq(Written(tok[d]))
          /\ held[d] # None => held[d] \in Written(tok[d])
      BY <2>1, <2>3
    <3>2. QED BY <3>1, QueueOps
  <2>10. QED BY <2>1, <2>5, <2>7, <2>8, <2>9
<1>4. ASSUME UNCHANGED <<emitted, owner>>
      PROVE  (\A t : Written(t)' = Written(t)) /\ AnyWritten' = AnyWritten
  BY <1>4 DEF Written, AnyWritten
<1>5. ASSUME NEW a \in Agent, StdoutStore(a)
      PROVE  LinesInv'
  <2>1. UNCHANGED <<emitted, owner, buffer, connVars, shown>>
    BY <1>5 DEF StdoutStore
  <2>2. <<a, pending[a]>> \in Written(owner[a])
    <3>1. pending[a] \in Nat /\ pending[a] # 0 /\ pending[a] <= emitted[a]
      BY <1>5, <1>a, <1>c DEF StdoutStore
    <3>2. QED BY <3>1 DEF Written, Line
  <2>3. Append(overflow[a], <<a, pending[a]>>) \in Seq(Written(owner[a]))
    BY <2>2, QueueOps
  <2>4. \A b \in Agent : overflow'[b] \in Seq(Written(owner[b])) /\ pending'[b] <= emitted[b]
    BY <1>5, <1>a, <1>c, <2>3 DEF StdoutStore
  <2>5. QED BY <1>4, <2>1, <2>4
<1>s. ASSUME NEW t, NEW line \in Written(t)
      PROVE  \A a \in Agent : ShownAlso(line)[a] \in Seq(AnyWritten)
  <2>1. line \in AnyWritten /\ line[1] \in Agent
    BY <1>d DEF Written, AnyWritten
  <2>2. Append(shown[line[1]], line) \in Seq(AnyWritten)
    BY <2>1, QueueOps
  <2>3. QED BY <1>a, <2>1, <2>2 DEF ShownAlso
<1>6. ASSUME NEW c \in Conn, ReplayLine(c)
      PROVE  LinesInv'
  <2>1. UNCHANGED <<owner, bufVars, outVars, tok, rx, held>>
    BY <1>6 DEF ReplayLine
  <2>2. Tail(replay[c]) \in Seq(Written(tok[c])) /\ Head(replay[c]) \in Written(tok[c])
    BY <1>6, QueueOps DEF ReplayLine
  <2>3. \A a \in Agent : shown'[a] \in Seq(AnyWritten)
    BY <1>6, <1>s, <2>2 DEF ReplayLine
  <2>4. \A d \in Conn : replay'[d] \in Seq(Written(tok[d]))
    BY <1>6, <1>a, <2>2 DEF ReplayLine
  <2>5. QED BY <1>4, <2>1, <2>3, <2>4
<1>7. ASSUME NEW c \in Conn, ForwardLine(c)
      PROVE  LinesInv'
  <2>1. UNCHANGED <<owner, bufVars, outVars, tok, replay, held>>
    BY <1>7 DEF ForwardLine
  <2>2. Tail(rx[c]) \in Seq(Written(tok[c])) /\ Head(rx[c]) \in Written(tok[c])
    BY <1>7, QueueOps DEF ForwardLine
  <2>3. \A a \in Agent : shown'[a] \in Seq(AnyWritten)
    BY <1>7, <1>s, <2>2 DEF ForwardLine
  <2>4. \A d \in Conn : rx'[d] \in Seq(Written(tok[d]))
    BY <1>7, <1>a, <2>2 DEF ForwardLine
  <2>5. QED BY <1>4, <2>1, <2>3, <2>4
<1>8. ASSUME NEW c \in Conn, SendFails(c)
      PROVE  LinesInv'
  <2>1. UNCHANGED <<owner, bufVars, outVars, tok, replay, shown>>
    BY <1>8 DEF SendFails
  <2>2. Tail(rx[c]) \in Seq(Written(tok[c])) /\ Head(rx[c]) \in Written(tok[c])
    BY <1>8, QueueOps DEF SendFails
  <2>3. \A d \in Conn : /\ rx'[d] \in Seq(Written(tok[d]))
                        /\ held'[d] # None => held'[d] \in Written(tok[d])
    BY <1>8, <1>a, <2>2 DEF SendFails
  <2>4. QED BY <1>4, <2>1, <2>3
<1>9. ASSUME NEW c \in Conn, BufferFailedLine(c)
      PROVE  LinesInv'
  <2> DEFINE b == Keeper(c)
  <2>1. UNCHANGED <<owner, overflow, outVars, tok, replay, shown>>
    BY <1>9 DEF BufferFailedLine
  <2>2. /\ b \in Agent \cup {None} /\ (b # None => owner[b] = tok[c])
        /\ held[c] \in Written(tok[c])
    <3>1. phase[c] = "failed"
      BY <1>9 DEF BufferFailedLine
    <3>2. tok[c] \in Token /\ held[c] \in Line
      BY <3>1 DEF TypeInv, ConnInv
    <3>3. held[c] # None
      BY <1>c, <3>2
    <3>4. QED BY <1>a, <1>b, <3>2, <3>3 DEF Keeper
  <2> HIDE DEF b
  <2>3. b # None => Append(buffer[b], held[c]) \in Seq(Written(owner[b]))
    <3>1. b # None => b \in Agent /\ held[c] \in Written(owner[b])
      BY <2>2
    <3>2. QED BY <3>1, QueueOps
  <2>4. \A a \in Agent : buffer'[a] = buffer[a] \/ (a = b /\ b # None /\ buffer'[a] = Append(buffer[b], held[c]))
    BY <1>9, <1>a DEF BufferFailedLine, b
  <2>5. \A a \in Agent : buffer'[a] \in Seq(Written(owner[a]))
    BY <2>3, <2>4
  <2>6. \A d \in Conn : rx'[d] \in {rx[d], <<>>} /\ held'[d] \in {held[d], None}
    BY <1>9, <1>a DEF BufferFailedLine
  <2>7. \A d \in Conn : /\ rx'[d] \in Seq(Written(tok[d]))
                        /\ held'[d] # None => held'[d] \in Written(tok[d])
    BY <1>0, <2>6
  <2>8. QED BY <1>4, <2>1, <2>5, <2>7
<1>10. ASSUME NEW c \in Conn, EndTasks(c)
       PROVE  LinesInv'
  <2>1. UNCHANGED <<owner, bufVars, outVars, tok, replay, shown>>
    BY <1>10 DEF EndTasks
  <2>2. \A d \in Conn : rx'[d] \in {rx[d], <<>>} /\ held'[d] \in {held[d], None}
    BY <1>10, <1>a DEF EndTasks
  <2>3. \A d \in Conn : /\ rx'[d] \in Seq(Written(tok[d]))
                        /\ held'[d] # None => held'[d] \in Written(tok[d])
    BY <1>0, <2>2
  <2>4. QED BY <1>4, <2>1, <2>3
<1>11. ASSUME NEW c \in Conn, MarkDisconnected(c)
       PROVE  LinesInv'
  <2>1. UNCHANGED <<owner, bufVars, outVars, replay, rx, held, shown>>
    BY <1>11 DEF MarkDisconnected
  <2>2. rx[c] = <<>> /\ replay[c] = <<>> /\ held[c] = None
    BY <1>11 DEF MarkDisconnected, HoldsLines
  <2>3. \A d \in Conn : d # c => tok'[d] = tok[d]
    BY <1>11, <1>a DEF MarkDisconnected
  <2>4. QED BY <1>0, <1>4, <2>1, <2>2, <2>3
<1>12. ASSUME \/ \E c \in Conn : Subscribe(c) \/ ClientGone(c)
              \/ \E t \in Token : SpawnFails(t) \/ PoolFull(t)
              \/ \E a \in Agent : Die(a)
              \/ Tick \/ Reap \/ UNCHANGED vars
       PROVE  UNCHANGED <<owner, bufVars, outVars, tok, replay, rx, held, shown>>
  BY <1>12 DEF Subscribe, ClientGone, SpawnFails, PoolFull, Die, Tick, Reap, vars
<1>13. CASE UNCHANGED <<owner, bufVars, outVars, tok, replay, rx, held, shown>>
  BY <1>4, <1>13
<1>14. QED
  BY <1>1, <1>2, <1>3, <1>5, <1>6, <1>7, <1>8, <1>9, <1>10, <1>11, <1>12, <1>13
     DEF Next, ConnStep, AgentStep

-----------------------------------------------------------------------------
(* What is in a connection's queues, and the line in its hand, was written *)
(* by an agent of the connection's token, for any number of devices per    *)
(* token.                                                                  *)
THEOREM DeliveryInvariant == Spec => []DeliveryInv
<1>1. Init => DeliveryInv
  <2> SUFFICES ASSUME Init PROVE DeliveryInv
    OBVIOUS
  <2>1. OwnerInv /\ HoldsLines
    BY DEF Init, OwnerInv, HoldsLines, Pooled
  <2>2. \A S : <<>> \in Seq(S)
    OBVIOUS
  <2>3. LinesInv
    BY <2>2 DEF Init, LinesInv
  <2>4. QED BY <2>1, <2>3 DEF DeliveryInv
<1>2. TypeInv /\ OwnInv /\ DeliveryInv /\ [Next]_vars => DeliveryInv'
  BY OwnerStep, HoldsStep, LinesStep DEF DeliveryInv
<1>3. QED BY <1>1, <1>2, TypeCorrect, PoolOwnInv, PTL DEF Spec

(* No client is sent, and no buffer of a pooled agent keeps, a line that   *)
(* another token's agent wrote.                                            *)
THEOREM LinesStayWithTokenKept == Spec => []LinesStayWithToken
<1>1. TypeInv /\ DeliveryInv => LinesStayWithToken
  <2> SUFFICES ASSUME TypeInv, DeliveryInv PROVE LinesStayWithToken
    OBVIOUS
  <2> USE DEF DeliveryInv, LinesInv
  <2>1. ASSUME NEW t, NEW q \in Seq(Written(t)), NEW line \in Range(q)
        PROVE  owner[line[1]] = t
    <3>1. line \in Written(t)
      BY <2>1 DEF Range
    <3>2. QED BY <3>1 DEF Written
  <2>2. ASSUME NEW t \in Pooled, NEW line \in Range(buffer[pool[t]]) \cup Range(overflow[pool[t]])
        PROVE  owner[line[1]] = t
    <3>1. pool[t] \in Agent /\ owner[pool[t]] = t
      BY DEF Pooled, TypeInv, TypeOK, OwnerInv
    <3>2. buffer[pool[t]] \in Seq(Written(t)) /\ overflow[pool[t]] \in Seq(Written(t))
      BY <3>1
    <3>3. QED BY <2>1, <2>2, <3>2
  <2>3. ASSUME NEW c \in Conn, NEW line \in Range(replay[c]) \cup Range(rx[c])
        PROVE  owner[line[1]] = tok[c]
    BY <2>1, <2>3
  <2>4. QED BY <2>2, <2>3 DEF LinesStayWithToken
<1>2. QED BY <1>1, DeliveryInvariant, TypeCorrect, PTL

(* Only a reconnect takes lines out of the buffers of a pooled agent, and  *)
(* it drops only those that do not fit into a full replay buffer; for any  *)
(* number of devices per token.                                            *)
THEOREM WaitingLinesKept == Spec => WaitingLinesHandedOver
<1> DEFINE HandedOver ==
      \A t \in Pooled :
        LET a == pool[t]
            kept == Range(buffer'[a]) \cup Range(overflow'[a])
        IN  pool'[t] = a =>
              \A line \in (Range(buffer[a]) \cup Range(overflow[a])) \ kept :
                \E c \in Conn : /\ phase'[c] = "attached" /\ agent'[c] = a
                                /\ \/ line \in Range(replay'[c])
                                   \/ Len(replay'[c]) >= MaxBuffer
<1>1. TypeInv /\ [Next]_vars => HandedOver
  <2> SUFFICES ASSUME TypeInv, [Next]_vars PROVE HandedOver
    OBVIOUS
  <2>a. /\ \A t \in Pooled : pool[t] \in Agent
        /\ \A a \in Agent : buffer[a] \in Seq(Line) /\ overflow[a] \in Seq(Line)
        /\ buffer \in [Agent -> Queue(MaxBuffer)] /\ overflow \in [Agent -> Queue(MaxBuffer)]
    BY DEF TypeInv, TypeOK, Pooled, Queue
  <2>1. ASSUME \A a \in Agent : /\ Range(buffer[a]) \subseteq Range(buffer'[a])
                                /\ Range(overflow[a]) \subseteq Range(overflow'[a])
        PROVE  HandedOver
    BY <2>1, <2>a
  <2>2. ASSUME NEW q \in Seq(Line), NEW x PROVE Range(q) \subseteq Range(Append(q, x))
    BY DEF Range
  <2>3. ASSUME NEW c \in Conn, NEW t \in Token, Reuse(c, t) PROVE HandedOver
    <3> DEFINE a == pool[t]
               b == buffer[a]
               o == overflow[a]
               room == IF Len(b) < MaxBuffer THEN MaxBuffer - Len(b) ELSE 0
               n == IF Len(o) < room THEN Len(o) ELSE room
    <3>1. a \in Agent /\ agent'[c] = a /\ phase'[c] = "attached" /\ replay'[c] = Drained(a)
      BY <2>3 DEF Reuse, TypeInv, TypeOK
    <3>2. \A d \in Agent : d # a => buffer'[d] = buffer[d] /\ overflow'[d] = overflow[d]
      BY <2>3, <2>a DEF Reuse, Taken
    <3>3. b \in Seq(Line) /\ o \in Seq(Line) /\ Len(b) \in Nat /\ Len(o) \in Nat
      BY <2>a, <3>1
    <3>4. Drained(a) = b \o SubSeq(o, 1, n)
      BY DEF Drained
    <3> HIDE DEF a, b, o
    <3>5. n \in Nat /\ n <= Len(o) /\ (n = Len(o) \/ Len(b) + n >= MaxBuffer)
      BY <3>3, PoolAssumption
    <3> HIDE DEF n, room
    <3>6. /\ SubSeq(o, 1, n) \in Seq(Line) /\ Len(SubSeq(o, 1, n)) = n
          /\ \A i \in 1 .. n : SubSeq(o, 1, n)[i] = o[i]
      BY <3>3, <3>5
    <3>7. /\ Drained(a) \in Seq(Line) /\ Len(Drained(a)) = Len(b) + n
          /\ \A i \in 1 .. Len(b) : Drained(a)[i] = b[i]
          /\ \A i \in 1 .. n : Drained(a)[Len(b) + i] = o[i]
      <4> DEFINE m == SubSeq(o, 1, n)
      <4>1. m \in Seq(Line) /\ Len(m) = n /\ \A i \in 1 .. n : m[i] = o[i]
        BY <3>6
      <4>2. Drained(a) = b \o m
        BY <3>4
      <4> HIDE DEF m
      <4>3. b \o m \in Seq(Line) /\ Len(b \o m) = Len(b) + n
        BY <3>3, <3>5, <4>1
      <4>4. \A i \in 1 .. Len(b) : (b \o m)[i] = b[i]
        BY <3>3, <3>5, <4>1
      <4>5. \A i \in 1 .. n : (b \o m)[Len(b) + i] = m[i]
        BY <3>3, <3>5, <4>1
      <4>6. QED BY <4>1, <4>2, <4>3, <4>4, <4>5
    <3>8. Range(b) \subseteq Range(Drained(a))
      <4> SUFFICES ASSUME NEW i \in 1 .. Len(b) PROVE b[i] \in Range(Drained(a))
        BY <3>3 DEF Range
      <4>1. i \in 1 .. Len(Drained(a)) /\ Drained(a)[i] = b[i]
        BY <3>3, <3>5, <3>7
      <4>2. QED BY <3>7, <4>1 DEF Range
    <3>9. n = Len(o) => Range(o) \subseteq Range(Drained(a))
      <4> SUFFICES ASSUME n = Len(o), NEW i \in 1 .. Len(o) PROVE o[i] \in Range(Drained(a))
        BY <3>3 DEF Range
      <4>1. Len(b) + i \in 1 .. Len(Drained(a)) /\ Drained(a)[Len(b) + i] = o[i]
        BY <3>3, <3>5, <3>7
      <4>2. QED BY <3>7, <4>1 DEF Range
    <3>10. \A line \in Range(b) \cup Range(o) :
             line \in Range(replay'[c]) \/ Len(replay'[c]) >= MaxBuffer
      BY <3>1, <3>3, <3>5, <3>7, <3>8, <3>9
    <3>11. \A u \in Pooled : pool[u] # a =>
             buffer'[pool[u]] = buffer[pool[u]] /\ overflow'[pool[u]] = overflow[pool[u]]
      BY <2>a, <3>2
    <3>12. QED BY <3>1, <3>10, <3>11 DEF b, o
  <2>4. ASSUME NEW a \in Agent, StdoutStore(a) PROVE HandedOver
    <3>1. buffer' = buffer
      BY <2>4 DEF StdoutStore
    <3>2. \A d \in Agent : overflow'[d] = overflow[d] \/ overflow'[d] = Append(overflow[d], <<d, pending[d]>>)
      BY <2>4, <2>a DEF StdoutStore
    <3>3. ASSUME NEW d \in Agent PROVE Range(overflow[d]) \subseteq Range(overflow'[d])
      <4>1. Range(overflow[d]) \subseteq Range(Append(overflow[d], <<d, pending[d]>>))
        BY <2>2, <2>a
      <4>2. QED BY <3>2, <4>1
    <3>4. QED BY <2>1, <3>1, <3>3
  <2>5. ASSUME NEW c \in Conn, BufferFailedLine(c) PROVE HandedOver
    <3>1. overflow' = overflow
      BY <2>5 DEF BufferFailedLine
    <3>2. \A d \in Agent : buffer'[d] = buffer[d] \/ buffer'[d] = Append(buffer[d], held[c])
      BY <2>5, <2>a DEF BufferFailedLine
    <3>3. QED BY <2>1, <2>2, <2>a, <3>1, <3>2
  <2>6. ASSUME UNCHANGED bufVars PROVE HandedOver
    BY <2>1, <2>6 DEF bufVars
  <2>7. ASSUME \/ \E c \in Conn, t \in Token, a \in Agent : Spawn(c, t, a)
               \/ \E t \in Token : SpawnFails(t) \/ PoolFull(t)
               \/ \E c \in Conn : ConnStep(c) /\ ~BufferFailedLine(c)
               \/ \E a \in Agent : AgentStep(a) /\ ~StdoutStore(a)
               \/ Tick \/ Reap \/ UNCHANGED vars
        PROVE  UNCHANGED bufVars
    BY <2>7 DEF Spawn, SpawnFails, PoolFull, ConnStep, Subscribe, ReplayLine, ForwardLine,
                ClientGone, SendFails, EndTasks, MarkDisconnected, AgentStep, Die, StdoutSend,
                Tick, Reap, vars
  <2>8. QED BY <2>3, <2>4, <2>5, <2>6, <2>7 DEF Next
<1>2. QED BY <1>1, TypeCorrect, PTL DEF Spec, WaitingLinesHandedOver

-----------------------------------------------------------------------------
(* No more deliveries than devices.  The places a line can be in are kept  *)
(* in one function; steps move lines between places, drop them, or add a   *)
(* new one, once for each device.                                          *)

Places == ({"pending", "buffer", "overflow", "shown"} \X Agent) \cup ({"held", "replay", "rx"} \X Conn)

InReader(a, n) == IF n = 0 THEN <<>> ELSE <<<<a, n>>>>
InHand(line) == IF line = None THEN <<>> ELSE <<line>>

Placed(pd, bf, of, hd, rp, rc, sh) ==
  [p \in Places |->
     CASE p[1] = "pending"  -> InReader(p[2], pd[p[2]])
       [] p[1] = "buffer"   -> bf[p[2]]
       [] p[1] = "overflow" -> of[p[2]]
       [] p[1] = "held"     -> InHand(hd[p[2]])
       [] p[1] = "replay"   -> rp[p[2]]
       [] p[1] = "rx"       -> rc[p[2]]
       [] OTHER             -> sh[p[2]]]

Where == Placed(pending, buffer, overflow, held, replay, rx, shown)

(* The spots of a line in the places P, and that no line has more than d.  *)
Spots(P, f) == {s \in P \X Nat : s[2] \in 1 .. Len(f[s[1]])}
In(f, s) == f[s[1]][s[2]]
SpotsOf(P, f, x) == {s \in Spots(P, f) : In(f, s) = x}
Few(P, f, d) ==
  \A x \in Line : IsFiniteSet(SpotsOf(P, f, x)) /\ Cardinality(SpotsOf(P, f, x)) <= d

(* Every spot of g comes from a spot of f of its own, with the same line.  *)
Traced(P, f, g, h) ==
  /\ \A s \in Spots(P, g) : h[s] \in Spots(P, f) /\ In(f, h[s]) = In(g, s)
  /\ \A s, u \in Spots(P, g) : h[s] = h[u] => s = u

LEMMA InjectedIsFew ==
  ASSUME NEW S, NEW T, IsFiniteSet(T), NEW h,
         \A s \in S : h[s] \in T,
         \A s, u \in S : h[s] = h[u] => s = u
  PROVE  IsFiniteSet(S) /\ Cardinality(S) <= Cardinality(T)
<1> DEFINE k == [s \in S |-> h[s]]
<1>1. k \in [S -> T] /\ \A s, u \in S : k[s] = k[u] => s = u
  OBVIOUS
<1>2. k \in Injection(S, T)
  BY <1>1 DEF Injection, IsInjective
<1> HIDE DEF k
<1>3. QED BY <1>2, FS_Injection

LEMMA TraceKeeps ==
  ASSUME NEW P, NEW f, NEW g, NEW h, NEW d \in Nat, Few(P, f, d), Traced(P, f, g, h)
  PROVE  Few(P, g, d)
<1> SUFFICES ASSUME NEW x \in Line
             PROVE  IsFiniteSet(SpotsOf(P, g, x)) /\ Cardinality(SpotsOf(P, g, x)) <= d
  BY DEF Few
<1>1. IsFiniteSet(SpotsOf(P, f, x)) /\ Cardinality(SpotsOf(P, f, x)) <= d
  BY DEF Few
<1>2. /\ \A s \in SpotsOf(P, g, x) : h[s] \in SpotsOf(P, f, x)
      /\ \A s, u \in SpotsOf(P, g, x) : h[s] = h[u] => s = u
  BY DEF Traced, SpotsOf
<1>3. /\ IsFiniteSet(SpotsOf(P, g, x))
      /\ Cardinality(SpotsOf(P, g, x)) <= Cardinality(SpotsOf(P, f, x))
  BY <1>1, <1>2, InjectedIsFew
<1>4. Cardinality(SpotsOf(P, g, x)) \in Nat /\ Cardinality(SpotsOf(P, f, x)) \in Nat
  BY <1>1, <1>3, FS_CardinalityType
<1>5. QED BY <1>1, <1>3, <1>4

(* A spot is a place and an index.                                         *)
LEMMA SpotIs ==
  ASSUME NEW P, NEW f
  PROVE  /\ \A p \in P, i \in Nat : i \in 1 .. Len(f[p]) => <<p, i>> \in Spots(P, f) /\ In(f, <<p, i>>) = f[p][i]
         /\ \A s \in Spots(P, f) : /\ s = <<s[1], s[2]>> /\ s[1] \in P /\ s[2] \in Nat
                                   /\ s[2] \in 1 .. Len(f[s[1]]) /\ In(f, s) = f[s[1]][s[2]]
BY DEF Spots, In

(* Dropping a place's first line, or all of them.                          *)
Shrunk(P, f, g) ==
  \A r \in P : g[r] = f[r] \/ g[r] = <<>> \/ (f[r] # <<>> /\ g[r] = Tail(f[r]))

LEMMA ShrinkKeeps ==
  ASSUME NEW P, NEW f \in [P -> Seq(Line)], NEW g \in [P -> Seq(Line)], NEW d \in Nat,
         Few(P, f, d), Shrunk(P, f, g)
  PROVE  Few(P, g, d)
<1> DEFINE k(s) == IF g[s[1]] = f[s[1]] THEN s[2] ELSE s[2] + 1
           h == [s \in Spots(P, g) |-> <<s[1], k(s)>>]
<1>1. ASSUME NEW r \in P, NEW i \in 1 .. Len(g[r])
      PROVE  LET m == IF g[r] = f[r] THEN i ELSE i + 1
             IN  m \in Nat /\ m \in 1 .. Len(f[r]) /\ f[r][m] = g[r][i]
  <2>1. CASE g[r] = f[r]
    BY <2>1
  <2>2. CASE g[r] # f[r]
    <3>1. f[r] # <<>> /\ g[r] = Tail(f[r]) /\ f[r] \in Seq(Line)
      BY <1>1, <2>2 DEF Shrunk
    <3>2. Len(g[r]) = Len(f[r]) - 1 /\ Len(f[r]) \in Nat
      BY <3>1, HeadTailProperties
    <3>3. \A m \in 1 .. Len(g[r]) : g[r][m] = f[r][m + 1]
      BY <3>1, HeadTailProperties
    <3>4. QED BY <1>1, <2>2, <3>2, <3>3
  <2>3. QED BY <2>1, <2>2
<1>2. ASSUME NEW s \in Spots(P, g)
      PROVE  h[s] \in Spots(P, f) /\ In(f, h[s]) = In(g, s)
  <2>1. s[1] \in P /\ s[2] \in 1 .. Len(g[s[1]]) /\ In(g, s) = g[s[1]][s[2]]
    BY SpotIs
  <2>2. k(s) \in Nat /\ k(s) \in 1 .. Len(f[s[1]]) /\ f[s[1]][k(s)] = g[s[1]][s[2]]
    BY <1>1, <2>1
  <2>3. h[s] = <<s[1], k(s)>>
    OBVIOUS
  <2> HIDE DEF h, k
  <2>4. <<s[1], k(s)>> \in Spots(P, f) /\ In(f, <<s[1], k(s)>>) = g[s[1]][s[2]]
    BY <2>1, <2>2 DEF Spots, In
  <2>5. QED BY <2>1, <2>3, <2>4
<1>3. ASSUME NEW s \in Spots(P, g), NEW u \in Spots(P, g), h[s] = h[u]
      PROVE  s = u
  <2>1. s = <<s[1], s[2]>> /\ u = <<u[1], u[2]>> /\ s[2] \in Nat /\ u[2] \in Nat
    BY SpotIs
  <2>2. s[1] = u[1] /\ k(s) = k(u)
    BY <1>3
  <2>3. s[2] = u[2]
    BY <2>1, <2>2
  <2>4. QED BY <2>1, <2>2, <2>3
<1> HIDE DEF h
<1>4. Traced(P, f, g, h)
  BY <1>2, <1>3 DEF Traced
<1>5. QED BY <1>4, TraceKeeps

(* x is nowhere in f; g is f outside Q.                                    *)
Fresh(P, f, x) == \A r \in P : \A i \in 1 .. Len(f[r]) : f[r][i] # x
SameBut(P, f, g, Q) == \A r \in P \ Q : g[r] = f[r]

(* A fresh line is added to the places Q, all but one of which may drop    *)
(* their first line for it.                                                *)
Spread(P, f, g, Q, x) ==
  /\ Q \subseteq P /\ Fresh(P, f, x) /\ SameBut(P, f, g, Q)
  /\ \A r \in Q : g[r] = Append(f[r], x) \/ (f[r] # <<>> /\ g[r] = Append(Tail(f[r]), x))

LEMMA SpreadKeeps ==
  ASSUME NEW P, NEW f \in [P -> Seq(Line)], NEW g \in [P -> Seq(Line)], NEW d \in Nat,
         Few(P, f, d), NEW Q, NEW x \in Line, Spread(P, f, g, Q, x),
         IsFiniteSet(Q), Cardinality(Q) <= d
  PROVE  Few(P, g, d)
<1> DEFINE Moves(r) == r \in Q /\ g[r] # Append(f[r], x)
           k(s) == IF Moves(s[1]) THEN s[2] + 1 ELSE s[2]
           h == [s \in Spots(P, g) |-> <<s[1], k(s)>>]
<1>1. ASSUME NEW r \in P, NEW i \in 1 .. Len(g[r])
      PROVE  \/ LET m == IF Moves(r) THEN i + 1 ELSE i
                IN  m \in Nat /\ m \in 1 .. Len(f[r]) /\ f[r][m] = g[r][i] /\ g[r][i] # x
             \/ r \in Q /\ i = Len(g[r]) /\ g[r][i] = x
  <2>0. f[r] \in Seq(Line) /\ Len(f[r]) \in Nat
    OBVIOUS
  <2>1. CASE r \notin Q
    <3>1. g[r] = f[r]
      BY <2>1 DEF Spread, SameBut
    <3>2. QED BY <1>1, <2>0, <2>1, <3>1 DEF Spread, Fresh
  <2>2. CASE r \in Q /\ g[r] = Append(f[r], x)
    <3>1. Len(g[r]) = Len(f[r]) + 1 /\ g[r][Len(f[r]) + 1] = x
          /\ \A m \in 1 .. Len(f[r]) : g[r][m] = f[r][m]
      BY <2>0, <2>2, AppendProperties
    <3>2. CASE i \in 1 .. Len(f[r])
      BY <2>0, <2>2, <3>1, <3>2 DEF Spread, Fresh
    <3>3. CASE i = Len(f[r]) + 1
      BY <2>2, <3>1, <3>3
    <3>4. QED BY <1>1, <2>0, <3>1, <3>2, <3>3
  <2>3. CASE Moves(r)
    <3>1. f[r] # <<>> /\ g[r] = Append(Tail(f[r]), x) /\ r \in Q
      BY <2>3 DEF Spread
    <3>2. PICK q \in Seq(Line) : /\ q = Tail(f[r]) /\ Len(q) = Len(f[r]) - 1 /\ Len(q) \in Nat
                                 /\ \A m \in 1 .. Len(q) : q[m] = f[r][m + 1]
      <4>1. /\ Tail(f[r]) \in Seq(Line) /\ Len(Tail(f[r])) = Len(f[r]) - 1 /\ Len(Tail(f[r])) \in Nat
            /\ \A m \in 1 .. Len(Tail(f[r])) : Tail(f[r])[m] = f[r][m + 1]
        BY <2>0, <3>1, HeadTailProperties
      <4>2. QED BY <4>1, Zenon
    <3>3. Len(g[r]) = Len(q) + 1 /\ g[r][Len(q) + 1] = x
          /\ \A m \in 1 .. Len(q) : g[r][m] = q[m]
      BY <3>1, <3>2, AppendProperties
    <3>4. CASE i \in 1 .. Len(q)
      <4>1. i + 1 \in 1 .. Len(f[r]) /\ f[r][i + 1] = g[r][i]
        BY <2>0, <3>2, <3>3, <3>4
      <4>2. g[r][i] # x
        BY <4>1 DEF Spread, Fresh
      <4>3. QED BY <2>3, <3>4, <4>1, <4>2
    <3>5. CASE i = Len(q) + 1
      BY <3>1, <3>3, <3>5
    <3>6. i \in 1 .. Len(q) \/ i = Len(q) + 1
      <4>1. i \in 1 .. Len(q) + 1 /\ Len(q) \in Nat
        BY <1>1, <3>2, <3>3
      <4>2. QED BY <4>1
    <3>7. QED BY <3>4, <3>5, <3>6
  <2>4. QED BY <2>1, <2>2, <2>3
<1> SUFFICES ASSUME NEW y \in Line
             PROVE  IsFiniteSet(SpotsOf(P, g, y)) /\ Cardinality(SpotsOf(P, g, y)) <= d
  BY DEF Few
<1>2. CASE y = x
  <2> DEFINE e == [s \in SpotsOf(P, g, y) |-> s[1]]
  <2>1. ASSUME NEW s \in SpotsOf(P, g, y)
        PROVE  s = <<s[1], Len(g[s[1]])>> /\ s[1] \in Q
    <3>1. /\ s = <<s[1], s[2]>> /\ s[1] \in P /\ s[2] \in 1 .. Len(g[s[1]])
          /\ g[s[1]][s[2]] = x
      BY <1>2, SpotIs DEF SpotsOf
    <3>2. s[1] \in Q /\ s[2] = Len(g[s[1]])
      BY <1>1, <3>1
    <3>3. QED BY <3>1, <3>2
  <2>2. /\ \A s \in SpotsOf(P, g, y) : e[s] \in Q
        /\ \A s, u \in SpotsOf(P, g, y) : e[s] = e[u] => s = u
    <3>1. \A s \in SpotsOf(P, g, y) : e[s] = s[1]
      OBVIOUS
    <3> HIDE DEF e
    <3>2. QED BY ZenonT(30), <2>1, <3>1
  <2> HIDE DEF e
  <2>3. IsFiniteSet(SpotsOf(P, g, y)) /\ Cardinality(SpotsOf(P, g, y)) <= Cardinality(Q)
    BY <2>2, InjectedIsFew
  <2>4. Cardinality(SpotsOf(P, g, y)) \in Nat /\ Cardinality(Q) \in Nat
    BY <2>3, FS_CardinalityType
  <2>5. QED BY <2>3, <2>4
<1>3. CASE y # x
  <2>1. ASSUME NEW s \in SpotsOf(P, g, y)
        PROVE  /\ s \in Spots(P, g) /\ s = <<s[1], s[2]>> /\ s[2] \in Nat
               /\ h[s] = <<s[1], k(s)>> /\ h[s] \in SpotsOf(P, f, y)
    <3>1. /\ s = <<s[1], s[2]>> /\ s[1] \in P /\ s[2] \in Nat /\ s[2] \in 1 .. Len(g[s[1]])
          /\ g[s[1]][s[2]] = y /\ s \in Spots(P, g)
      BY SpotIs DEF SpotsOf
    <3>2. k(s) \in Nat /\ k(s) \in 1 .. Len(f[s[1]]) /\ f[s[1]][k(s)] = y
      BY <1>1, <1>3, <3>1
    <3>3. h[s] = <<s[1], k(s)>>
      BY <3>1
    <3> HIDE DEF h, k
    <3>4. <<s[1], k(s)>> \in Spots(P, f) /\ In(f, <<s[1], k(s)>>) = y
      BY <3>1, <3>2 DEF Spots, In
    <3>5. QED BY <3>1, <3>3, <3>4 DEF SpotsOf
  <2>2. ASSUME NEW s \in SpotsOf(P, g, y), NEW u \in SpotsOf(P, g, y), h[s] = h[u]
        PROVE  s = u
    <3>1. s[1] = u[1] /\ k(s) = k(u)
      BY <2>1, <2>2
    <3>2. s[2] \in Nat /\ u[2] \in Nat /\ (Moves(s[1]) <=> Moves(u[1]))
      BY <2>1, <3>1
    <3>3. s[2] = u[2]
      BY <3>1, <3>2
    <3>4. QED BY <2>1, <3>1, <3>3
  <2> HIDE DEF h
  <2>3. IsFiniteSet(SpotsOf(P, f, y)) /\ Cardinality(SpotsOf(P, f, y)) <= d
    BY DEF Few
  <2>4. /\ IsFiniteSet(SpotsOf(P, g, y))
        /\ Cardinality(SpotsOf(P, g, y)) <= Cardinality(SpotsOf(P, f, y))
    BY <2>1, <2>2, <2>3, InjectedIsFew
  <2>5. Cardinality(SpotsOf(P, g, y)) \in Nat /\ Cardinality(SpotsOf(P, f, y)) \in Nat
    BY <2>3, <2>4, FS_CardinalityType
  <2>6. QED BY <2>3, <2>4, <2>5
<1>4. QED BY <1>2, <1>3

(* Moving a place's first line to the end of another.                      *)
Moved(P, f, g, p, q) ==
  /\ p # q /\ f[p] # <<>>
  /\ g[p] = Tail(f[p]) /\ g[q] = Append(f[q], Head(f[p]))
  /\ SameBut(P, f, g, {p, q})

LEMMA MoveKeeps ==
  ASSUME NEW P, NEW f \in [P -> Seq(Line)], NEW g \in [P -> Seq(Line)], NEW d \in Nat, Few(P, f, d),
         NEW p \in P, NEW q \in P, Moved(P, f, g, p, q)
  PROVE  Few(P, g, d)
<1>0. /\ p # q /\ f[p] # <<>> /\ g[p] = Tail(f[p]) /\ g[q] = Append(f[q], Head(f[p]))
      /\ \A r \in P \ {p, q} : g[r] = f[r]
  BY DEF Moved, SameBut
<1>1. f[p] \in Seq(Line) /\ f[q] \in Seq(Line) /\ Len(f[q]) \in Nat
  OBVIOUS
<1>2. /\ Head(f[p]) = f[p][1] /\ Len(f[p]) \in Nat \ {0} /\ Len(g[p]) = Len(f[p]) - 1
      /\ \A i \in 1 .. Len(g[p]) : g[p][i] = f[p][i + 1]
  BY <1>0, <1>1, HeadTailProperties
<1>3. /\ Len(g[q]) = Len(f[q]) + 1 /\ g[q][Len(f[q]) + 1] = f[p][1]
      /\ \A i \in 1 .. Len(f[q]) : g[q][i] = f[q][i]
  <2>1. Head(f[p]) \in Line
    BY <1>0, <1>1, HeadTailProperties
  <2>2. QED BY <1>0, <1>1, <1>2, <2>1, AppendProperties
<1> DEFINE n == Len(f[q]) + 1
           From(r, i) == IF r = p THEN <<p, i + 1>> ELSE IF r = q /\ i = n THEN <<p, 1>> ELSE <<r, i>>
           h == [s \in Spots(P, g) |-> From(s[1], s[2])]
<1>4. ASSUME NEW r \in P, NEW i \in Nat, i \in 1 .. Len(g[r])
      PROVE  /\ From(r, i)[1] \in P /\ From(r, i)[2] \in Nat
             /\ From(r, i)[2] \in 1 .. Len(f[From(r, i)[1]])
             /\ f[From(r, i)[1]][From(r, i)[2]] = g[r][i]
             /\ From(r, i) = <<From(r, i)[1], From(r, i)[2]>>
  <2>1. CASE r = p
    BY <1>2, <1>4, <2>1
  <2>2. CASE r = q /\ i = n
    BY <1>0, <1>2, <1>3, <2>2
  <2>3. CASE r = q /\ i # n
    <3>1. i \in 1 .. Len(f[q])
      BY <1>1, <1>3, <1>4, <2>3
    <3>2. QED BY <1>0, <1>3, <2>3, <3>1
  <2>4. CASE r \notin {p, q}
    BY <1>0, <1>4, <2>4
  <2>5. QED BY <2>1, <2>2, <2>3, <2>4
<1>5. ASSUME NEW s \in Spots(P, g)
      PROVE  h[s] \in Spots(P, f) /\ In(f, h[s]) = In(g, s)
  <2>1. s[1] \in P /\ s[2] \in Nat /\ s[2] \in 1 .. Len(g[s[1]]) /\ In(g, s) = g[s[1]][s[2]]
    BY SpotIs
  <2>2. h[s] = From(s[1], s[2])
    OBVIOUS
  <2> HIDE DEF h, From
  <2>3. PICK r \in P, i \in Nat : From(s[1], s[2]) = <<r, i>> /\ i \in 1 .. Len(f[r]) /\ f[r][i] = In(g, s)
    BY <1>4, <2>1
  <2>4. <<r, i>> \in Spots(P, f) /\ In(f, <<r, i>>) = In(g, s)
    BY <2>3 DEF Spots, In
  <2>5. QED BY <2>2, <2>3, <2>4
<1>6. ASSUME NEW s \in Spots(P, g), NEW u \in Spots(P, g), h[s] = h[u]
      PROVE  s = u
  <2>1. /\ s = <<s[1], s[2]>> /\ u = <<u[1], u[2]>> /\ s[2] \in Nat \ {0} /\ u[2] \in Nat \ {0}
    BY SpotIs
  <2>2. From(s[1], s[2]) = From(u[1], u[2])
    BY <1>6
  <2>3. s[1] = u[1] /\ s[2] = u[2]
    BY <1>0, <2>1, <2>2
  <2>4. QED BY <2>1, <2>3
<1> HIDE DEF h
<1>7. Traced(P, f, g, h)
  BY <1>5, <1>6 DEF Traced
<1>8. QED BY <1>7, TraceKeeps

(* Merging two places into an empty third, and emptying them.              *)
Merged(P, f, g, p, q, r, n) ==
  /\ p # q /\ p # r /\ q # r /\ n <= Len(f[r])
  /\ g[p] = f[q] \o SubSeq(f[r], 1, n) /\ g[q] = <<>> /\ g[r] = <<>>
  /\ SameBut(P, f, g, {p, q, r})

LEMMA MergeKeeps ==
  ASSUME NEW P, NEW f \in [P -> Seq(Line)], NEW g \in [P -> Seq(Line)], NEW d \in Nat, Few(P, f, d),
         NEW p \in P, NEW q \in P, NEW r \in P, NEW n \in Nat, Merged(P, f, g, p, q, r, n)
  PROVE  Few(P, g, d)
<1> USE DEF Merged, SameBut
<1>a. PICK a \in Seq(Line) : a = f[q]
  OBVIOUS
<1>1. f[r] \in Seq(Line) /\ Len(a) \in Nat /\ Len(f[r]) \in Nat
  OBVIOUS
<1>2. PICK m \in Seq(Line) : m = SubSeq(f[r], 1, n) /\ Len(m) = n /\ \A i \in 1 .. n : m[i] = f[r][i]
  <2>1. SubSeq(f[r], 1, n) \in Seq(Line) /\ Len(SubSeq(f[r], 1, n)) = n
        /\ \A i \in 1 .. n : SubSeq(f[r], 1, n)[i] = f[r][i]
    BY <1>1
  <2>2. QED BY <2>1
<1>3. /\ Len(a \o m) = Len(a) + n
      /\ \A i \in 1 .. Len(a) + n : (a \o m)[i] = IF i <= Len(a) THEN a[i] ELSE m[i - Len(a)]
  <2>1. Len(a \o m) = Len(a) + Len(m)
    BY ConcatProperties
  <2>2. ASSUME NEW i \in 1 .. Len(a) + n
        PROVE  (a \o m)[i] = IF i <= Len(a) THEN a[i] ELSE m[i - Len(a)]
    BY <1>1, <1>2, ConcatProperties
  <2>3. QED BY <1>2, <2>1, <2>2
<1>4. g[p] = a \o m
  BY <1>a, <1>2
<1> DEFINE Pl(u, i) == IF u = p THEN IF i <= Len(a) THEN q ELSE r ELSE u
           Ix(u, i) == IF u = p /\ i > Len(a) THEN i - Len(a) ELSE i
<1>5. ASSUME NEW u \in P, NEW i \in 1 .. Len(g[u])
      PROVE  /\ Pl(u, i) \in P /\ Ix(u, i) \in 1 .. Len(f[Pl(u, i)])
             /\ f[Pl(u, i)][Ix(u, i)] = g[u][i]
             /\ u \notin {q, r}
  <2>1. CASE u = p
    <3>1. i \in 1 .. Len(a) + n
      BY <1>3, <1>4, <2>1
    <3>2. CASE i <= Len(a)
      <4>1. i \in 1 .. Len(a)
        BY <1>1, <3>1, <3>2
      <4>2. g[u][i] = a[i]
        BY <1>3, <1>4, <2>1, <3>1, <3>2
      <4>3. Pl(u, i) = q /\ Ix(u, i) = i
        BY <1>1, <2>1, <3>2, <4>1
      <4>4. QED BY <1>a, <2>1, <4>1, <4>2, <4>3
    <3>3. CASE i > Len(a)
      <4>1. i - Len(a) \in 1 .. n
        BY <1>1, <3>1, <3>3
      <4>2. (a \o m)[i] = f[r][i - Len(a)] /\ i - Len(a) \in 1 .. Len(f[r])
        <5>1. (a \o m)[i] = m[i - Len(a)]
          BY <1>1, <1>3, <3>1, <3>3
        <5>2. m[i - Len(a)] = f[r][i - Len(a)]
          BY <1>2, <4>1
        <5>3. i - Len(a) \in 1 .. Len(f[r])
          BY <1>1, <4>1
        <5>4. QED BY <5>1, <5>2, <5>3
      <4>3. QED BY SMTT(30), <1>1, <1>4, <2>1, <3>3, <4>2
    <3>4. QED BY <1>1, <3>1, <3>2, <3>3
  <2>2. CASE u \in {q, r}
    BY <2>2
  <2>3. CASE u \notin {p, q, r}
    BY <2>3
  <2>4. QED BY <2>1, <2>2, <2>3
<1> DEFINE h == [s \in Spots(P, g) |-> <<Pl(s[1], s[2]), Ix(s[1], s[2])>>]
<1>6. ASSUME NEW s \in Spots(P, g)
      PROVE  /\ h[s] \in Spots(P, f) /\ In(f, h[s]) = In(g, s)
             /\ s[1] \notin {q, r} /\ s = <<s[1], s[2]>> /\ s[2] \in Nat
  <2>1. /\ s[1] \in P /\ s[2] \in 1 .. Len(g[s[1]]) /\ In(g, s) = g[s[1]][s[2]]
        /\ s = <<s[1], s[2]>> /\ s[2] \in Nat
    BY SpotIs
  <2>2. h[s] = <<Pl(s[1], s[2]), Ix(s[1], s[2])>>
    OBVIOUS
  <2>3. /\ Pl(s[1], s[2]) \in P /\ Ix(s[1], s[2]) \in 1 .. Len(f[Pl(s[1], s[2])])
        /\ f[Pl(s[1], s[2])][Ix(s[1], s[2])] = g[s[1]][s[2]]
        /\ s[1] \notin {q, r}
    BY <1>5, <2>1
  <2> HIDE DEF h, Pl, Ix
  <2>4. PICK u \in P, i \in Nat : h[s] = <<u, i>> /\ i \in 1 .. Len(f[u]) /\ f[u][i] = In(g, s)
    BY <2>1, <2>2, <2>3
  <2>5. <<u, i>> \in Spots(P, f) /\ In(f, <<u, i>>) = In(g, s)
    BY <2>4 DEF Spots, In
  <2>6. QED BY <2>1, <2>3, <2>4, <2>5
<1>7. ASSUME NEW s \in Spots(P, g), NEW u \in Spots(P, g), h[s] = h[u]
      PROVE  s = u
  <2>1. Pl(s[1], s[2]) = Pl(u[1], u[2]) /\ Ix(s[1], s[2]) = Ix(u[1], u[2])
    BY <1>7
  <2>2. s[2] \in Nat /\ u[2] \in Nat /\ s[1] \notin {q, r} /\ u[1] \notin {q, r}
    BY <1>6
  <2>3. s[1] = u[1]
    BY <2>1, <2>2
  <2>4. s[2] = u[2]
    <3>1. CASE s[1] = p
      <4>1. s[2] <= Len(a) <=> u[2] <= Len(a)
        BY <2>1, <2>3, <3>1 DEF Merged
      <4>2. QED BY <1>1, <2>1, <2>2, <2>3, <3>1, <4>1
    <3>2. CASE s[1] # p
      BY <2>1, <2>3, <3>2
    <3>3. QED BY <3>1, <3>2
  <2>5. QED BY <1>6, <2>3, <2>4
<1> HIDE DEF h
<1>8. Traced(P, f, g, h)
  BY <1>6, <1>7 DEF Traced
<1>9. QED BY <1>8, TraceKeeps

(* What each place holds.                                                  *)
LEMMA PlacesAre ==
  /\ \A a \in Agent : /\ <<"pending", a>> \in Places /\ <<"buffer", a>> \in Places
                      /\ <<"overflow", a>> \in Places /\ <<"shown", a>> \in Places
  /\ \A c \in Conn : <<"held", c>> \in Places /\ <<"replay", c>> \in Places /\ <<"rx", c>> \in Places
  /\ \A p \in Places :
       \/ \E a \in Agent : \/ p = <<"pending", a>> \/ p = <<"buffer", a>>
                           \/ p = <<"overflow", a>> \/ p = <<"shown", a>>
       \/ \E c \in Conn : p = <<"held", c>> \/ p = <<"replay", c>> \/ p = <<"rx", c>>
BY DEF Places

LEMMA PlacedValues ==
  ASSUME NEW pd, NEW bf, NEW of, NEW hd, NEW rp, NEW rc, NEW sh
  PROVE  LET W == Placed(pd, bf, of, hd, rp, rc, sh) IN
         /\ \A a \in Agent : /\ W[<<"pending", a>>] = InReader(a, pd[a])
                             /\ W[<<"buffer", a>>] = bf[a]
                             /\ W[<<"overflow", a>>] = of[a]
                             /\ W[<<"shown", a>>] = sh[a]
         /\ \A c \in Conn : /\ W[<<"held", c>>] = InHand(hd[c])
                            /\ W[<<"replay", c>>] = rp[c]
                            /\ W[<<"rx", c>>] = rc[c]
<1> DEFINE W == Placed(pd, bf, of, hd, rp, rc, sh)
<1>1. ASSUME NEW a \in Agent
      PROVE  /\ W[<<"pending", a>>] = InReader(a, pd[a]) /\ W[<<"buffer", a>>] = bf[a]
             /\ W[<<"overflow", a>>] = of[a] /\ W[<<"shown", a>>] = sh[a]
  BY PlacesAre DEF Placed
<1>2. ASSUME NEW c \in Conn
      PROVE  W[<<"held", c>>] = InHand(hd[c]) /\ W[<<"replay", c>>] = rp[c] /\ W[<<"rx", c>>] = rc[c]
  BY PlacesAre DEF Placed
<1>3. QED BY <1>1, <1>2

(* Places hold sequences of lines.                                         *)
LEMMA PlacedTypes ==
  ASSUME NEW S, NEW pd, NEW bf, NEW of, NEW hd, NEW rp, NEW rc, NEW sh,
         \A a \in Agent : /\ pd[a] # 0 => <<a, pd[a]>> \in S
                          /\ bf[a] \in Seq(S) /\ of[a] \in Seq(S) /\ sh[a] \in Seq(S),
         \A c \in Conn : /\ hd[c] # None => hd[c] \in S
                         /\ rp[c] \in Seq(S) /\ rc[c] \in Seq(S)
  PROVE  Placed(pd, bf, of, hd, rp, rc, sh) \in [Places -> Seq(S)]
<1> DEFINE W == Placed(pd, bf, of, hd, rp, rc, sh)
<1>1. \A a \in Agent : InReader(a, pd[a]) \in Seq(S)
  BY DEF InReader
<1>2. \A c \in Conn : InHand(hd[c]) \in Seq(S)
  BY DEF InHand
<1>3. W = [p \in Places |-> W[p]]
  BY DEF Placed
<1> HIDE DEF W
<1>4. ASSUME NEW a \in Agent
      PROVE  /\ W[<<"pending", a>>] \in Seq(S) /\ W[<<"buffer", a>>] \in Seq(S)
             /\ W[<<"overflow", a>>] \in Seq(S) /\ W[<<"shown", a>>] \in Seq(S)
  <2>1. /\ W[<<"pending", a>>] = InReader(a, pd[a]) /\ W[<<"buffer", a>>] = bf[a]
        /\ W[<<"overflow", a>>] = of[a] /\ W[<<"shown", a>>] = sh[a]
    BY PlacedValues DEF W
  <2>2. QED BY <1>1, <2>1
<1>5. ASSUME NEW c \in Conn
      PROVE  W[<<"held", c>>] \in Seq(S) /\ W[<<"replay", c>>] \in Seq(S) /\ W[<<"rx", c>>] \in Seq(S)
  <2>1. W[<<"held", c>>] = InHand(hd[c]) /\ W[<<"replay", c>>] = rp[c] /\ W[<<"rx", c>>] = rc[c]
    BY PlacedValues DEF W
  <2>2. QED BY <1>2, <2>1
<1>6. \A p \in Places : W[p] \in Seq(S)
  BY <1>4, <1>5, PlacesAre
<1>7. W \in [Places -> Seq(S)]
  BY <1>3, <1>6
<1>8. QED BY <1>7 DEF W

(* Two arrangements agree outside Q when they agree place by place.        *)
LEMMA SameElsewhere ==
  ASSUME NEW W, NEW V, NEW Q,
         \A a \in Agent : /\ <<"pending", a>> \in Q \/ V[<<"pending", a>>] = W[<<"pending", a>>]
                          /\ <<"buffer", a>> \in Q \/ V[<<"buffer", a>>] = W[<<"buffer", a>>]
                          /\ <<"overflow", a>> \in Q \/ V[<<"overflow", a>>] = W[<<"overflow", a>>]
                          /\ <<"shown", a>> \in Q \/ V[<<"shown", a>>] = W[<<"shown", a>>],
         \A c \in Conn : /\ <<"held", c>> \in Q \/ V[<<"held", c>>] = W[<<"held", c>>]
                         /\ <<"replay", c>> \in Q \/ V[<<"replay", c>>] = W[<<"replay", c>>]
                         /\ <<"rx", c>> \in Q \/ V[<<"rx", c>>] = W[<<"rx", c>>]
  PROVE  SameBut(Places, W, V, Q)
<1> SUFFICES ASSUME NEW p \in Places, p \notin Q PROVE V[p] = W[p]
  BY DEF SameBut
<1>1. ASSUME NEW a \in Agent,
             p = <<"pending", a>> \/ p = <<"buffer", a>> \/ p = <<"overflow", a>> \/ p = <<"shown", a>>
      PROVE  V[p] = W[p]
  BY <1>1
<1>2. ASSUME NEW c \in Conn, p = <<"held", c>> \/ p = <<"replay", c>> \/ p = <<"rx", c>>
      PROVE  V[p] = W[p]
  BY <1>2
<1>3. QED BY <1>1, <1>2, PlacesAre

LEMMA WhereIs ==
  /\ \A a \in Agent : /\ Where[<<"pending", a>>] = InReader(a, pending[a])
                      /\ Where[<<"buffer", a>>] = buffer[a]
                      /\ Where[<<"overflow", a>>] = overflow[a]
                      /\ Where[<<"shown", a>>] = shown[a]
  /\ \A c \in Conn : /\ Where[<<"held", c>>] = InHand(held[c])
                     /\ Where[<<"replay", c>>] = replay[c]
                     /\ Where[<<"rx", c>>] = rx[c]
BY PlacedValues DEF Where

-----------------------------------------------------------------------------
(* A token is never used by more connections than it has devices.          *)
Users(t) == {c \in Conn : Using(c, t)}
FewUsers == \A t \in Token : IsFiniteSet(Users(t)) /\ Cardinality(Users(t)) <= DevicesPerToken

LEMMA FewUsersStep ==
  ASSUME TypeInv, FewUsers, [Next]_vars
  PROVE  FewUsers'
<1> USE PoolAssumption DEF poolVars, histVars, connVars
<1> SUFFICES ASSUME NEW u \in Token
             PROVE  IsFiniteSet(Users(u)') /\ Cardinality(Users(u)') <= DevicesPerToken
  BY DEF FewUsers
<1>0. /\ phase \in [Conn -> Phase] /\ tok \in [Conn -> Token \cup {None}]
      /\ IsFiniteSet(Users(u)) /\ Cardinality(Users(u)) <= DevicesPerToken
      /\ Cardinality(Users(u)) \in Nat
  BY FS_CardinalityType DEF TypeInv, TypeOK, FewUsers
<1>1. ASSUME Users(u)' \subseteq Users(u)
      PROVE  IsFiniteSet(Users(u)') /\ Cardinality(Users(u)') <= DevicesPerToken
  <2>1. IsFiniteSet(Users(u)') /\ Cardinality(Users(u)') <= Cardinality(Users(u))
    BY <1>0, <1>1, FS_Subset
  <2>2. Cardinality(Users(u)') \in Nat
    BY <2>1, FS_CardinalityType
  <2>3. QED BY <1>0, <2>1, <2>2
<1>2. ASSUME NEW c \in Conn, NEW t \in Token, Admitted(t),
             \A d \in Conn \ {c} : phase'[d] = phase[d] /\ tok'[d] = tok[d],
             tok'[c] = t, phase[c] = "none"
      PROVE  IsFiniteSet(Users(u)') /\ Cardinality(Users(u)') <= DevicesPerToken
  <2>1. CASE u # t
    <3>1. Users(u)' \subseteq Users(u)
      BY <1>2, <2>1 DEF Users, Using
    <3>2. QED BY <1>1, <3>1
  <2>2. CASE u = t
    <3>1. Users(u)' \subseteq Users(u) \cup {c}
      BY <1>2 DEF Users, Using
    <3>2. Cardinality(Users(u)) < DevicesPerToken
      BY <1>2, <2>2 DEF Admitted, Users
    <3>3. /\ IsFiniteSet(Users(u) \cup {c})
          /\ Cardinality(Users(u) \cup {c}) <= Cardinality(Users(u)) + 1
      <4> DEFINE U == Users(u)
      <4>1. IsFiniteSet(U) /\ Cardinality(U) \in Nat
        BY <1>0
      <4> HIDE DEF U
      <4>2. /\ IsFiniteSet(U \cup {c})
            /\ \/ Cardinality(U \cup {c}) = Cardinality(U)
               \/ Cardinality(U \cup {c}) = Cardinality(U) + 1
        BY <4>1, FS_AddElement
      <4>3. IsFiniteSet(U \cup {c}) /\ Cardinality(U \cup {c}) <= Cardinality(U) + 1
        BY <4>1, <4>2
      <4>4. QED BY <4>3 DEF U
    <3>4. IsFiniteSet(Users(u)') /\ Cardinality(Users(u)') <= Cardinality(Users(u) \cup {c})
      BY <3>1, <3>3, FS_Subset
    <3>5. Cardinality(Users(u)') \in Nat /\ Cardinality(Users(u) \cup {c}) \in Nat
      BY <3>3, <3>4, FS_CardinalityType
    <3>6. QED BY <1>0, <3>2, <3>3, <3>4, <3>5
  <2>3. QED BY <2>1, <2>2
<1>3. ASSUME NEW c \in Conn, NEW t \in Token, Reuse(c, t)
      PROVE  IsFiniteSet(Users(u)') /\ Cardinality(Users(u)') <= DevicesPerToken
  <2>1. /\ \A d \in Conn \ {c} : phase'[d] = phase[d] /\ tok'[d] = tok[d]
        /\ tok'[c] = t /\ phase[c] = "none" /\ Admitted(t)
    BY <1>0, <1>3 DEF Reuse
  <2>2. QED BY <1>2, <2>1
<1>4. ASSUME NEW c \in Conn, NEW t \in Token, NEW a \in Agent, Spawn(c, t, a)
      PROVE  IsFiniteSet(Users(u)') /\ Cardinality(Users(u)') <= DevicesPerToken
  <2>1. /\ \A d \in Conn \ {c} : phase'[d] = phase[d] /\ tok'[d] = tok[d]
        /\ tok'[c] = t /\ phase[c] = "none" /\ Admitted(t)
    BY <1>0, <1>4 DEF Spawn
  <2>2. QED BY <1>2, <2>1
<1>5. ASSUME NEW c \in Conn, ConnStep(c)
      PROVE  Users(u)' \subseteq Users(u)
  <2>1. \A d \in Conn : phase'[d] # "none" => phase[d] # "none" /\ tok'[d] = tok[d]
    BY <1>0, <1>5 DEF ConnStep, Subscribe, ReplayLine, ForwardLine, ClientGone, SendFails,
                      BufferFailedLine, EndTasks, MarkDisconnected
  <2>2. QED BY <2>1 DEF Users, Using
<1>6. ASSUME \/ \E t \in Token : SpawnFails(t) \/ PoolFull(t)
             \/ \E a \in Agent : AgentStep(a)
             \/ Tick \/ Reap \/ UNCHANGED vars
      PROVE  Users(u)' \subseteq Users(u)
  <2>1. phase' = phase /\ tok' = tok
    BY <1>6 DEF SpawnFails, PoolFull, AgentStep, Die, StdoutSend, StdoutStore, Tick, Reap, vars
  <2>2. QED BY <2>1 DEF Users, Using
<1>7. QED BY <1>1, <1>3, <1>4, <1>5, <1>6 DEF Next

-----------------------------------------------------------------------------
(* No line is in more places than its token has devices.                   *)
FewCopies == Few(Places, Where, DevicesPerToken)

(* A step moves lines, drops them or adds a fresh one.                     *)
LEMMA CopiesStep ==
  ASSUME TypeInv, TypeInv', OwnerInv, HoldsLines, LinesInv, FewUsers, FewCopies, [Next]_vars
  PROVE  FewCopies'
<1> DEFINE W == Where
           V == Where'
<1>1. /\ pool \in [Token -> Agent \cup {None}]
      /\ buffer \in [Agent -> Seq(Line)] /\ overflow \in [Agent -> Seq(Line)]
      /\ emitted \in [Agent -> 0 .. MaxEmit] /\ pending \in [Agent -> 0 .. MaxEmit]
      /\ replay \in [Conn -> Seq(Line)] /\ rx \in [Conn -> Seq(Line)]
      /\ held \in [Conn -> Line \cup {None}] /\ shown \in [Agent -> Seq(Line)]
  BY DEF TypeInv, TypeOK, Queue
<1>2. /\ buffer' \in [Agent -> Seq(Line)] /\ overflow' \in [Agent -> Seq(Line)]
      /\ pending' \in [Agent -> 0 .. MaxEmit]
      /\ replay' \in [Conn -> Seq(Line)] /\ rx' \in [Conn -> Seq(Line)]
      /\ held' \in [Conn -> Line \cup {None}] /\ shown' \in [Agent -> Seq(Line)]
  BY DEF TypeInv, TypeOK, Queue
<1>3. MaxEmit \in Nat /\ None \notin Line
  BY PoolAssumption, NoneIsNoLine DEF Line
<1>4. W \in [Places -> Seq(Line)]
  <2>1. \A a \in Agent : pending[a] # 0 => <<a, pending[a]>> \in Line
    BY <1>1, <1>3 DEF Line
  <2>2. QED BY <1>1, <2>1, PlacedTypes DEF Where
<1>5. V \in [Places -> Seq(Line)]
  <2>1. \A a \in Agent : pending'[a] # 0 => <<a, pending'[a]>> \in Line
    BY <1>2, <1>3 DEF Line
  <2>2. QED BY <1>2, <2>1, PlacedTypes DEF Where
<1>6. /\ \A a \in Agent : /\ W[<<"pending", a>>] = InReader(a, pending[a])
                          /\ W[<<"buffer", a>>] = buffer[a]
                          /\ W[<<"overflow", a>>] = overflow[a]
                          /\ W[<<"shown", a>>] = shown[a]
      /\ \A c \in Conn : /\ W[<<"held", c>>] = InHand(held[c])
                         /\ W[<<"replay", c>>] = replay[c]
                         /\ W[<<"rx", c>>] = rx[c]
  BY PlacedValues DEF Where
<1>7. /\ \A a \in Agent : /\ V[<<"pending", a>>] = InReader(a, pending'[a])
                          /\ V[<<"buffer", a>>] = buffer'[a]
                          /\ V[<<"overflow", a>>] = overflow'[a]
                          /\ V[<<"shown", a>>] = shown'[a]
      /\ \A c \in Conn : /\ V[<<"held", c>>] = InHand(held'[c])
                         /\ V[<<"replay", c>>] = replay'[c]
                         /\ V[<<"rx", c>>] = rx'[c]
  BY PlacedValues DEF Where
<1>8. Few(Places, W, DevicesPerToken) /\ DevicesPerToken \in Nat
  BY PoolAssumption DEF FewCopies
<1>9. Few(Places, V, DevicesPerToken) => FewCopies'
  BY DEF FewCopies
<1> HIDE DEF W, V
<1> SUFFICES Few(Places, V, DevicesPerToken)
  BY <1>9
<1> USE DEF bufVars, outVars, connVars
<1>10. ASSUME NEW c \in Conn, NEW t \in Token, Reuse(c, t)
       PROVE  Few(Places, V, DevicesPerToken)
  <2> DEFINE a == pool[t]
             b == buffer[a]
             o == overflow[a]
             room == IF Len(b) < MaxBuffer THEN MaxBuffer - Len(b) ELSE 0
             n == IF Len(o) < room THEN Len(o) ELSE room
             p == <<"replay", c>>
             q == <<"buffer", a>>
             r == <<"overflow", a>>
  <2>1. a \in Agent
    BY <1>10 DEF Reuse, TypeInv, TypeOK
  <2>2. /\ replay' = [replay EXCEPT ![c] = Drained(a)]
        /\ buffer' = [buffer EXCEPT ![a] = <<>>] /\ overflow' = [overflow EXCEPT ![a] = <<>>]
        /\ UNCHANGED <<pending, held, rx, shown>>
    BY <1>10 DEF Reuse, Taken
  <2>3. b \in Seq(Line) /\ o \in Seq(Line) /\ Len(b) \in Nat /\ Len(o) \in Nat
    BY <1>1, <2>1
  <2>4. Drained(a) = b \o SubSeq(o, 1, n)
    BY DEF Drained
  <2> HIDE DEF a, b, o
  <2>5. n \in Nat /\ n <= Len(o)
    BY <2>3, PoolAssumption
  <2> HIDE DEF n, room
  <2>6. p \in Places /\ q \in Places /\ r \in Places /\ p # q /\ p # r /\ q # r
    BY <2>1, PlacesAre
  <2>7. W[q] = b /\ W[r] = o /\ V[q] = <<>> /\ V[r] = <<>> /\ V[p] = Drained(a)
    BY <1>1, <1>6, <1>7, <2>1, <2>2 DEF b, o
  <2>8. \A d \in Agent : d # a => buffer'[d] = buffer[d] /\ overflow'[d] = overflow[d]
    BY <1>1, <2>2
  <2>9. \A d \in Conn : d # c => replay'[d] = replay[d]
    BY <1>1, <2>2
  <2>10. SameBut(Places, W, V, {p, q, r})
    BY <1>6, <1>7, <2>2, <2>8, <2>9, SameElsewhere
  <2>11. Merged(Places, W, V, p, q, r, n)
    BY <2>4, <2>5, <2>6, <2>7, <2>10 DEF Merged
  <2>12. QED BY <1>4, <1>5, <1>8, <2>5, <2>6, <2>11, MergeKeeps
<1>11. ASSUME NEW a \in Agent, StdoutSend(a)
       PROVE  Few(Places, V, DevicesPerToken)
  <2> DEFINE n == emitted[a] + 1
             line == <<a, n>>
  <2>1. n \in 1 .. MaxEmit /\ pending[a] = 0 /\ UNCHANGED <<buffer, overflow, held, replay, shown>>
    BY <1>1, <1>3, <1>11 DEF StdoutSend
  <2>2. line \in Line /\ line \notin AnyWritten
    BY <1>1, <2>1 DEF Line, AnyWritten
  <2>3. IF Receivers(a) # {}
        THEN /\ rx' = [c \in Conn |-> IF c \in Receivers(a) THEN Push(rx[c], line) ELSE rx[c]]
             /\ pending' = pending
        ELSE pending' = [pending EXCEPT ![a] = n] /\ rx' = rx
    BY <1>11 DEF StdoutSend
  <2>4. W \in [Places -> Seq(AnyWritten)]
    <3>1. ASSUME NEW b \in Agent
          PROVE  /\ pending[b] # 0 => <<b, pending[b]>> \in AnyWritten
                 /\ buffer[b] \in Seq(AnyWritten) /\ overflow[b] \in Seq(AnyWritten)
                 /\ shown[b] \in Seq(AnyWritten)
      <4>1. Written(owner[b]) \subseteq AnyWritten
        BY DEF Written, AnyWritten
      <4>2. pending[b] # 0 => <<b, pending[b]>> \in AnyWritten
        <5>1. /\ pending[b] \in 0 .. MaxEmit /\ emitted[b] \in 0 .. MaxEmit
              /\ pending[b] <= emitted[b]
          BY <1>1, <1>3 DEF LinesInv
        <5>2. pending[b] # 0 => <<b, pending[b]>> \in Line
          BY <5>1 DEF Line
        <5>3. QED BY <5>1, <5>2 DEF AnyWritten
      <4>3. /\ buffer[b] \in Seq(Written(owner[b])) /\ overflow[b] \in Seq(Written(owner[b]))
            /\ shown[b] \in Seq(AnyWritten)
        BY DEF LinesInv
      <4>4. QED BY <4>1, <4>2, <4>3, QueueOps
    <3>2. ASSUME NEW c \in Conn
          PROVE  /\ held[c] # None => held[c] \in AnyWritten
                 /\ replay[c] \in Seq(AnyWritten) /\ rx[c] \in Seq(AnyWritten)
      <4>1. Written(tok[c]) \subseteq AnyWritten
        BY DEF Written, AnyWritten
      <4>2. /\ rx[c] \in Seq(Written(tok[c])) /\ replay[c] \in Seq(Written(tok[c]))
            /\ held[c] # None => held[c] \in Written(tok[c])
        BY DEF LinesInv
      <4>3. QED BY <4>1, <4>2, QueueOps
    <3>3. QED BY <3>1, <3>2, PlacedTypes DEF W, Where
  <2>5. Fresh(Places, W, line)
    <3> SUFFICES ASSUME NEW r \in Places, NEW i \in 1 .. Len(W[r]) PROVE W[r][i] # line
      BY DEF Fresh
    <3>1. W[r] \in Seq(AnyWritten)
      BY <2>4
    <3>2. W[r][i] \in AnyWritten
      BY <3>1, ElementOfSeq
    <3>3. QED BY <2>2, <3>2
  <2>6. CASE Receivers(a) = {}
    <3> DEFINE p == <<"pending", a>>
    <3>1. p \in Places
      BY PlacesAre
    <3>2. W[p] = <<>> /\ V[p] = <<line>>
      <4>1. pending[a] = 0 /\ pending'[a] = n /\ n # 0
        BY <1>1, <2>1, <2>3, <2>6
      <4>2. InReader(a, pending[a]) = <<>> /\ InReader(a, pending'[a]) = <<line>>
        BY <4>1 DEF InReader
      <4>3. QED BY <1>6, <1>7, <4>2
    <3>3. \A b \in Agent : b # a => pending'[b] = pending[b]
      BY <1>1, <2>3, <2>6
    <3>4. SameBut(Places, W, V, {p})
      BY <1>6, <1>7, <2>1, <2>3, <2>6, <3>3, SameElsewhere
    <3>5. V[p] = Append(W[p], line)
      BY <3>2
    <3>6. IsFiniteSet({p}) /\ Cardinality({p}) = 1
      BY FS_Singleton
    <3>7. Cardinality({p}) <= DevicesPerToken
      BY <3>6, PoolAssumption
    <3> HIDE DEF p, line
    <3>8. Spread(Places, W, V, {p}, line)
      BY <2>5, <3>1, <3>4, <3>5 DEF Spread
    <3>9. QED BY <1>4, <1>5, <1>8, <2>2, <3>6, <3>7, <3>8, SpreadKeeps
  <2>7. ASSUME NEW e \in Receivers(a) PROVE Few(Places, V, DevicesPerToken)
    <3> DEFINE R == Receivers(a)
               Q == {<<"rx", c>> : c \in R}
               h == [q \in Q |-> q[2]]
    <3>1. rx' = [c \in Conn |-> IF c \in R THEN Push(rx[c], line) ELSE rx[c]] /\ pending' = pending
      BY <2>3, <2>7
    <3>2. R \subseteq Conn /\ Q \subseteq Places
      BY PlacesAre DEF Receivers
    <3>3. SameBut(Places, W, V, Q)
      BY <1>6, <1>7, <2>1, <3>1, SameElsewhere
    <3>4. \A r \in Q : V[r] = Append(W[r], line) \/ (W[r] # <<>> /\ V[r] = Append(Tail(W[r]), line))
      <4> SUFFICES ASSUME NEW c \in R
                   PROVE  LET r == <<"rx", c>> IN
                          V[r] = Append(W[r], line) \/ (W[r] # <<>> /\ V[r] = Append(Tail(W[r]), line))
        OBVIOUS
      <4>1. W[<<"rx", c>>] = rx[c] /\ V[<<"rx", c>>] = Push(rx[c], line) /\ rx[c] \in Seq(Line)
        BY <1>1, <1>6, <1>7, <3>1, <3>2
      <4>2. ~(Len(rx[c]) < ChanCap) => rx[c] # <<>>
        BY PoolAssumption
      <4>3. QED BY <4>1, <4>2 DEF Push
    <3>5. Spread(Places, W, V, Q, line)
      BY <2>5, <3>2, <3>3, <3>4 DEF Spread
    <3>6. owner[a] \in Token /\ R \subseteq Users(owner[a])
      <4>1. \A c \in R : phase[c] # "none" /\ tok[c] = owner[a] /\ tok[c] \in Token
        BY DEF Receivers, OwnerInv, TypeInv, ConnInv
      <4>2. QED BY <2>7, <3>2, <4>1 DEF Users, Using
    <3>7. IsFiniteSet(Users(owner[a])) /\ Cardinality(Users(owner[a])) <= DevicesPerToken
      BY <3>6 DEF FewUsers
    <3>8. IsFiniteSet(Q) /\ Cardinality(Q) <= Cardinality(Users(owner[a]))
      <4>1. \A q \in Q : q = <<"rx", q[2]>> /\ h[q] = q[2] /\ q[2] \in R
        OBVIOUS
      <4> HIDE DEF Q, h, R
      <4>2. \A q \in Q : h[q] \in Users(owner[a])
        BY <3>6, <4>1
      <4>3. \A q, r \in Q : h[q] = h[r] => q = r
        BY <4>1
      <4>4. QED BY <3>7, <4>2, <4>3, InjectedIsFew
    <3>9. Cardinality(Q) <= DevicesPerToken
      <4>1. Cardinality(Q) \in Nat /\ Cardinality(Users(owner[a])) \in Nat
        BY <3>7, <3>8, FS_CardinalityType
      <4>2. QED BY <1>8, <3>7, <3>8, <4>1
    <3> HIDE DEF Q, R, line
    <3>10. QED BY <1>4, <1>5, <1>8, <2>2, <3>5, <3>8, <3>9, SpreadKeeps
  <2>8. QED BY <2>6, <2>7
<1>12. ASSUME NEW a \in Agent, StdoutStore(a)
       PROVE  Few(Places, V, DevicesPerToken)
  <2> DEFINE p == <<"pending", a>>
             q == <<"overflow", a>>
             line == <<a, pending[a]>>
  <2>1. /\ pending[a] # 0 /\ pending' = [pending EXCEPT ![a] = 0]
        /\ UNCHANGED <<buffer, held, replay, rx, shown>>
    BY <1>12 DEF StdoutStore
  <2>2. p \in Places /\ q \in Places /\ p # q
    BY PlacesAre
  <2>3. W[p] = <<line>> /\ V[p] = <<>>
    BY <1>1, <1>6, <1>7, <2>1 DEF InReader
  <2>4. W[p] # <<>> /\ V[p] = Tail(W[p]) /\ Head(W[p]) = line
    BY <2>3
  <2>5. \A b \in Agent : b # a => overflow'[b] = overflow[b] /\ pending'[b] = pending[b]
    BY <1>1, <1>12 DEF StdoutStore
  <2>6. SameBut(Places, W, V, {p, q})
    BY <1>6, <1>7, <2>1, <2>5, SameElsewhere
  <2>7. overflow'[a] = Append(overflow[a], line) \/ overflow' = overflow
    BY <1>1, <1>12 DEF StdoutStore
  <2>8. CASE overflow'[a] = Append(overflow[a], line)
    <3>1. V[q] = Append(W[q], Head(W[p]))
      BY <1>6, <1>7, <2>4, <2>8
    <3>2. Moved(Places, W, V, p, q)
      BY <2>2, <2>4, <2>6, <3>1 DEF Moved
    <3>3. QED BY <1>4, <1>5, <1>8, <2>2, <3>2, MoveKeeps
  <2>9. CASE overflow' = overflow
    <3>1. V[q] = W[q]
      BY <1>6, <1>7, <2>9
    <3>2. Shrunk(Places, W, V)
      BY <2>4, <2>6, <3>1 DEF Shrunk, SameBut
    <3>3. QED BY <1>4, <1>5, <1>8, <3>2, ShrinkKeeps
  <2>10. QED BY <2>7, <2>8, <2>9
<1>13. ASSUME NEW c \in Conn, ReplayLine(c)
       PROVE  Few(Places, V, DevicesPerToken)
  <2> DEFINE line == Head(replay[c])
             a == line[1]
             p == <<"replay", c>>
             q == <<"shown", a>>
  <2>1. replay[c] # <<>> /\ UNCHANGED <<pending, buffer, overflow, held, rx>>
    BY <1>13 DEF ReplayLine
  <2>2. line \in Line /\ a \in Agent
    <3>1. line \in Line
      BY <1>1, <2>1, QueueOps
    <3>2. QED BY <3>1 DEF Line
  <2>3. shown' = [shown EXCEPT ![a] = Append(@, line)] \/ shown' = shown
    BY <1>13 DEF ReplayLine, ShownAlso
  <2>4. W[p] = replay[c] /\ V[p] = Tail(replay[c])
    BY <1>1, <1>6, <1>7, <1>13 DEF ReplayLine
  <2> HIDE DEF a
  <2>5. p \in Places /\ q \in Places /\ p # q
    BY <2>2, PlacesAre
  <2>6. /\ \A d \in Conn : d # c => replay'[d] = replay[d]
        /\ \A b \in Agent : b # a => shown'[b] = shown[b]
    BY <1>1, <1>13, <2>3 DEF ReplayLine
  <2>7. SameBut(Places, W, V, {p, q})
    BY <1>6, <1>7, <2>1, <2>6, SameElsewhere
  <2>8. CASE shown' = [shown EXCEPT ![a] = Append(@, line)]
    <3>1. W[q] = shown[a] /\ V[q] = Append(shown[a], line)
      BY <1>1, <1>6, <1>7, <2>2, <2>8
    <3>2. Moved(Places, W, V, p, q)
      BY <2>1, <2>4, <2>5, <2>7, <3>1 DEF Moved
    <3>3. QED BY <1>4, <1>5, <1>8, <2>5, <3>2, MoveKeeps
  <2>9. CASE shown' = shown
    <3>1. V[q] = W[q]
      BY <1>6, <1>7, <2>2, <2>9
    <3>2. Shrunk(Places, W, V)
      BY <2>1, <2>4, <2>7, <3>1 DEF Shrunk, SameBut
    <3>3. QED BY <1>4, <1>5, <1>8, <3>2, ShrinkKeeps
  <2>10. QED BY <2>3, <2>8, <2>9
<1>14. ASSUME NEW c \in Conn, ForwardLine(c)
       PROVE  Few(Places, V, DevicesPerToken)
  <2> DEFINE line == Head(rx[c])
             a == line[1]
             p == <<"rx", c>>
             q == <<"shown", a>>
  <2>1. rx[c] # <<>> /\ UNCHANGED <<pending, buffer, overflow, held, replay>>
    BY <1>14 DEF ForwardLine
  <2>2. line \in Line /\ a \in Agent
    <3>1. line \in Line
      BY <1>1, <2>1, QueueOps
    <3>2. QED BY <3>1 DEF Line
  <2>3. shown' = [shown EXCEPT ![a] = Append(@, line)] \/ shown' = shown
    BY <1>14 DEF ForwardLine, ShownAlso
  <2>4. W[p] = rx[c] /\ V[p] = Tail(rx[c])
    BY <1>1, <1>6, <1>7, <1>14 DEF ForwardLine
  <2> HIDE DEF a
  <2>5. p \in Places /\ q \in Places /\ p # q
    BY <2>2, PlacesAre
  <2>6. /\ \A d \in Conn : d # c => rx'[d] = rx[d]
        /\ \A b \in Agent : b # a => shown'[b] = shown[b]
    BY <1>1, <1>14, <2>3 DEF ForwardLine
  <2>7. SameBut(Places, W, V, {p, q})
    BY <1>6, <1>7, <2>1, <2>6, SameElsewhere
  <2>8. CASE shown' = [shown EXCEPT ![a] = Append(@, line)]
    <3>1. W[q] = shown[a] /\ V[q] = Append(shown[a], line)
      BY <1>1, <1>6, <1>7, <2>2, <2>8
    <3>2. Moved(Places, W, V, p, q)
      BY <2>1, <2>4, <2>5, <2>7, <3>1 DEF Moved
    <3>3. QED BY <1>4, <1>5, <1>8, <2>5, <3>2, MoveKeeps
  <2>9. CASE shown' = shown
    <3>1. V[q] = W[q]
      BY <1>6, <1>7, <2>2, <2>9
    <3>2. Shrunk(Places, W, V)
      BY <2>1, <2>4, <2>7, <3>1 DEF Shrunk, SameBut
    <3>3. QED BY <1>4, <1>5, <1>8, <3>2, ShrinkKeeps
  <2>10. QED BY <2>3, <2>8, <2>9
<1>15. ASSUME NEW c \in Conn, SendFails(c)
       PROVE  Few(Places, V, DevicesPerToken)
  <2> DEFINE p == <<"rx", c>>
             q == <<"held", c>>
  <2>1. rx[c] # <<>> /\ held[c] = None /\ UNCHANGED <<pending, buffer, overflow, replay, shown>>
    BY <1>15 DEF SendFails, HoldsLines
  <2>2. p \in Places /\ q \in Places /\ p # q
    BY PlacesAre
  <2>3. W[p] = rx[c] /\ V[p] = Tail(rx[c])
    BY <1>1, <1>6, <1>7, <1>15 DEF SendFails
  <2>4. Head(rx[c]) \in Line /\ held'[c] = Head(rx[c])
    BY <1>1, <1>15, <2>1, QueueOps DEF SendFails
  <2>5. W[q] = <<>> /\ V[q] = <<Head(rx[c])>>
    BY <1>3, <1>6, <1>7, <2>1, <2>4 DEF InHand
  <2>6. V[q] = Append(W[q], Head(W[p]))
    BY <2>3, <2>5
  <2>7. \A d \in Conn : d # c => rx'[d] = rx[d] /\ held'[d] = held[d]
    BY <1>1, <1>15 DEF SendFails
  <2>8. SameBut(Places, W, V, {p, q})
    BY <1>6, <1>7, <2>1, <2>7, SameElsewhere
  <2>9. Moved(Places, W, V, p, q)
    BY <2>1, <2>2, <2>3, <2>6, <2>8 DEF Moved
  <2>10. QED BY <1>4, <1>5, <1>8, <2>2, <2>9, MoveKeeps
<1>16. ASSUME NEW c \in Conn, BufferFailedLine(c)
       PROVE  Few(Places, V, DevicesPerToken)
  <2> DEFINE b == Keeper(c)
             p == <<"held", c>>
             u == <<"rx", c>>
  <2>1. UNCHANGED <<pending, overflow, replay, shown>> /\ held[c] \in Line
    BY <1>16 DEF BufferFailedLine, TypeInv, ConnInv
  <2>2. /\ rx'[c] = <<>> /\ held'[c] = None
        /\ \A d \in Conn : d # c => rx'[d] = rx[d] /\ held'[d] = held[d]
    BY <1>1, <1>16 DEF BufferFailedLine
  <2>3. p \in Places /\ u \in Places /\ p # u
    BY PlacesAre
  <2>4. W[p] = <<held[c]>> /\ V[p] = <<>> /\ V[u] = <<>>
    BY <1>3, <1>6, <1>7, <2>1, <2>2 DEF InHand
  <2>5. buffer' = buffer \/ (b \in Agent /\ buffer' = [buffer EXCEPT ![b] = Append(@, held[c])])
    <3>1. tok[c] \in Token
      BY <1>16 DEF BufferFailedLine, TypeInv, ConnInv
    <3>2. b \in Agent \cup {None}
      BY <1>1, <3>1 DEF Keeper
    <3>3. QED BY <1>16, <3>2 DEF BufferFailedLine
  <2>6. CASE buffer' = buffer
    <3>1. SameBut(Places, W, V, {p, u})
      BY <1>6, <1>7, <2>1, <2>2, <2>6, SameElsewhere
    <3>2. Shrunk(Places, W, V)
      BY <2>4, <3>1 DEF Shrunk, SameBut
    <3>3. QED BY <1>4, <1>5, <1>8, <3>2, ShrinkKeeps
  <2>7. CASE b \in Agent /\ buffer' = [buffer EXCEPT ![b] = Append(@, held[c])]
    <3> DEFINE q == <<"buffer", b>>
    <3> HIDE DEF b
    <3>1. q \in Places /\ q # p /\ q # u
      BY <2>7, PlacesAre
    <3>2. PICK f \in [Places -> Seq(Line)] : f[u] = <<>> /\ SameBut(Places, W, f, {u})
      <4> DEFINE g == [W EXCEPT ![u] = <<>>]
      <4>1. <<>> \in Seq(Line)
        OBVIOUS
      <4>2. g \in [Places -> Seq(Line)]
        BY <1>4, <2>3, <4>1
      <4>3. g[u] = <<>> /\ SameBut(Places, W, g, {u})
        BY <1>4, <2>3 DEF SameBut
      <4>4. QED BY <4>2, <4>3
    <3>3. Shrunk(Places, W, f)
      BY <3>2 DEF Shrunk, SameBut
    <3>4. Few(Places, f, DevicesPerToken)
      BY <1>4, <1>8, <3>2, <3>3, ShrinkKeeps
    <3>5. SameBut(Places, W, V, {p, q, u})
      <4>1. \A a \in Agent : a # b => buffer'[a] = buffer[a]
        BY <1>1, <2>7
      <4>2. QED BY <1>6, <1>7, <2>1, <2>2, <4>1, SameElsewhere
    <3>6. SameBut(Places, f, V, {p, q})
      BY <2>3, <2>4, <3>2, <3>5 DEF SameBut
    <3>7. f[p] = <<held[c]>> /\ f[q] = buffer[b]
      BY <1>6, <2>3, <2>4, <2>7, <3>1, <3>2 DEF SameBut
    <3>8. V[q] = Append(buffer[b], held[c])
      BY <1>1, <1>7, <2>7
    <3>9. f[p] # <<>> /\ V[p] = Tail(f[p]) /\ Head(f[p]) = held[c]
      BY <2>4, <3>7
    <3>10. Moved(Places, f, V, p, q)
      BY <3>1, <3>6, <3>7, <3>8, <3>9 DEF Moved
    <3>11. QED BY <1>5, <1>8, <2>3, <3>1, <3>2, <3>4, <3>10, MoveKeeps
  <2>8. QED BY <2>5, <2>6, <2>7
<1>17. ASSUME NEW c \in Conn, EndTasks(c)
       PROVE  Few(Places, V, DevicesPerToken)
  <2>1. UNCHANGED <<pending, buffer, overflow, replay, shown>>
    BY <1>17 DEF EndTasks
  <2>2. \A d \in Conn : rx'[d] \in {rx[d], <<>>} /\ held'[d] \in {held[d], None}
    BY <1>1, <1>17 DEF EndTasks
  <2>3. ASSUME NEW d \in Conn
        PROVE  /\ V[<<"held", d>>] \in {W[<<"held", d>>], <<>>}
               /\ V[<<"rx", d>>] \in {W[<<"rx", d>>], <<>>}
    <3>1. InHand(held'[d]) \in {InHand(held[d]), <<>>}
      BY <2>2 DEF InHand
    <3>2. QED BY <1>6, <1>7, <2>2, <3>1
  <2> DEFINE Q == {<<"held", d>> : d \in Conn} \cup {<<"rx", d>> : d \in Conn}
  <2>4. SameBut(Places, W, V, Q)
    BY <1>6, <1>7, <2>1, SameElsewhere
  <2>5. Shrunk(Places, W, V)
    BY <2>3, <2>4 DEF Shrunk, SameBut
  <2>6. QED BY <1>4, <1>5, <1>8, <2>5, ShrinkKeeps
<1>18. ASSUME \/ \E c \in Conn, t \in Token, a \in Agent : Spawn(c, t, a)
              \/ \E t \in Token : SpawnFails(t) \/ PoolFull(t)
              \/ \E c \in Conn : Subscribe(c) \/ ClientGone(c) \/ MarkDisconnected(c)
              \/ \E a \in Agent : Die(a)
              \/ Tick \/ Reap \/ UNCHANGED vars
       PROVE  Few(Places, V, DevicesPerToken)
  <2>1. UNCHANGED <<pending, buffer, overflow, held, replay, rx, shown>>
    BY <1>18 DEF Spawn, SpawnFails, PoolFull, Subscribe, ClientGone, MarkDisconnected, Die,
                 Tick, Reap, vars
  <2>2. V = W
    BY <2>1 DEF V, W, Where
  <2>3. QED BY <1>8, <2>2
<1>19. QED
  BY <1>10, <1>11, <1>12, <1>13, <1>14, <1>15, <1>16, <1>17, <1>18 DEF Next, ConnStep, AgentStep

(* No line a process writes is ever in more places than that.              *)
LEMMA CopiesInvariant == Spec => [](FewUsers /\ FewCopies)
<1>1. Init => FewUsers /\ FewCopies
  <2> SUFFICES ASSUME Init PROVE FewUsers /\ FewCopies
    OBVIOUS
  <2>1. \A t \in Token : Users(t) = {}
    BY DEF Init, Users, Using
  <2>2. FewUsers
    BY <2>1, FS_EmptySet, PoolAssumption DEF FewUsers
  <2>3. \A a \in Agent : /\ Where[<<"pending", a>>] = <<>> /\ Where[<<"buffer", a>>] = <<>>
                         /\ Where[<<"overflow", a>>] = <<>> /\ Where[<<"shown", a>>] = <<>>
    BY WhereIs DEF Init, InReader
  <2>4. \A c \in Conn : Where[<<"held", c>>] = <<>> /\ Where[<<"replay", c>>] = <<>> /\ Where[<<"rx", c>>] = <<>>
    BY WhereIs DEF Init, InHand
  <2>5. \A p \in Places : Where[p] = <<>>
    BY ZenonT(30), <2>3, <2>4, PlacesAre
  <2>6. \A x \in Line : SpotsOf(Places, Where, x) = {}
    BY <2>5 DEF SpotsOf, Spots
  <2>7. FewCopies
    BY <2>6, FS_EmptySet, PoolAssumption DEF FewCopies, Few
  <2>8. QED BY <2>2, <2>7
<1>2. TypeInv /\ TypeInv' /\ DeliveryInv /\ FewUsers /\ FewCopies /\ [Next]_vars
        => (FewUsers /\ FewCopies)'
  BY FewUsersStep, CopiesStep DEF DeliveryInv
<1>3. QED BY <1>1, <1>2, TypeCorrect, DeliveryInvariant, PTL DEF Spec

(* No sequence of failed sends, overflows, reconnects and replays shows a  *)
(* line to clients more often than the token has devices: of a line there  *)
(* are at most that many copies, shown or still to be shown.               *)
THEOREM OncePerDeviceKept == Spec => []OncePerDevice
<1>1. TypeInv /\ FewCopies => OncePerDevice
  <2> SUFFICES ASSUME TypeInv, FewCopies, NEW a \in Agent, NEW n \in 1 .. MaxEmit
               PROVE  Cardinality(Copies(<<a, n>>)) <= DevicesPerToken
    BY DEF OncePerDevice
  <2> DEFINE line == <<a, n>>
             Index(p, i) == IF p[1] = "pending" \/ p[1] = "held" THEN 0 ELSE i
  <2>1. line \in Line /\ line # None
    BY PoolAssumption, NoneIsNoLine DEF Line
  <2>2. /\ buffer \in [Agent -> Seq(Line)] /\ overflow \in [Agent -> Seq(Line)]
        /\ replay \in [Conn -> Seq(Line)] /\ rx \in [Conn -> Seq(Line)]
        /\ shown \in [Agent -> Seq(Line)]
    BY DEF TypeInv, TypeOK, Queue
  <2> HIDE DEF line
  <2>3. ASSUME NEW u \in Copies(line)
        PROVE  \E p \in Places : \E i \in 1 .. Len(Where[p]) :
                 Where[p][i] = line /\ u = <<p[1], p[2], Index(p, i)>>
    <3>1. CASE \E b \in Agent : pending[b] # 0 /\ <<b, pending[b]>> = line /\ u = <<"pending", b, 0>>
      <4>1. PICK b \in Agent : pending[b] # 0 /\ <<b, pending[b]>> = line /\ u = <<"pending", b, 0>>
        BY <3>1
      <4>2. Where[<<"pending", b>>] = <<line>>
        BY <4>1, WhereIs DEF InReader
      <4> DEFINE p == <<"pending", b>>
      <4>3. p \in Places /\ p[1] = "pending" /\ p[2] = b
        BY PlacesAre
      <4>4. Where[p] = <<line>>
        BY <4>2
      <4> HIDE DEF p
      <4>5. 1 \in 1 .. Len(Where[p]) /\ Where[p][1] = line
        BY <4>4
      <4>6. u = <<p[1], p[2], Index(p, 1)>>
        BY <4>1, <4>3
      <4>7. QED BY <4>3, <4>5, <4>6
    <3>2. CASE \E c \in Conn : held[c] = line /\ u = <<"held", c, 0>>
      <4>1. PICK c \in Conn : held[c] = line /\ u = <<"held", c, 0>>
        BY <3>2
      <4>2. Where[<<"held", c>>] = <<line>>
        BY <2>1, <4>1, WhereIs DEF InHand
      <4> DEFINE p == <<"held", c>>
      <4>3. p \in Places /\ p[1] = "held" /\ p[2] = c
        BY PlacesAre
      <4>4. Where[p] = <<line>>
        BY <4>2
      <4> HIDE DEF p
      <4>5. 1 \in 1 .. Len(Where[p]) /\ Where[p][1] = line
        BY <4>4
      <4>6. u = <<p[1], p[2], Index(p, 1)>>
        BY <4>1, <4>3
      <4>7. QED BY <4>3, <4>5, <4>6
    <3>3. ASSUME NEW place \in {"buffer", "overflow", "shown"}, NEW f \in [Agent -> Seq(Line)], u \in At(place, f, line),
                 \A b \in Agent : <<place, b>> \in Places /\ Where[<<place, b>>] = f[b]
          PROVE  \E p \in Places : \E i \in 1 .. Len(Where[p]) :
                   Where[p][i] = line /\ u = <<p[1], p[2], Index(p, i)>>
      <4>a. PICK b \in Agent : \E i \in DOMAIN f[b] : f[b][i] = line /\ u = <<place, b, i>>
        BY <3>3 DEF At
      <4>1. PICK i \in DOMAIN f[b] : f[b][i] = line /\ u = <<place, b, i>>
        BY <4>a
      <4>2. <<place, b>> \in Places /\ i \in 1 .. Len(Where[<<place, b>>]) /\ Where[<<place, b>>][i] = line
        BY <3>3, <4>1
      <4>3. u = <<<<place, b>>[1], <<place, b>>[2], Index(<<place, b>>, i)>>
        BY <4>1
      <4>4. QED BY <4>2, <4>3
    <3>4. ASSUME NEW place \in {"replay", "rx"}, NEW f \in [Conn -> Seq(Line)], u \in At(place, f, line),
                 \A c \in Conn : <<place, c>> \in Places /\ Where[<<place, c>>] = f[c]
          PROVE  \E p \in Places : \E i \in 1 .. Len(Where[p]) :
                   Where[p][i] = line /\ u = <<p[1], p[2], Index(p, i)>>
      <4>a. PICK c \in Conn : \E i \in DOMAIN f[c] : f[c][i] = line /\ u = <<place, c, i>>
        BY <3>4 DEF At
      <4>1. PICK i \in DOMAIN f[c] : f[c][i] = line /\ u = <<place, c, i>>
        BY <4>a
      <4>2. <<place, c>> \in Places /\ i \in 1 .. Len(Where[<<place, c>>]) /\ Where[<<place, c>>][i] = line
        BY <3>4, <4>1
      <4>3. u = <<<<place, c>>[1], <<place, c>>[2], Index(<<place, c>>, i)>>
        BY <4>1
      <4>4. QED BY <4>2, <4>3
    <3>5. \A b \in Agent : /\ Where[<<"buffer", b>>] = buffer[b] /\ Where[<<"overflow", b>>] = overflow[b]
                           /\ Where[<<"shown", b>>] = shown[b] /\ <<"buffer", b>> \in Places
                           /\ <<"overflow", b>> \in Places /\ <<"shown", b>> \in Places
      BY WhereIs, PlacesAre
    <3>6. \A c \in Conn : /\ Where[<<"replay", c>>] = replay[c] /\ Where[<<"rx", c>>] = rx[c]
                          /\ <<"replay", c>> \in Places /\ <<"rx", c>> \in Places
      BY WhereIs, PlacesAre
    <3> HIDE DEF Index
    <3>7. CASE u \in At("buffer", buffer, line) \cup At("overflow", overflow, line) \cup At("shown", shown, line)
      BY <2>2, <3>3, <3>5, <3>7
    <3>8. CASE u \in At("replay", replay, line) \cup At("rx", rx, line)
      BY <2>2, <3>4, <3>6, <3>8
    <3>9. QED BY <3>1, <3>2, <3>7, <3>8 DEF Copies
  <2> DEFINE Spot(u) == CHOOSE s \in SpotsOf(Places, Where, line) :
                          u = <<s[1][1], s[1][2], Index(s[1], s[2])>>
             h == [u \in Copies(line) |-> Spot(u)]
  <2>4. ASSUME NEW u \in Copies(line)
        PROVE  /\ h[u] \in SpotsOf(Places, Where, line)
               /\ u = <<h[u][1][1], h[u][1][2], Index(h[u][1], h[u][2])>>
    <3>1. PICK p \in Places : \E i \in 1 .. Len(Where[p]) :
                 Where[p][i] = line /\ u = <<p[1], p[2], Index(p, i)>>
      BY <2>3
    <3>2. PICK i \in 1 .. Len(Where[p]) : Where[p][i] = line /\ u = <<p[1], p[2], Index(p, i)>>
      BY <3>1
    <3> HIDE DEF Index
    <3>3. <<p, i>> \in SpotsOf(Places, Where, line)
      BY <3>2 DEF SpotsOf, Spots, In
    <3>4. \E s \in SpotsOf(Places, Where, line) : u = <<s[1][1], s[1][2], Index(s[1], s[2])>>
      BY <3>2, <3>3
    <3>5. Spot(u) \in SpotsOf(Places, Where, line)
          /\ u = <<Spot(u)[1][1], Spot(u)[1][2], Index(Spot(u)[1], Spot(u)[2])>>
      BY <3>4
    <3>6. h[u] = Spot(u)
      OBVIOUS
    <3> HIDE DEF Spot, h
    <3>7. QED BY <3>5, <3>6
  <2> HIDE DEF h, Index
  <2>5. /\ \A u \in Copies(line) : h[u] \in SpotsOf(Places, Where, line)
        /\ \A u, v \in Copies(line) : h[u] = h[v] => u = v
    BY <2>4
  <2>6. IsFiniteSet(SpotsOf(Places, Where, line)) /\ Cardinality(SpotsOf(Places, Where, line)) <= DevicesPerToken
    BY <2>1 DEF FewCopies, Few
  <2>7. /\ IsFiniteSet(Copies(line))
        /\ Cardinality(Copies(line)) <= Cardinality(SpotsOf(Places, Where, line))
    BY <2>5, <2>6, InjectedIsFew
  <2>8. Cardinality(Copies(line)) \in Nat /\ Cardinality(SpotsOf(Places, Where, line)) \in Nat
    BY <2>6, <2>7, FS_CardinalityType
  <2>9. Cardinality(Copies(line)) <= DevicesPerToken
    BY <2>6, <2>7, <2>8, PoolAssumption
  <2>10. QED BY <2>9 DEF line
<1>2. QED BY <1>1, CopiesInvariant, TypeCorrect, PTL

=============================================================================
