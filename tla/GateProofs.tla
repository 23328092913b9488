------------------------------ MODULE GateProofs ------------------------------
(***************************************************************************)
(* Theorems about Gate, for every value of its constants.                  *)
(***************************************************************************)
EXTENDS Gate, FiniteSetTheorems, TLAPS

(* The tasks that hold a slot of an address.                               *)
Tasks(i) == {c \in Conn : from[c] = i /\ phase[c] \in Holding}

CountInv == \A i \in IP : connections[i] = Cardinality(Tasks(i))

(* The connection between the two halves of check_connection has no task.  *)
CheckedIsAway == \A c \in Conn : checking = c => phase[c] = "away"

IInv == TypeOK /\ CheckedIsAway /\ CountInv

-----------------------------------------------------------------------------
(* The tasks of an address are finitely many, so they can be counted.      *)
LEMMA TasksFinite ==
  ASSUME NEW i
  PROVE  IsFiniteSet(Tasks(i)) /\ Cardinality(Tasks(i)) \in Nat
<1>1. Tasks(i) \subseteq Conn
  BY DEF Tasks
<1>2. IsFiniteSet(Tasks(i))
  BY <1>1, GateAssumption, FS_Subset
<1>3. QED BY <1>2, FS_CardinalityType

(* Every step keeps the types.                                             *)
LEMMA TypeStep ==
  ASSUME TypeOK, [Next]_vars
  PROVE  TypeOK'
<1> USE GateAssumption
<1>1. CASE UNCHANGED vars
  BY <1>1 DEF TypeOK, vars, limiterVars, historyVars
<1>2. CASE Tick
  BY <1>2 DEF TypeOK, Tick, limiterVars, historyVars
<1>3. ASSUME NEW c \in Conn, CheckAttempts(c)
      PROVE  TypeOK'
  <2> DEFINE recent == Retained(attempts[from[c]])
  <2>1. from[c] \in IP /\ recent \in SUBSET Stamp
    BY DEF TypeOK, Retained
  <2>2. now \in 0 .. MaxTime /\ Stamped(recent, c) \in SUBSET Stamp
    BY <2>1 DEF TypeOK, Stamped, Stamp
  <2>3. CASE Full(recent)
    BY <1>3, <2>1, <2>3 DEF TypeOK, CheckAttempts
  <2>4. CASE ~Full(recent)
    BY <1>3, <2>1, <2>2, <2>4 DEF TypeOK, CheckAttempts
  <2>5. QED BY <2>3, <2>4
<1>4. ASSUME NEW c \in Conn, CheckCount(c)
      PROVE  TypeOK'
  BY <1>4 DEF TypeOK, CheckCount, limiterVars, historyVars
<1>5. ASSUME NEW c \in Conn, Register(c)
      PROVE  TypeOK'
  BY <1>5 DEF TypeOK, Register, Registered, Holding, historyVars
<1>6. ASSUME NEW c \in Conn, Route(c) \/ WebSocketEnds(c) \/ WebhookUnresolved(c) \/ LogPanics(c)
                               \/ WebhookAnswered(c)
      PROVE  TypeOK'
  BY <1>6 DEF TypeOK, Route, WebSocketEnds, WebhookUnresolved, LogPanics, WebhookAnswered, Registered, Holding,
              limiterVars, historyVars
<1>7. ASSUME NEW c \in Conn, WebhookLimit(c)
      PROVE  TypeOK'
  <2> DEFINE recent == Retained(windows[hook[c]])
  <2>1. hook[c] \in Token /\ recent \in SUBSET Stamp
    BY DEF TypeOK, Retained
  <2>2. now \in 0 .. MaxTime /\ Stamped(recent, c) \in SUBSET Stamp
    BY <2>1 DEF TypeOK, Stamped, Stamp
  <2>3. CASE ~Allowed(recent)
    BY <1>7, <2>1, <2>3 DEF TypeOK, WebhookLimit, Registered, Holding
  <2>4. CASE Allowed(recent)
    BY <1>7, <2>1, <2>2, <2>4 DEF TypeOK, WebhookLimit, Registered, Holding
  <2>5. QED BY <2>3, <2>4
<1>8. ASSUME NEW c \in Conn, Remove(c)
      PROVE  TypeOK'
  BY <1>8 DEF TypeOK, Remove, Released, historyVars
<1>9. QED BY <1>1, <1>2, <1>3, <1>4, <1>5, <1>6, <1>7, <1>8 DEF Next, AcceptLoop, ConnectionTask

-----------------------------------------------------------------------------
(* A step that leaves every task registered or unregistered and every      *)
(* count alone keeps the counts right.                                     *)
LEMMA SameTasks ==
  ASSUME CountInv, connections' = connections, from' = from,
         \A c \in Conn : phase'[c] \in Holding <=> phase[c] \in Holding
  PROVE  CountInv'
<1>1. ASSUME NEW i \in IP PROVE Tasks(i)' = Tasks(i)
  BY DEF Tasks
<1>2. QED BY <1>1 DEF CountInv

(* Registering counts the task once, under its own address.                *)
LEMMA RegisterCounts ==
  ASSUME IInv, NEW c \in Conn, Register(c)
  PROVE  CountInv'
<1>1. SUFFICES ASSUME NEW i \in IP
               PROVE  connections'[i] = Cardinality(Tasks(i)')
  BY DEF CountInv
<1>2. /\ phase \in [Conn -> {"away", "refused", "spawned", "gone"} \cup Holding]
      /\ connections \in [IP -> Nat] /\ from[c] \in IP /\ from' = from
      /\ phase[c] = "spawned" /\ phase' = [phase EXCEPT ![c] = "open"]
      /\ connections' = [connections EXCEPT ![from[c]] = @ + 1]
  BY DEF IInv, TypeOK, Register
<1>3. c \notin Tasks(i)
  BY <1>2 DEF Tasks, Registered, Holding
<1>4. CASE i = from[c]
  <2>1. Tasks(i)' = Tasks(i) \cup {c}
    BY <1>2, <1>4 DEF Tasks, Registered, Holding
  <2>2. Cardinality(Tasks(i) \cup {c}) = Cardinality(Tasks(i)) + 1
    BY <1>3, TasksFinite, FS_AddElement
  <2>3. QED BY <1>2, <1>4, <2>1, <2>2 DEF IInv, CountInv
<1>5. CASE i # from[c]
  <2>1. Tasks(i)' = Tasks(i)
    BY <1>2, <1>5 DEF Tasks, Registered, Holding
  <2>2. QED BY <1>2, <1>5, <2>1 DEF IInv, CountInv
<1>6. QED BY <1>4, <1>5

(* Removing gives back the slot the task took, and no other's.             *)
LEMMA RemoveCounts ==
  ASSUME IInv, NEW c \in Conn, Remove(c)
  PROVE  CountInv'
<1>1. SUFFICES ASSUME NEW i \in IP
               PROVE  connections'[i] = Cardinality(Tasks(i)')
  BY DEF CountInv
<1>2. /\ phase \in [Conn -> {"away", "refused", "spawned", "gone"} \cup Holding]
      /\ connections \in [IP -> Nat] /\ from[c] \in IP /\ from' = from
      /\ phase[c] = "ended" /\ phase' = [phase EXCEPT ![c] = "gone"]
      /\ connections' = [connections EXCEPT ![from[c]] = Released(@)]
  BY DEF IInv, TypeOK, Remove
<1>3. CASE i = from[c]
  <2>1. c \in Tasks(i) /\ Tasks(i)' = Tasks(i) \ {c}
    BY <1>2, <1>3 DEF Tasks, Registered, Holding
  <2>2. Cardinality(Tasks(i) \ {c}) = Cardinality(Tasks(i)) - 1
    BY <2>1, TasksFinite, FS_RemoveElement
  <2>3. Cardinality(Tasks(i)) \in Nat /\ Cardinality(Tasks(i) \ {c}) \in Nat
    <3>1. IsFiniteSet(Tasks(i) \ {c})
      BY TasksFinite, FS_Subset
    <3>2. QED BY <3>1, TasksFinite, FS_CardinalityType
  <2>4. connections[i] = Cardinality(Tasks(i)) /\ connections[i] > 0
    BY <2>2, <2>3 DEF IInv, CountInv
  <2>5. connections'[i] = connections[i] - 1
    BY <1>2, <1>3, <2>4 DEF Released
  <2>6. QED BY <2>1, <2>2, <2>4, <2>5
<1>4. CASE i # from[c]
  <2>1. Tasks(i)' = Tasks(i)
    BY <1>2, <1>4 DEF Tasks, Registered, Holding
  <2>2. QED BY <1>2, <1>4, <2>1 DEF IInv, CountInv
<1>5. QED BY <1>3, <1>4

(* Every step keeps the counts right.                                      *)
LEMMA CountStep ==
  ASSUME IInv, [Next]_vars
  PROVE  CountInv'
<1> USE DEF IInv
<1>1. CASE UNCHANGED vars
  BY <1>1, SameTasks DEF vars, limiterVars
<1>2. CASE Tick
  BY <1>2, SameTasks DEF Tick, limiterVars
<1>3. ASSUME NEW c \in Conn, AcceptLoop(c)
      PROVE  CountInv'
  <2>1. connections' = connections /\ from' = from
    BY <1>3 DEF AcceptLoop, CheckAttempts, CheckCount, limiterVars
  <2>2. \A d \in Conn : phase'[d] \in Holding <=> phase[d] \in Holding
    <3>1. CASE CheckAttempts(c)
      BY <3>1 DEF CheckAttempts, TypeOK, Registered, Holding
    <3>2. CASE CheckCount(c)
      BY <3>2 DEF CheckCount, CheckedIsAway, TypeOK, Registered, Holding
    <3>3. QED BY <1>3, <3>1, <3>2 DEF AcceptLoop
  <2>3. QED BY <2>1, <2>2, SameTasks
<1>4. ASSUME NEW c \in Conn, Route(c) \/ WebSocketEnds(c) \/ WebhookUnresolved(c)
                               \/ LogPanics(c) \/ WebhookLimit(c) \/ WebhookAnswered(c)
      PROVE  CountInv'
  <2>1. connections' = connections /\ from' = from
    BY <1>4 DEF Route, WebSocketEnds, WebhookUnresolved, LogPanics, WebhookLimit, WebhookAnswered, limiterVars
  <2>2. phase[c] \in Holding
    BY <1>4 DEF Route, WebSocketEnds, WebhookUnresolved, LogPanics, WebhookLimit, WebhookAnswered, Registered, Holding
  <2>3. \E next \in Holding : phase' = [phase EXCEPT ![c] = next]
    BY <1>4 DEF Route, WebSocketEnds, WebhookUnresolved, LogPanics, WebhookLimit, WebhookAnswered, Registered, Holding
  <2>4. \A d \in Conn : phase'[d] \in Holding <=> phase[d] \in Holding
    BY <2>2, <2>3 DEF TypeOK
  <2>5. QED BY <2>1, <2>4, SameTasks
<1>5. QED BY <1>1, <1>2, <1>3, <1>4, RegisterCounts, RemoveCounts DEF Next, ConnectionTask

(* The accept loop leaves the connection it is checking away.              *)
LEMMA CheckedStep ==
  ASSUME TypeOK, CheckedIsAway, [Next]_vars
  PROVE  CheckedIsAway'
<1> USE GateAssumption DEF CheckedIsAway, TypeOK
<1>1. CASE UNCHANGED vars
  BY <1>1 DEF vars
<1>2. CASE Tick
  BY <1>2 DEF Tick
<1>3. ASSUME NEW c \in Conn, AcceptLoop(c)
      PROVE  CheckedIsAway'
  BY <1>3 DEF AcceptLoop, CheckAttempts, CheckCount
<1>4. ASSUME NEW c \in Conn, ConnectionTask(c)
      PROVE  CheckedIsAway'
  <2>1. phase[c] # "away" /\ checking' = checking
    BY <1>4 DEF ConnectionTask, Register, Route, WebSocketEnds, WebhookUnresolved, LogPanics, WebhookLimit,
                WebhookAnswered, Remove
  <2>2. \A d \in Conn : d # c => phase'[d] = phase[d]
    BY <1>4 DEF ConnectionTask, Register, Route, WebSocketEnds, WebhookUnresolved, LogPanics, WebhookLimit,
                WebhookAnswered, Remove
  <2>3. QED BY <2>1, <2>2
<1>5. QED BY <1>1, <1>2, <1>3, <1>4 DEF Next

(* The inductive invariant: types, the accept loop and the counts.         *)
THEOREM GateInvariant == Spec => []IInv
<1>1. Init => IInv
  <2> SUFFICES ASSUME Init PROVE IInv
    OBVIOUS
  <2>1. TypeOK /\ CheckedIsAway
    BY GateAssumption DEF Init, TypeOK, CheckedIsAway
  <2>2. ASSUME NEW i \in IP PROVE connections[i] = Cardinality(Tasks(i))
    <3>1. Tasks(i) = {}
      BY DEF Init, Tasks, Registered, Holding
    <3>2. QED BY <3>1, FS_EmptySet DEF Init
  <2>3. QED BY <2>1, <2>2 DEF IInv, CountInv
<1>2. IInv /\ [Next]_vars => IInv'
  BY TypeStep, CheckedStep, CountStep DEF IInv
<1>3. QED BY <1>1, <1>2, PTL DEF Spec

(* An address's count is the number of its registered tasks, whatever way  *)
(* its connections end: no failure leaks a slot or gives one back twice.   *)
THEOREM CountIsOpenKept == Spec => []CountIsOpen
<1>1. IInv => CountIsOpen
  BY DEF IInv, CountInv, CountIsOpen, Tasks
<1>2. QED BY <1>1, GateInvariant, PTL

-----------------------------------------------------------------------------
(* The two sliding windows.  Both limiters work alike: the events of the   *)
(* connections in S (those of one address, or those asking for one token)  *)
(* happen at the times in at, and a vector of stamps is kept of them.      *)

(* AttemptsPerMinute and EventsPerMinute are not inductive: the limiter    *)
(* counts stamps, not events, so it must not have lost a recent one.       *)
Windowed(stamps, at, S) ==
  \A d \in S : at[d] # -1 /\ Recent(at[d]) => [by |-> d, at |-> at[d]] \in stamps

PerMinute(at, S, limit) ==
  \A c \in S : at[c] # -1 => Cardinality(Within(at, c) \cap S) <= limit

Behind(at) == \A c \in Conn : at[c] <= now

From(i) == {c \in Conn : from[c] = i}
Hooked(t) == {c \in Conn : hook[c] = t}

AttemptsInv ==
  /\ Behind(admittedAt)
  /\ \A i \in IP : /\ Windowed(attempts[i], admittedAt, From(i))
                   /\ PerMinute(admittedAt, From(i), MaxAttempts)

EventsInv ==
  /\ Behind(recordedAt)
  /\ MaxEvents # 0 =>
       \A t \in Token : /\ Windowed(windows[t], recordedAt, Hooked(t))
                        /\ PerMinute(recordedAt, Hooked(t), MaxEvents)

-----------------------------------------------------------------------------
(* Any set of stamps is finite.                                            *)
LEMMA StampsFinite ==
  ASSUME NEW stamps \in SUBSET Stamp
  PROVE  IsFiniteSet(stamps) /\ Cardinality(stamps) \in Nat
<1> DEFINE Pairs == Conn \X (0 .. MaxTime)
           f == [p \in Pairs |-> [by |-> p[1], at |-> p[2]]]
<1>1. IsFiniteSet(Pairs)
  <2>1. 0 \in Int /\ MaxTime \in Int
    BY GateAssumption
  <2>2. IsFiniteSet(0 .. MaxTime)
    BY <2>1, FS_Interval
  <2>3. QED BY <2>2, GateAssumption, FS_Product
<1>2. f \in Surjection(Pairs, Stamp)
  <2>1. f \in [Pairs -> Stamp]
    BY DEF Stamp
  <2>2. ASSUME NEW s \in Stamp PROVE \E p \in Pairs : f[p] = s
    <3>1. <<s.by, s.at>> \in Pairs /\ f[<<s.by, s.at>>] = s
      BY DEF Stamp
    <3>2. QED BY <3>1
  <2>3. QED BY <2>1, <2>2 DEF Surjection
<1>3. IsFiniteSet(Stamp)
  BY <1>1, <1>2, FS_Surjection
<1>4. IsFiniteSet(stamps)
  BY <1>3, FS_Subset
<1>5. QED BY <1>4, FS_CardinalityType

(* What the limiter counts is no less than what happened: each event of    *)
(* the window has a stamp of its own.                                      *)
LEMMA CountedByStamps ==
  ASSUME now \in 0 .. MaxTime, NEW at \in [Conn -> -1 .. MaxTime],
         NEW S \in SUBSET Conn, NEW stamps \in SUBSET Stamp, Windowed(stamps, at, S),
         NEW T \in SUBSET S, \A d \in T : at[d] # -1 /\ Recent(at[d])
  PROVE  IsFiniteSet(T) /\ Cardinality(T) \in Nat /\ Cardinality(T) <= Cardinality(Retained(stamps))
<1> DEFINE f == [d \in T |-> [by |-> d, at |-> at[d]]]
<1>1. Retained(stamps) \in SUBSET Stamp
  BY DEF Retained
<1>2. f \in [T -> Retained(stamps)]
  BY DEF Windowed, Retained
<1>3. IsInjective(f)
  BY DEF IsInjective
<1>4. f \in Injection(T, Retained(stamps))
  BY <1>2, <1>3 DEF Injection
<1>5. IsFiniteSet(Retained(stamps))
  BY <1>1, StampsFinite
<1>6. QED BY <1>4, <1>5, FS_Injection, FS_CardinalityType

(* The heart of both limiters: an event let in while fewer than limit      *)
(* stamps are retained leaves every minute within the limit.               *)
LEMMA RecordKeeps ==
  ASSUME now \in 0 .. MaxTime, NEW at \in [Conn -> -1 .. MaxTime], Behind(at),
         NEW S \in SUBSET Conn, NEW c \in S, NEW stamps \in SUBSET Stamp, NEW limit \in Nat,
         Windowed(stamps, at, S), PerMinute(at, S, limit),
         Cardinality(Retained(stamps)) < limit,
         NEW later \in [Conn -> -1 .. MaxTime], later = [at EXCEPT ![c] = now]
  PROVE  PerMinute(later, S, limit) /\ Windowed(Stamped(Retained(stamps), c), later, S)
<1> USE GateAssumption
<1>0. IsFiniteSet(S)
  BY FS_Subset
<1>1. Windowed(Stamped(Retained(stamps), c), later, S)
  BY DEF Windowed, Stamped, Retained
<1>2. Cardinality(Within(later, c) \cap S) <= limit
  <2> DEFINE T == {d \in S \ {c} : at[d] # -1 /\ Recent(at[d])}
  <2>1. IsFiniteSet(T) /\ Cardinality(T) \in Nat /\ Cardinality(T) <= Cardinality(Retained(stamps))
    BY CountedByStamps
  <2>2. Within(later, c) \cap S = T \cup {c}
    BY DEF Within, Recent, Behind
  <2>3. Cardinality(T \cup {c}) = Cardinality(T) + 1
    BY <2>1, FS_AddElement
  <2>4. Cardinality(Retained(stamps)) \in Nat
    <3>1. Retained(stamps) \in SUBSET Stamp
      BY DEF Retained
    <3>2. QED BY <3>1, StampsFinite
  <2>5. Cardinality(T) + 1 <= limit
    BY <2>1, <2>4
  <2>6. QED BY <2>2, <2>3, <2>5
<1>3. ASSUME NEW d \in S, later[d] # -1, d # c
      PROVE  Cardinality(Within(later, d) \cap S) <= limit
  <2>1. CASE at[d] = now
    <3>1. Within(later, d) = Within(later, c)
      BY <1>3, <2>1 DEF Within
    <3>2. QED BY <1>2, <3>1
  <2>2. CASE at[d] # now
    <3>1. Within(later, d) \cap S \subseteq Within(at, d) \cap S
      BY <1>3, <2>2 DEF Within, Behind
    <3>2. IsFiniteSet(Within(at, d) \cap S)
      BY <1>0, FS_Subset
    <3>3. Cardinality(Within(later, d) \cap S) <= Cardinality(Within(at, d) \cap S)
      BY <3>1, <3>2, FS_Subset
    <3>4. Cardinality(Within(at, d) \cap S) <= limit
      BY <1>3 DEF PerMinute
    <3>5. IsFiniteSet(Within(later, d) \cap S)
      BY <3>1, <3>2, FS_Subset
    <3>6. Cardinality(Within(later, d) \cap S) \in Nat /\ Cardinality(Within(at, d) \cap S) \in Nat
      BY <3>2, <3>5, FS_CardinalityType
    <3>7. QED BY <3>3, <3>4, <3>6
  <2>3. QED BY <2>1, <2>2
<1>4. QED BY <1>1, <1>2, <1>3 DEF PerMinute

(* An event elsewhere is none of this address's, or token's.               *)
LEMMA OthersKeep ==
  ASSUME NEW at \in [Conn -> -1 .. MaxTime], NEW S \in SUBSET Conn, NEW stamps, NEW limit,
         Windowed(stamps, at, S), PerMinute(at, S, limit),
         NEW later \in [Conn -> -1 .. MaxTime], \A d \in S : later[d] = at[d]
  PROVE  PerMinute(later, S, limit) /\ Windowed(stamps, later, S)
<1>1. ASSUME NEW d \in S PROVE Within(later, d) \cap S = Within(at, d) \cap S
  BY DEF Within
<1>2. QED BY <1>1 DEF PerMinute, Windowed
-----------------------------------------------------------------------------
(* retain() keeps the stamps that count.                                   *)
LEMMA RetainKeeps ==
  ASSUME NEW stamps, NEW at \in [Conn -> -1 .. MaxTime], NEW S \in SUBSET Conn,
         Windowed(stamps, at, S)
  PROVE  Windowed(Retained(stamps), at, S)
BY DEF Windowed, Retained

LEMMA AttemptsStep ==
  ASSUME IInv, AttemptsInv, [Next]_vars
  PROVE  AttemptsInv'
<1> USE GateAssumption
<1>0. /\ now \in 0 .. MaxTime /\ from \in [Conn -> IP] /\ attempts \in [IP -> SUBSET Stamp]
      /\ admittedAt \in [Conn -> -1 .. MaxTime]
      /\ admittedAt' \in [Conn -> -1 .. MaxTime]
  BY TypeStep DEF IInv, TypeOK
<1>1. CASE UNCHANGED <<now, from, attempts, admittedAt>>
  BY <1>1 DEF AttemptsInv, Behind, Windowed, Recent, PerMinute, Within, From
<1>2. CASE Tick
  <2>1. now' = now + 1 /\ UNCHANGED <<from, attempts, admittedAt>>
    BY <1>2 DEF Tick, limiterVars, historyVars
  <2>2. Behind(admittedAt)'
    BY <1>0, <2>1 DEF AttemptsInv, Behind
  <2>3. ASSUME NEW i \in IP PROVE Windowed(attempts[i], admittedAt, From(i))'
    <3>1. Windowed(attempts[i], admittedAt, From(i))
      BY DEF AttemptsInv
    <3>2. QED BY <1>0, <2>1, <3>1 DEF Windowed, Recent, From
  <2>4. ASSUME NEW i \in IP PROVE PerMinute(admittedAt, From(i), MaxAttempts)'
    BY <2>1 DEF AttemptsInv, PerMinute, Within, From
  <2>5. QED BY <2>2, <2>3, <2>4 DEF AttemptsInv
<1>3. ASSUME NEW c \in Conn, CheckAttempts(c)
      PROVE  AttemptsInv'
  <2> DEFINE i == from[c]
             recent == Retained(attempts[i])
  <2>1. i \in IP /\ UNCHANGED <<now, from>> /\ From(i) \subseteq Conn /\ c \in From(i)
    BY <1>0, <1>3 DEF CheckAttempts, From
  <2>2. CASE Full(recent) /\ attempts' = [attempts EXCEPT ![i] = recent] /\ UNCHANGED admittedAt
    <3>1. Windowed(recent, admittedAt, From(i))
      BY <1>0, <2>1, RetainKeeps DEF AttemptsInv
    <3>2. QED BY <1>0, <2>1, <2>2, <3>1
              DEF AttemptsInv, Behind, Windowed, Recent, PerMinute, Within, From
  <2>3. CASE /\ ~Full(recent) /\ attempts' = [attempts EXCEPT ![i] = Stamped(recent, c)]
             /\ admittedAt' = [admittedAt EXCEPT ![c] = now]
    <3>1. Cardinality(recent) < MaxAttempts
      <4>1. recent \in SUBSET Stamp
        BY <1>0, <2>1 DEF Retained
      <4>2. QED BY <2>3, <4>1, StampsFinite DEF Full
    <3>2. /\ PerMinute(admittedAt', From(i), MaxAttempts)
          /\ Windowed(Stamped(recent, c), admittedAt', From(i))
      <4>1. attempts[i] \in SUBSET Stamp /\ From(i) \in SUBSET Conn /\ MaxAttempts \in Nat
        BY <1>0, <2>1
      <4>2. /\ Behind(admittedAt) /\ Windowed(attempts[i], admittedAt, From(i))
            /\ PerMinute(admittedAt, From(i), MaxAttempts)
        BY <2>1 DEF AttemptsInv
      <4>3. QED BY <1>0, <2>1, <2>3, <3>1, <4>1, <4>2, RecordKeeps
    <3>3. ASSUME NEW k \in IP, k # i
          PROVE  /\ PerMinute(admittedAt', From(k), MaxAttempts)
                 /\ Windowed(attempts[k], admittedAt', From(k))
      <4>1. From(k) \in SUBSET Conn /\ \A d \in From(k) : admittedAt'[d] = admittedAt[d]
        BY <1>0, <2>3, <3>3 DEF From
      <4>2. /\ Windowed(attempts[k], admittedAt, From(k))
            /\ PerMinute(admittedAt, From(k), MaxAttempts)
        BY DEF AttemptsInv
      <4>3. QED BY <1>0, <4>1, <4>2, OthersKeep
    <3>4. Behind(admittedAt)'
      BY <1>0, <2>1, <2>3 DEF AttemptsInv, Behind
    <3>5. ASSUME NEW k \in IP
          PROVE  Windowed(attempts'[k], admittedAt', From(k)) /\ PerMinute(admittedAt', From(k), MaxAttempts)
      <4>1. attempts'[k] = IF k = i THEN Stamped(recent, c) ELSE attempts[k]
        BY <1>0, <2>1, <2>3
      <4>2. QED BY <3>2, <3>3, <4>1
    <3>6. QED BY <2>1, <3>4, <3>5
              DEF AttemptsInv, Windowed, Recent, PerMinute, Within, From
  <2>4. QED BY <1>3, <2>2, <2>3 DEF CheckAttempts
<1>4. ASSUME NEW c \in Conn, CheckCount(c) \/ ConnectionTask(c)
      PROVE  UNCHANGED <<now, from, attempts, admittedAt>>
  BY <1>4 DEF CheckCount, ConnectionTask, Register, Route, WebSocketEnds, WebhookUnresolved, LogPanics,
              WebhookLimit, WebhookAnswered, Remove, limiterVars, historyVars
<1>5. CASE UNCHANGED vars
  BY <1>1, <1>5 DEF vars, limiterVars, historyVars
<1>6. QED BY <1>1, <1>2, <1>3, <1>4, <1>5 DEF Next, AcceptLoop

LEMMA EventsStep ==
  ASSUME IInv, EventsInv, [Next]_vars
  PROVE  EventsInv'
<1> USE GateAssumption
<1>0. /\ now \in 0 .. MaxTime /\ hook \in [Conn -> Token] /\ windows \in [Token -> SUBSET Stamp]
      /\ recordedAt \in [Conn -> -1 .. MaxTime]
      /\ recordedAt' \in [Conn -> -1 .. MaxTime]
  BY TypeStep DEF IInv, TypeOK
<1>1. CASE UNCHANGED <<now, hook, windows, recordedAt>>
  BY <1>1 DEF EventsInv, Behind, Windowed, Recent, PerMinute, Within, Hooked
<1>2. CASE Tick
  <2>1. now' = now + 1 /\ UNCHANGED <<hook, windows, recordedAt>>
    BY <1>2 DEF Tick, limiterVars, historyVars
  <2>2. Behind(recordedAt)'
    BY <1>0, <2>1 DEF EventsInv, Behind
  <2>3. ASSUME NEW t \in Token, MaxEvents # 0 PROVE Windowed(windows[t], recordedAt, Hooked(t))'
    <3>1. Windowed(windows[t], recordedAt, Hooked(t))
      BY <2>3 DEF EventsInv
    <3>2. QED BY <1>0, <2>1, <3>1 DEF Windowed, Recent, Hooked
  <2>4. ASSUME NEW t \in Token, MaxEvents # 0 PROVE PerMinute(recordedAt, Hooked(t), MaxEvents)'
    BY <2>1, <2>4 DEF EventsInv, PerMinute, Within, Hooked
  <2>5. QED BY <2>2, <2>3, <2>4 DEF EventsInv
<1>3. ASSUME NEW c \in Conn, WebhookLimit(c)
      PROVE  EventsInv'
  <2> DEFINE t == hook[c]
             recent == Retained(windows[t])
  <2>1. t \in Token /\ UNCHANGED <<now, hook>> /\ Hooked(t) \subseteq Conn /\ c \in Hooked(t)
    BY <1>0, <1>3 DEF WebhookLimit, Hooked
  <2>2. CASE ~Allowed(recent) /\ windows' = [windows EXCEPT ![t] = recent] /\ UNCHANGED recordedAt
    <3>1. MaxEvents # 0 => Windowed(recent, recordedAt, Hooked(t))
      BY <1>0, <2>1, RetainKeeps DEF EventsInv
    <3>2. QED BY <1>0, <2>1, <2>2, <3>1
              DEF EventsInv, Behind, Windowed, Recent, PerMinute, Within, Hooked
  <2>3. CASE /\ Allowed(recent)
             /\ windows' = [windows EXCEPT ![t] = IF MaxEvents = 0 THEN @ ELSE Stamped(recent, c)]
             /\ recordedAt' = [recordedAt EXCEPT ![c] = now]
    <3>1. Behind(recordedAt)'
      BY <1>0, <2>1, <2>3 DEF EventsInv, Behind
    <3>2. SUFFICES ASSUME MaxEvents # 0, NEW u \in Token
                   PROVE  /\ Windowed(windows'[u], recordedAt', Hooked(u))
                          /\ PerMinute(recordedAt', Hooked(u), MaxEvents)
      BY <2>1, <3>1 DEF EventsInv, Windowed, Recent, PerMinute, Within, Hooked
    <3>3. /\ Behind(recordedAt) /\ Windowed(windows[u], recordedAt, Hooked(u))
          /\ PerMinute(recordedAt, Hooked(u), MaxEvents)
      BY <3>2 DEF EventsInv
    <3>4. CASE u = t
      <4>1. Cardinality(recent) < MaxEvents
        BY <2>3, <3>2 DEF Allowed
      <4>2. windows[t] \in SUBSET Stamp /\ Hooked(t) \in SUBSET Conn /\ MaxEvents \in Nat
        BY <1>0, <2>1
      <4>3. /\ PerMinute(recordedAt', Hooked(t), MaxEvents)
            /\ Windowed(Stamped(recent, c), recordedAt', Hooked(t))
        BY <1>0, <2>1, <2>3, <3>3, <3>4, <4>1, <4>2, RecordKeeps
      <4>4. QED BY <1>0, <2>1, <2>3, <3>2, <3>4, <4>3
    <3>5. CASE u # t
      <4>1. Hooked(u) \in SUBSET Conn /\ \A d \in Hooked(u) : recordedAt'[d] = recordedAt[d]
        BY <1>0, <2>3, <3>5 DEF Hooked
      <4>2. windows'[u] = windows[u]
        BY <1>0, <2>3, <3>5
      <4>3. QED BY <1>0, <3>3, <4>1, <4>2, OthersKeep
    <3>6. QED BY <3>4, <3>5
  <2>4. QED BY <1>3, <2>2, <2>3 DEF WebhookLimit
<1>4. ASSUME NEW c \in Conn, AcceptLoop(c)
      PROVE  UNCHANGED <<now, hook, windows, recordedAt>>
  BY <1>4 DEF AcceptLoop, CheckAttempts, CheckCount, limiterVars, historyVars
<1>5. ASSUME NEW c \in Conn, ConnectionTask(c), ~WebhookLimit(c)
      PROVE  UNCHANGED <<now, hook, windows, recordedAt>>
  BY <1>5 DEF ConnectionTask, Register, Route, WebSocketEnds, WebhookUnresolved, LogPanics,
              WebhookAnswered, Remove, limiterVars, historyVars
<1>6. CASE UNCHANGED vars
  BY <1>1, <1>6 DEF vars, limiterVars, historyVars
<1>7. QED BY <1>1, <1>2, <1>3, <1>4, <1>5, <1>6 DEF Next

(* In every reachable state each limiter still holds a stamp of every      *)
(* recent event it let through, and no minute of the past is over its      *)
(* limit.                                                                  *)
THEOREM LimiterInvariant == Spec => [](AttemptsInv /\ EventsInv)
<1>1. Init => AttemptsInv /\ EventsInv
  BY GateAssumption
     DEF Init, AttemptsInv, EventsInv, Behind, Windowed, PerMinute, From, Hooked
<1>2. IInv /\ AttemptsInv /\ EventsInv /\ [Next]_vars => AttemptsInv' /\ EventsInv'
  BY AttemptsStep, EventsStep
<1>3. QED BY <1>1, <1>2, GateInvariant, PTL DEF Spec

(* No minute, wherever it starts, holds more admitted attempts of an       *)
(* address than max_attempts_per_minute.                                   *)
THEOREM AttemptsPerMinuteKept == Spec => []AttemptsPerMinute
<1>1. IInv /\ AttemptsInv => AttemptsPerMinute
  <2> SUFFICES ASSUME IInv, AttemptsInv, NEW c \in Conn, admittedAt[c] # -1
               PROVE  Cardinality({d \in Within(admittedAt, c) : from[d] = from[c]}) <= MaxAttempts
    BY DEF AttemptsPerMinute
  <2>1. from[c] \in IP /\ c \in From(from[c])
    BY DEF IInv, TypeOK, From
  <2>2. {d \in Within(admittedAt, c) : from[d] = from[c]} = Within(admittedAt, c) \cap From(from[c])
    BY DEF Within, From
  <2>3. QED BY <2>1, <2>2 DEF AttemptsInv, PerMinute
<1>2. QED BY <1>1, GateInvariant, LimiterInvariant, PTL

(* The same for the events of a webhook token, which any number of         *)
(* connections record concurrently.                                        *)
THEOREM EventsPerMinuteKept == Spec => []EventsPerMinute
<1>1. IInv /\ EventsInv => EventsPerMinute
  <2> SUFFICES ASSUME IInv, EventsInv, NEW c \in Conn, recordedAt[c] # -1, MaxEvents # 0
               PROVE  Cardinality({d \in Within(recordedAt, c) : hook[d] = hook[c]}) <= MaxEvents
    BY DEF EventsPerMinute
  <2>1. hook[c] \in Token /\ c \in Hooked(hook[c])
    BY DEF IInv, TypeOK, Hooked
  <2>2. {d \in Within(recordedAt, c) : hook[d] = hook[c]} = Within(recordedAt, c) \cap Hooked(hook[c])
    BY DEF Within, Hooked
  <2>3. QED BY <2>1, <2>2 DEF EventsInv, PerMinute
<1>2. QED BY <1>1, GateInvariant, LimiterInvariant, PTL
===============================================================================
