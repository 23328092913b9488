---------------------------- MODULE PushRelayProofs ----------------------------
(***************************************************************************)
(* Theorems about PushRelay, for any number of calls and any durations     *)
(* that satisfy PushAssumption: its type invariant, that no expired token  *)
(* reaches the relay, that no caller pushes twice within a cooldown, and   *)
(* that no caller stands still for longer than two requests.               *)
(***************************************************************************)
EXTENDS PushRelay, TLAPS

(* The cache counts on a token for no longer than it is valid, and a token *)
(* in use outlives the request that carries it.                            *)
TokensLast ==
  /\ cacheLeft <= cacheTrue
  /\ \A c \in Call :
       /\ pc[c] = "issued" =>
            /\ life[c] > 2 * Timeout
            /\ carry[c] + wait[c] >= life[c]
       /\ pc[c] = "sending" => carry[c] + wait[c] > Timeout

(* A caller that stands still does so in one of its two requests.          *)
WaitsCounted ==
  \A c \in Call :
    /\ pc[c] \in {"idle", "stamp", "token"} => age[c] = 0 /\ wait[c] = 0
    /\ pc[c] \in {"fetching", "issued"} => age[c] <= wait[c]
    /\ pc[c] \in {"sending", "received"} => age[c] <= Timeout + wait[c]

(* The stamp of the map is at least as recent as any caller's own push.    *)
StampsCounted ==
  \A c \in Call :
    /\ sinceStamp <= sinceMine[c]
    /\ pc[c] = "stamp" => sinceMine[c] = Cooldown

IInv == TypeOK /\ TokensLast /\ WaitsCounted /\ StampsCounted

-----------------------------------------------------------------------------
(* The clock's helpers stay in range.                                      *)
LEMMA ClockTypes ==
  /\ \A n \in Nat : Less(n) \in Nat /\ n <= Less(n) + 1 /\ Less(n) <= n
  /\ \A m, n \in Nat : m <= n => Less(m) <= Less(n)
  /\ \A cap \in Nat : \A n \in 0 .. cap : More(n, cap) \in 0 .. cap
  /\ \A cap \in Nat : \A n \in 0 .. cap : n < cap => More(n, cap) = n + 1
  /\ \A cap \in Nat : \A n \in 0 .. cap : More(n, cap) <= n + 1 /\ n <= More(n, cap)
  /\ \A cap \in Nat : \A m, n \in 0 .. cap : m <= n => More(m, cap) <= More(n, cap)
BY DEF Less, More

(* The calls' own steps keep the types.                                    *)
LEMMA CallTypes ==
  ASSUME TypeOK, NEW c \in Call,
         \/ BeginNotify(c) \/ BeginRegister(c) \/ ClientStep(c)
         \/ Issue(c) \/ StoreToken(c) \/ RelayReceives(c) \/ RelayAnswers(c) \/ Fails(c)
  PROVE  TypeOK'
<1> USE PushAssumption DEF TypeOK, Goes, Requesting, cacheVars, callVars, histVars
<1>1. CASE BeginNotify(c)
  BY <1>1 DEF BeginNotify
<1>2. CASE Stamp(c)
  BY <1>2 DEF Stamp, Stamped
<1>3. CASE NotifyJwt(c) \/ BeginRegister(c)
  BY <1>3 DEF NotifyJwt, BeginRegister, GetJwt
<1>4. CASE Issue(c)
  BY <1>4 DEF Issue
<1>5. CASE StoreToken(c)
  <2>1. life[c] \in Nat /\ carry[c] \in Nat
    OBVIOUS
  <2>2. CachedFor(c) \in Nat
    BY <2>1 DEF CachedFor
  <2>3. QED BY <1>5, <2>1, <2>2 DEF StoreToken
<1>6. CASE RelayReceives(c)
  BY <1>6 DEF RelayReceives
<1>7. CASE RelayAnswers(c) \/ Fails(c) \/ TimesOut(c)
  BY <1>7 DEF RelayAnswers, Fails, TimesOut, Ends
<1>8. QED BY <1>1, <1>2, <1>3, <1>4, <1>5, <1>6, <1>7 DEF ClientStep

(* The clock keeps the types.                                              *)
LEMMA TickTypes ==
  ASSUME TypeOK, Tick
  PROVE  TypeOK'
<1> USE PushAssumption
<1>1. /\ sinceStamp' \in 0 .. Cooldown /\ cacheLeft' \in Nat /\ cacheTrue' \in Nat
      /\ pc' = pc /\ life' = life
  BY ClockTypes DEF Tick, TypeOK
<1>2. 2 * Timeout + 1 \in Nat
  OBVIOUS
<1>3. ASSUME NEW c \in Call
      PROVE  /\ (IF Waiting(c) THEN More(wait[c], Timeout) ELSE 0) \in 0 .. Timeout
             /\ Less(carry[c]) \in Nat
             /\ (IF pc[c] = "idle" THEN 0 ELSE More(age[c], 2 * Timeout + 1))
                  \in 0 .. 2 * Timeout + 1
             /\ More(sinceMine[c], Cooldown) \in 0 .. Cooldown
  <2>1. /\ wait[c] \in 0 .. Timeout /\ carry[c] \in Nat
        /\ age[c] \in 0 .. 2 * Timeout + 1 /\ sinceMine[c] \in 0 .. Cooldown
    BY DEF TypeOK
  <2>2. More(wait[c], Timeout) \in 0 .. Timeout /\ More(sinceMine[c], Cooldown) \in 0 .. Cooldown
    BY <2>1, ClockTypes
  <2>3. More(age[c], 2 * Timeout + 1) \in 0 .. 2 * Timeout + 1
    BY <2>1, <1>2, ClockTypes
  <2>4. 0 \in 0 .. Timeout /\ 0 \in 0 .. 2 * Timeout + 1
    OBVIOUS
  <2>5. QED BY <2>1, <2>2, <2>3, <2>4, ClockTypes
<1>4. /\ wait' \in [Call -> 0 .. Timeout] /\ carry' \in [Call -> Nat]
      /\ age' \in [Call -> 0 .. 2 * Timeout + 1] /\ sinceMine' \in [Call -> 0 .. Cooldown]
  BY <1>3 DEF Tick
<1>5. QED BY <1>1, <1>4 DEF TypeOK

-----------------------------------------------------------------------------
(* The calls' own steps keep the three counts.                             *)
LEMMA CallKeeps ==
  ASSUME IInv, NEW c \in Call,
         \/ BeginNotify(c) \/ BeginRegister(c) \/ ClientStep(c)
         \/ Issue(c) \/ StoreToken(c) \/ RelayReceives(c) \/ RelayAnswers(c) \/ Fails(c)
  PROVE  TokensLast' /\ WaitsCounted' /\ StampsCounted'
<1> USE PushAssumption DEF IInv, TypeOK, TokensLast, WaitsCounted, StampsCounted, Goes,
                           cacheVars, callVars, histVars
<1>1. CASE BeginNotify(c)
  BY <1>1 DEF BeginNotify, Throttle
<1>2. CASE Stamp(c)
  BY <1>2 DEF Stamp, Stamped
<1>3. CASE NotifyJwt(c) \/ BeginRegister(c)
  BY <1>3 DEF NotifyJwt, BeginRegister, GetJwt, Usable
<1>4. CASE Issue(c)
  BY <1>4 DEF Issue
<1>5. CASE StoreToken(c)
  <2>1. /\ life[c] \in Nat /\ carry[c] \in Nat /\ wait[c] \in 0 .. Timeout
        /\ life[c] > 2 * Timeout /\ carry[c] + wait[c] >= life[c]
    BY <1>5 DEF StoreToken
  <2>2. carry[c] > Timeout /\ CachedFor(c) <= carry[c]
    BY <2>1 DEF CachedFor
  <2>3. QED BY <1>5, <2>1, <2>2 DEF StoreToken
<1>6. CASE RelayReceives(c)
  BY <1>6 DEF RelayReceives
<1>7. CASE RelayAnswers(c) \/ Fails(c) \/ TimesOut(c)
  BY <1>7 DEF RelayAnswers, Fails, TimesOut, Ends
<1>8. QED BY <1>1, <1>2, <1>3, <1>4, <1>5, <1>6, <1>7 DEF ClientStep

(* So does the clock, which stops at the deadline of a request.            *)
LEMMA TickKeeps ==
  ASSUME IInv, Tick
  PROVE  TokensLast' /\ WaitsCounted' /\ StampsCounted'
<1> USE PushAssumption DEF IInv
<1>1. TokensLast'
  <2>1. cacheLeft' <= cacheTrue'
    BY ClockTypes DEF Tick, TypeOK, TokensLast
  <2> SUFFICES ASSUME NEW c \in Call
               PROVE  /\ pc'[c] = "issued" => life'[c] > 2 * Timeout
                                              /\ carry'[c] + wait'[c] >= life'[c]
                      /\ pc'[c] = "sending" => carry'[c] + wait'[c] > Timeout
    BY <2>1 DEF TokensLast
  <2>2. /\ pc'[c] = pc[c] /\ life'[c] = life[c]
        /\ carry[c] \in Nat /\ wait[c] \in 0 .. Timeout
        /\ carry'[c] = Less(carry[c])
    BY DEF Tick, TypeOK
  <2>3. CASE Waiting(c)
    <3>1. wait[c] < Timeout /\ wait'[c] = More(wait[c], Timeout)
      BY <2>3 DEF Tick, MayWait
    <3>2. wait'[c] = wait[c] + 1 /\ carry'[c] \in Nat /\ carry[c] <= carry'[c] + 1
      BY <2>2, <3>1, ClockTypes
    <3>3. carry'[c] + wait'[c] >= carry[c] + wait[c]
      BY <2>2, <3>2
    <3>4. life[c] \in Nat
      BY DEF TypeOK
    <3>5. QED BY <2>2, <3>2, <3>3, <3>4 DEF TokensLast
  <2>4. CASE ~Waiting(c)
    BY <2>2, <2>4 DEF Waiting, Requesting
  <2>5. QED BY <2>3, <2>4
<1>2. WaitsCounted'
  <2> SUFFICES ASSUME NEW c \in Call
               PROVE  /\ pc'[c] \in {"idle", "stamp", "token"} => age'[c] = 0 /\ wait'[c] = 0
                      /\ pc'[c] \in {"fetching", "issued"} => age'[c] <= wait'[c]
                      /\ pc'[c] \in {"sending", "received"} => age'[c] <= Timeout + wait'[c]
    BY DEF WaitsCounted
  <2>1. /\ pc'[c] = pc[c] /\ (pc[c] = "idle" \/ Waiting(c))
        /\ wait[c] \in 0 .. Timeout /\ age[c] \in 0 .. 2 * Timeout + 1
    BY DEF Tick, TypeOK
  <2>2. CASE Waiting(c)
    <3>1. wait[c] < Timeout /\ wait'[c] = More(wait[c], Timeout)
      BY <2>2 DEF Tick, MayWait
    <3>2. age'[c] = More(age[c], 2 * Timeout + 1)
      BY <2>2 DEF Tick, Waiting, Requesting
    <3>3. 2 * Timeout + 1 \in Nat
      OBVIOUS
    <3>4. wait'[c] = wait[c] + 1 /\ age'[c] <= age[c] + 1 /\ age'[c] \in 0 .. 2 * Timeout + 1
      BY <2>1, <3>1, <3>2, <3>3, ClockTypes
    <3>5. QED BY <2>1, <2>2, <3>4 DEF WaitsCounted, Waiting, Requesting
  <2>3. CASE pc[c] = "idle"
    BY <2>1, <2>3 DEF Tick, Waiting, Requesting
  <2>4. QED BY <2>1, <2>2, <2>3
<1>3. StampsCounted'
  BY ClockTypes DEF Tick, TypeOK, StampsCounted, Waiting, Requesting
<1>4. QED BY <1>1, <1>2, <1>3

-----------------------------------------------------------------------------
(* The inductive invariant of the push relay client.                       *)
THEOREM PushInvariant == Spec => []IInv
<1>1. Init => IInv
  BY PushAssumption DEF Init, IInv, TypeOK, TokensLast, WaitsCounted, StampsCounted
<1>2. IInv /\ [Next]_vars => IInv'
  <2> SUFFICES ASSUME IInv, [Next]_vars PROVE IInv'
    OBVIOUS
  <2>1. CASE Tick
    BY <2>1, TickTypes, TickKeeps DEF IInv
  <2>2. ASSUME NEW c \in Call,
               \/ BeginNotify(c) \/ BeginRegister(c) \/ ClientStep(c)
               \/ Issue(c) \/ StoreToken(c) \/ RelayReceives(c) \/ RelayAnswers(c) \/ Fails(c)
        PROVE  IInv'
    BY <2>2, CallTypes, CallKeeps DEF IInv
  <2>3. CASE UNCHANGED vars
    BY <2>3 DEF IInv, TypeOK, TokensLast, WaitsCounted, StampsCounted, vars, cacheVars,
                callVars, histVars
  <2>4. QED BY <2>1, <2>2, <2>3 DEF Next
<1>3. QED BY <1>1, <1>2, PTL DEF Spec

(* No caller of the push relay stands still for longer than two requests.  *)
THEOREM StallAlwaysBounded == Spec => []StallBounded
<1>1. IInv => StallBounded
  <2> SUFFICES ASSUME IInv, NEW c \in Call PROVE age[c] <= 2 * Timeout
    BY DEF StallBounded
  <2>1. wait[c] \in 0 .. Timeout /\ pc[c] \in Requesting \cup {"idle", "stamp", "token"}
    BY DEF IInv, TypeOK
  <2>2. QED BY <2>1, PushAssumption DEF IInv, TypeOK, WaitsCounted, Requesting
<1>2. QED BY <1>1, PushInvariant, PTL

(* Every token the relay receives is still valid, whichever of several     *)
(* concurrent fetches stored its answer in the cache last.                 *)
THEOREM JwtAlwaysFresh == Spec => JwtFresh
<1>1. IInv => \A c \in Call : RelayReceives(c) => carry[c] > 0
  <2> SUFFICES ASSUME IInv, NEW c \in Call, RelayReceives(c) PROVE carry[c] > 0
    OBVIOUS
  <2>1. wait[c] \in 0 .. Timeout /\ carry[c] \in Nat /\ carry[c] + wait[c] > Timeout
    BY DEF IInv, TypeOK, TokensLast, RelayReceives
  <2>2. QED BY <2>1, PushAssumption
<1>2. QED BY <1>1, PushInvariant, PTL DEF JwtFresh

(* Calls that pass the debounce check together overrun the limit of one    *)
(* push per cooldown, but no caller pushes twice within one.               *)
THEOREM OnePushEachKept == Spec => OnePushEach
<1>1. IInv => \A c \in Call : Stamp(c) => sinceMine[c] = Cooldown
  BY DEF IInv, StampsCounted, Stamp
<1>2. QED BY <1>1, PushInvariant, PTL DEF OnePushEach
================================================================================
