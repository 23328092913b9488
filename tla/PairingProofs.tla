---------------------------- MODULE PairingProofs ----------------------------
(***************************************************************************)
(* Theorems about Pairing, for every number of requests, every limit on    *)
(* attempts and every set of codes.                                        *)
(***************************************************************************)
EXTENDS Pairing, FiniteSetTheorems, TLAPS

(* Requests that passed the check of attempts and may still fail one.      *)
Passed == {r \in Req : pc[r] \in {"counted", "unused", "matched", "missed"}}

(* OneWinPerReset is not inductive: it needs that nobody has won while     *)
(* used is FALSE.                                                          *)
WinInv == (~used => wins = 0) /\ wins <= 1

(* Neither is AttemptsBounded: a request past the check will count its     *)
(* miss without looking again, so it is counted in advance.                *)
AttemptsInv == attempts + Cardinality(Passed) < MaxAttempts + Cardinality(Req)

(* A request that matched carries a real code.                             *)
TypeInv == TypeOK /\ \A r \in Req : pc[r] = "matched" => guess[r] \in Code

PairingInv == TypeInv /\ WinInv /\ AttemptsInv

-----------------------------------------------------------------------------
(* The requests past the check are finitely many, no more than all.        *)
LEMMA PassedFinite ==
  ASSUME IsFiniteSet(Req)
  PROVE  /\ IsFiniteSet(Passed)
         /\ Cardinality(Passed) \in Nat
         /\ Cardinality(Req) \in Nat
         /\ Cardinality(Passed) <= Cardinality(Req)
<1>1. Passed \subseteq Req
  BY DEF Passed
<1>2. QED BY <1>1, FS_Subset, FS_CardinalityType

(* Each step keeps the types.                                              *)
LEMMA TypeStep ==
  ASSUME TypeInv, [Next]_vars
  PROVE  TypeInv'
<1> USE PairingAssumption
    DEF TypeInv, TypeOK, managerVars, reqVars, taskVars, appVars, histVars, Answered, Goes
<1>1. CASE UNCHANGED vars
  BY <1>1 DEF vars
<1>2. ASSUME NEW r \in Req, NEW g \in Code \cup {Wrong}, Arrive(r, g)
      PROVE  TypeInv'
  BY <1>2 DEF Arrive
<1>3. ASSUME NEW r \in Req, Validate(r)
      PROVE  TypeInv'
  <2>1. CASE CheckAttempts(r)
    BY <2>1 DEF CheckAttempts
  <2>2. CASE CheckUsed(r)
    BY <2>2 DEF CheckUsed
  <2>3. CASE Compare(r)
    BY <2>3 DEF Compare
  <2>4. CASE CountMiss(r)
    BY <2>4 DEF CountMiss
  <2>5. CASE Swap(r)
    BY <1>3, <2>5 DEF Swap
  <2>6. QED BY <1>3, <2>1, <2>2, <2>3, <2>4, <2>5 DEF Validate
<1>4. ASSUME Renewal
      PROVE  TypeInv'
  <2>1. CASE TickUsed
    BY <2>1 DEF TickUsed, Send, Completed
  <2>2. CASE TickUnused
    BY <2>2 DEF TickUnused
  <2>3. CASE ReplaceCode
    BY <2>3 DEF ReplaceCode, Fresh
  <2>4. CASE KeepCode
    BY <2>4 DEF KeepCode
  <2>5. CASE ResetUsed
    BY <2>5 DEF ResetUsed
  <2>6. CASE ResetAttempts
    BY <2>6 DEF ResetAttempts, AttemptsCleared
  <2>7. CASE Announce
    BY <2>7 DEF Announce, Send
  <2>8. QED BY <1>4, <2>1, <2>2, <2>3, <2>4, <2>5, <2>6, <2>7 DEF Renewal
<1>5. CASE Expire
  BY <1>5 DEF Expire
<1>6. CASE OpenQr \/ CloseQr
  BY <1>6 DEF OpenQr, CloseQr
<1>7. CASE HandleEvent
  <2>1. Head(events) \in Code \cup {Completed} /\ Tail(events) \in Seq(Code \cup {Completed})
    BY <1>7 DEF HandleEvent
  <2>2. QED BY <1>7, <2>1 DEF HandleEvent
<1>8. QED BY <1>1, <1>2, <1>3, <1>4, <1>5, <1>6, <1>7 DEF Next

(* Each step keeps WinInv: only Swap raises wins, from 0 to 1, and only    *)
(* ResetUsed, which clears them, makes used FALSE.                         *)
LEMMA WinStep ==
  ASSUME TypeOK, WinInv, [Next]_vars
  PROVE  WinInv'
<1> USE DEF TypeOK, WinInv, managerVars, histVars
<1>1. CASE UNCHANGED <<used, wins>>
  BY <1>1
<1>2. ASSUME NEW r \in Req, Swap(r)
      PROVE  WinInv'
  BY <1>2 DEF Swap, Wins
<1>3. CASE ResetUsed
  BY <1>3 DEF ResetUsed
<1>4. QED
  BY <1>1, <1>2, <1>3
  DEF Next, vars, Arrive, Validate, CheckAttempts, CheckUsed, Compare, CountMiss,
      Renewal, TickUsed, TickUnused, ReplaceCode, KeepCode, ResetAttempts, Announce,
      Expire, OpenQr, CloseQr, HandleEvent

(* Each step keeps AttemptsInv.                                            *)
LEMMA AttemptsStep ==
  ASSUME IsFiniteSet(Req), TypeOK, AttemptsInv, [Next]_vars
  PROVE  AttemptsInv'
<1> USE PairingAssumption DEF TypeOK, AttemptsInv
<1>1. /\ IsFiniteSet(Passed) /\ Cardinality(Passed) \in Nat
      /\ Cardinality(Req) \in Nat
  BY PassedFinite
<1>2. Passed' \subseteq Req /\ IsFiniteSet(Passed') /\ Cardinality(Passed') \in Nat
      /\ Cardinality(Passed') <= Cardinality(Req)
  <2>1. Passed' \subseteq Req
    BY DEF Passed
  <2>2. QED BY <2>1, FS_Subset, FS_CardinalityType
<1>3. CASE Passed' \subseteq Passed /\ attempts' \in Nat /\ attempts' <= attempts
  <2>1. Cardinality(Passed') <= Cardinality(Passed)
    BY <1>1, <1>3, FS_Subset
  <2>2. QED BY <1>1, <1>2, <1>3, <2>1
<1>4. ASSUME NEW r \in Req, CheckAttempts(r), ~Limit
      PROVE  AttemptsInv'
  <2>1. attempts' = attempts /\ attempts < MaxAttempts
    BY <1>4 DEF CheckAttempts, Limit, managerVars
  <2>2. QED BY <1>1, <1>2, <2>1
<1>5. ASSUME NEW r \in Req, CountMiss(r)
      PROVE  AttemptsInv'
  <2>1. r \in Passed /\ Passed' = Passed \ {r}
    BY <1>5 DEF CountMiss, Answered, Passed
  <2>2. Cardinality(Passed') = Cardinality(Passed) - 1
    BY <1>1, <2>1, FS_RemoveElement
  <2>3. attempts' = attempts + 1
    BY <1>5 DEF CountMiss
  <2>4. QED BY <1>1, <2>2, <2>3
<1>6. ASSUME NEW r \in Req, \/ CheckAttempts(r) /\ Limit
                            \/ CheckUsed(r) \/ Compare(r) \/ Swap(r)
      PROVE  AttemptsInv'
  <2>1. Passed' \subseteq Passed
    BY <1>6 DEF CheckAttempts, CheckUsed, Compare, Swap, Answered, Goes, Passed
  <2>2. attempts' = attempts
    BY <1>6 DEF CheckAttempts, CheckUsed, Compare, Swap, managerVars
  <2>3. QED BY <1>3, <2>1, <2>2
<1>7. ASSUME NEW r \in Req, NEW g \in Code \cup {Wrong}, Arrive(r, g)
      PROVE  AttemptsInv'
  <2>1. Passed' \subseteq Passed /\ attempts' = attempts
    BY <1>7 DEF Arrive, Passed, managerVars
  <2>2. QED BY <1>3, <2>1
<1>8. CASE Renewal \/ Expire \/ OpenQr \/ CloseQr \/ HandleEvent \/ UNCHANGED vars
  <2>1. UNCHANGED pc
    BY <1>8 DEF Renewal, TickUsed, TickUnused, ReplaceCode, KeepCode, ResetUsed,
                ResetAttempts, Announce, Expire, OpenQr, CloseQr, HandleEvent, vars, reqVars
  <2>2. attempts' \in {0, attempts}
    BY <1>8 DEF Renewal, TickUsed, TickUnused, ReplaceCode, KeepCode, ResetUsed,
                ResetAttempts, AttemptsCleared, Announce, Expire, OpenQr, CloseQr,
                HandleEvent, vars, managerVars
  <2>3. Passed' = Passed
    BY <2>1 DEF Passed
  <2>4. QED BY <1>3, <2>2, <2>3
<1>9. QED BY <1>4, <1>5, <1>6, <1>7, <1>8 DEF Next, Validate

-----------------------------------------------------------------------------
(* The inductive invariant holds in every reachable state.                 *)
THEOREM PairingInvariant == ASSUME IsFiniteSet(Req) PROVE Spec => []PairingInv
<1>1. Init => PairingInv
  <2> SUFFICES ASSUME Init PROVE PairingInv
    OBVIOUS
  <2> USE PairingAssumption DEF Init
  <2>1. TypeInv
    <3>1. events \in Seq(Code \cup {Completed})
      OBVIOUS
    <3>2. QED BY <3>1 DEF TypeInv, TypeOK, None
  <2>2. WinInv
    BY DEF WinInv
  <2>3. AttemptsInv
    <3>1. Passed = {}
      BY DEF Passed
    <3>2. Cardinality(Passed) = 0
      BY <3>1, FS_EmptySet
    <3>3. QED BY <3>2, PassedFinite DEF AttemptsInv
  <2>4. QED BY <2>1, <2>2, <2>3 DEF PairingInv
<1>2. PairingInv /\ [Next]_vars => PairingInv'
  BY TypeStep, WinStep, AttemptsStep DEF PairingInv, TypeInv
<1>3. QED BY <1>1, <1>2, PTL DEF Spec

(* At most one request is accepted between two renewals (the swap of       *)
(* PairingManager::validate), for any number of concurrent requests.       *)
THEOREM OneWinPerResetKept == ASSUME IsFiniteSet(Req) PROVE Spec => []OneWinPerReset
<1>1. PairingInv => OneWinPerReset
  BY DEF PairingInv, WinInv, OneWinPerReset
<1>2. QED BY <1>1, PairingInvariant, PTL

(* Concurrent requests overrun the limit of failed attempts by less than   *)
(* their number.                                                           *)
THEOREM AttemptsBoundedKept == ASSUME IsFiniteSet(Req) PROVE Spec => []AttemptsBounded
<1>1. PairingInv => AttemptsBounded
  BY PassedFinite, PairingAssumption 
  DEF PairingInv, TypeInv, TypeOK, AttemptsInv, AttemptsBounded
<1>2. QED BY <1>1, PairingInvariant, PTL

-----------------------------------------------------------------------------
(* A request that was stale when it arrived carries a code that is not the *)
(* manager's, or one that has expired for good: renewing puts a code that  *)
(* no request carries.                                                     *)
DeadInv == \A r \in stale : pc[r] # "matched" /\ (guess[r] = code => expired)

LEMMA DeadStep ==
  ASSUME TypeOK, DeadInv, [Next]_vars
  PROVE  DeadInv'
<1>0. /\ pc \in [Req -> {"idle", "arrived", "counted", "unused", "matched", "missed"}]
      /\ guess \in [Req -> Code \cup {Wrong, None}] /\ stale \subseteq Req
  BY DEF TypeOK
<1>1. ASSUME UNCHANGED <<pc, guess, stale, code>>, expired => expired'
      PROVE  DeadInv'
  BY <1>1 DEF DeadInv
<1>2. ASSUME NEW r \in Req, UNCHANGED <<code, expired>>, Answered(r)
      PROVE  DeadInv'
  BY <1>0, <1>2 DEF DeadInv, Answered
<1>3. ASSUME NEW r \in Req, UNCHANGED <<code, expired>>, NEW next, Goes(r, next),
             next = "matched" => guess[r] = code /\ ~expired
      PROVE  DeadInv'
  BY <1>0, <1>3 DEF DeadInv, Goes
<1>4. ASSUME NEW r \in Req, NEW g \in Code \cup {Wrong}, Arrive(r, g)
      PROVE  DeadInv'
  <2>1. UNCHANGED <<code, expired>> /\ pc' = [pc EXCEPT ![r] = "arrived"] /\ guess' = [guess EXCEPT ![r] = g]
    BY <1>4 DEF Arrive, managerVars
  <2>2. stale' \subseteq stale \cup {r} /\ (r \in stale' => (g = code => expired))
    BY <1>4 DEF Arrive
  <2>3. QED BY <1>0, <2>1, <2>2 DEF DeadInv
<1>5. ASSUME NEW r \in Req, Validate(r)
      PROVE  DeadInv'
  <2>1. CASE CheckAttempts(r)
    BY <1>2, <1>3, <2>1 DEF CheckAttempts, managerVars
  <2>2. CASE CheckUsed(r)
    BY <1>2, <1>3, <2>2 DEF CheckUsed, managerVars
  <2>3. CASE Compare(r)
    BY <1>2, <1>3, <2>3 DEF Compare, TooOld, managerVars
  <2>4. CASE CountMiss(r)
    BY <1>2, <2>4 DEF CountMiss
  <2>5. CASE Swap(r)
    BY <1>2, <2>5 DEF Swap
  <2>6. QED BY <1>5, <2>1, <2>2, <2>3, <2>4, <2>5 DEF Validate
<1>6. CASE ReplaceCode
  <2>1. PICK new \in Fresh : code' = new
    BY <1>6 DEF ReplaceCode
  <2>2. \A r \in Req : guess[r] # new
    BY <1>0, <2>1 DEF Fresh, Range
  <2>3. QED BY <1>0, <1>6, <2>1, <2>2 DEF ReplaceCode, DeadInv, reqVars
<1>7. CASE TickUsed \/ TickUnused \/ KeepCode \/ ResetUsed \/ ResetAttempts \/ Announce
  BY <1>1, <1>7 DEF TickUsed, TickUnused, KeepCode, ResetUsed, ResetAttempts, Announce,
                    managerVars, reqVars, histVars
<1>8. CASE Expire \/ OpenQr \/ CloseQr \/ HandleEvent \/ UNCHANGED vars
  BY <1>1, <1>8 DEF Expire, OpenQr, CloseQr, HandleEvent, vars, managerVars, reqVars, histVars
<1>9. QED BY <1>4, <1>5, <1>6, <1>7, <1>8 DEF Next, Renewal

(* A code that had expired or been replaced when a request came with it is *)
(* never accepted, whichever renewals overtake the request.                *)
THEOREM DeadCodeRefusedKept == ASSUME IsFiniteSet(Req) PROVE Spec => DeadCodeRefused
<1>1. Init => DeadInv
  BY DEF Init, DeadInv
<1>2. PairingInv /\ DeadInv /\ [Next]_vars => DeadInv'
  BY DeadStep DEF PairingInv, TypeInv
<1>3. DeadInv /\ [Next]_vars => [\A r \in Req : Swap(r) /\ wins' # wins => r \notin stale]_vars
  BY DEF DeadInv, Swap
<1>4. QED BY <1>1, <1>2, <1>3, PairingInvariant, PTL DEF Spec, DeadCodeRefused

=============================================================================
