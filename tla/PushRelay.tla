------------------------------ MODULE PushRelay ------------------------------
(***************************************************************************)
(* The push relay client (core/src/push.rs) under the calls that run at    *)
(* the same time: notify, awaited by the stdout reader of every agent and  *)
(* spawned by Task 2 of every connection whose send failed, and            *)
(* register_device and unregister_device, spawned by Task 1.               *)
(*                                                                         *)
(* The debounce map and the JWT cache each sit behind a lock of their own  *)
(* that is given back between reading and writing.  Times are kept as ages *)
(* and remainders that one Tick moves, so no bound on the clock is needed. *)
(* The token service and the relay are external: they answer, fail, or     *)
(* leave the HTTP client to its timeout.                                   *)
(***************************************************************************)
EXTENDS Integers

CONSTANTS
  Call,      \* calls that may be under way at the same time
  Cooldown,  \* PushRelayClient::cooldown
  Timeout,   \* timeout of an HTTP request
  Margin,    \* the 60 seconds of get_jwt
  Lifetime   \* values of expires_in

(* The margin covers a request, and the token service issues nothing that  *)
(* expires during two.                                                     *)
ASSUME PushAssumption ==
  /\ Cooldown \in Nat /\ Timeout \in Nat /\ Margin \in Nat
  /\ Timeout <= Margin
  /\ \A l \in Lifetime : l \in Nat /\ l > 2 * Timeout

VARIABLES
  sinceStamp, \* time since the debounce stamp; Cooldown: long ago, or none
  cacheLeft,  \* time until JwtCache::expires_at; 0: past, or no token
  cacheTrue,  \* time the cached token is still valid for
  pc,         \* progress of each call
  wait,       \* how long the call's HTTP request has been under way
  carry,      \* time the call's token is still valid for
  life,       \* expires_in of the token the call has been sent
  age,        \* time since the call began (history)
  sinceMine   \* time since the last push of this caller (history)

cacheVars == <<cacheLeft, cacheTrue>>
callVars  == <<wait, carry, life>>
histVars  == <<age, sinceMine>>
vars == <<sinceStamp, cacheVars, pc, callVars, histVars>>

Requesting == {"fetching", "issued", "sending", "received"}
Waiting(c) == pc[c] \in Requesting

Init ==
  /\ sinceStamp = Cooldown
  /\ cacheLeft = 0 /\ cacheTrue = 0
  /\ pc = [c \in Call |-> "idle"]
  /\ wait = [c \in Call |-> 0]
  /\ carry = [c \in Call |-> 0]
  /\ life = [c \in Call |-> 0]
  /\ age = [c \in Call |-> 0]
  /\ sinceMine = [c \in Call |-> Cooldown]

Goes(c, to) == pc' = [pc EXCEPT ![c] = to]

(* The call returns; what it held is dropped.                              *)
Ends(c) ==
  /\ Goes(c, "idle")
  /\ wait' = [wait EXCEPT ![c] = 0]
  /\ carry' = [carry EXCEPT ![c] = 0]
  /\ life' = [life EXCEPT ![c] = 0]
  /\ age' = [age EXCEPT ![c] = 0]

-----------------------------------------------------------------------------
(* notify: the debounce check and the stamp                                *)

(* A call that is throttled returns at once and changes nothing.           *)
Throttle == sinceStamp < Cooldown
BeginNotify(c) ==
  /\ pc[c] = "idle"
  /\ ~Throttle
  /\ Goes(c, "stamp")
  /\ UNCHANGED <<sinceStamp, cacheVars, callVars, histVars>>

NotStamped == sinceStamp
Stamped == 0
Stamp(c) ==
  /\ pc[c] = "stamp"
  /\ sinceStamp' = Stamped
  /\ sinceMine' = [sinceMine EXCEPT ![c] = 0]
  /\ Goes(c, "token")
  /\ UNCHANGED <<cacheVars, callVars, age>>

-----------------------------------------------------------------------------
(* get_jwt                                                                 *)

Usable == cacheLeft > Margin

GetJwt(c) ==
  /\ IF Usable THEN carry' = [carry EXCEPT ![c] = cacheTrue] /\ Goes(c, "sending")
               ELSE UNCHANGED carry /\ Goes(c, "fetching")
  /\ UNCHANGED <<sinceStamp, cacheVars, wait, life, histVars>>

NotifyJwt(c) == pc[c] = "token" /\ GetJwt(c)

(* register_device and unregister_device are not debounced.                *)
BeginRegister(c) == pc[c] = "idle" /\ GetJwt(c)

(* The token service issues a token and sends it.                          *)
Issue(c) ==
  /\ pc[c] = "fetching"
  /\ \E l \in Lifetime :
       /\ carry' = [carry EXCEPT ![c] = l]
       /\ life' = [life EXCEPT ![c] = l]
  /\ Goes(c, "issued")
  /\ UNCHANGED <<sinceStamp, cacheVars, wait, histVars>>

(* expires_in.saturating_sub(60), counted from the response, not from the  *)
(* moment of issue; the token replaces whatever the cache holds, also one  *)
(* that another call fetched meanwhile.                                    *)
CachedTooLong(c) == life[c] + Margin
CachedFor(c) == IF life[c] > Margin THEN life[c] - Margin ELSE 0
StoreToken(c) ==
  /\ pc[c] = "issued"
  /\ cacheLeft' = CachedFor(c)
  /\ cacheTrue' = carry[c]
  /\ wait' = [wait EXCEPT ![c] = 0]
  /\ Goes(c, "sending")
  /\ UNCHANGED <<sinceStamp, carry, life, histVars>>

-----------------------------------------------------------------------------
(* The request to the relay                                                *)

RelayReceives(c) ==
  /\ pc[c] = "sending"
  /\ Goes(c, "received")
  /\ UNCHANGED <<sinceStamp, cacheVars, callVars, histVars>>

RelayAnswers(c) ==
  /\ pc[c] = "received"
  /\ Ends(c)
  /\ UNCHANGED <<sinceStamp, cacheVars, sinceMine>>

(* Any request may fail; a failed call returns and leaves its stamp.       *)
Fails(c) ==
  /\ Waiting(c)
  /\ Ends(c)
  /\ UNCHANGED <<sinceStamp, cacheVars, sinceMine>>

TimesOutNever(c) == FALSE /\ Fails(c)
TimesOut(c) == wait[c] = Timeout /\ Fails(c)

-----------------------------------------------------------------------------
(* Time passes, up to the deadline of a request.                           *)
UntilAnswered(c) == TRUE
MayWait(c) == Waiting(c) => wait[c] < Timeout

Less(n) == IF n = 0 THEN 0 ELSE n - 1
More(n, cap) == IF n < cap THEN n + 1 ELSE cap

(* What runs without waiting for anything takes no time.                   *)
Tick ==
  /\ \A c \in Call : (pc[c] = "idle" \/ Waiting(c)) /\ MayWait(c)
  /\ sinceStamp' = More(sinceStamp, Cooldown)
  /\ cacheLeft' = Less(cacheLeft)
  /\ cacheTrue' = Less(cacheTrue)
  /\ wait' = [c \in Call |-> IF Waiting(c) THEN More(wait[c], Timeout) ELSE 0]
  /\ carry' = [c \in Call |-> Less(carry[c])]
  /\ age' = [c \in Call |-> IF pc[c] = "idle" THEN 0 ELSE More(age[c], 2 * Timeout + 1)]
  /\ sinceMine' = [c \in Call |-> More(sinceMine[c], Cooldown)]
  /\ UNCHANGED <<pc, life>>

-----------------------------------------------------------------------------
ClientStep(c) ==
  \/ Stamp(c) \/ NotifyJwt(c) \/ TimesOut(c)

Next ==
  \/ \E c \in Call : BeginNotify(c) \/ BeginRegister(c)
  \/ \E c \in Call : ClientStep(c)
  \/ \E c \in Call : Issue(c) \/ StoreToken(c) \/ RelayReceives(c) \/ RelayAnswers(c) \/ Fails(c)
  \/ Tick

Spec == Init /\ [][Next]_vars

(* The runtime polls the calls, the HTTP client keeps its timeout, and     *)
(* time goes on however many calls begin and fail in between, hence the    *)
(* strong fairness of Tick.  The token service and the relay promise       *)
(* nothing.                                                                *)
FairSpec ==
  /\ Spec
  /\ SF_vars(Tick)
  /\ \A c \in Call : WF_vars(ClientStep(c))

-----------------------------------------------------------------------------
(* Properties.                                                             *)

TypeOK ==
  /\ sinceStamp \in 0 .. Cooldown
  /\ cacheLeft \in Nat /\ cacheTrue \in Nat
  /\ pc \in [Call -> Requesting \cup {"idle", "stamp", "token"}]
  /\ wait \in [Call -> 0 .. Timeout]
  /\ carry \in [Call -> Nat] /\ life \in [Call -> Lifetime \cup {0}]
  /\ age \in [Call -> 0 .. 2 * Timeout + 1]
  /\ sinceMine \in [Call -> 0 .. Cooldown]

(* The token is still valid when the relay receives it, whichever of       *)
(* several concurrent fetches filled the cache last, and however late.     *)
JwtFresh == [][\A c \in Call : RelayReceives(c) => carry[c] > 0]_vars

(* Calls that pass the check together all push, so "one per cooldown" is   *)
(* overrun; but nobody pushes twice within a cooldown.                     *)
OnePushEach == [][\A c \in Call : Stamp(c) => sinceMine[c] = Cooldown]_vars

(* The stdout reader that awaits notify stands still for two requests at   *)
(* the longest, and always goes on.                                        *)
StallBounded == \A c \in Call : age[c] <= 2 * Timeout
CallsEnd == \A c \in Call : pc[c] # "idle" ~> pc[c] = "idle"
=============================================================================
