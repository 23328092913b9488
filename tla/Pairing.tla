------------------------------- MODULE Pairing -------------------------------
(***************************************************************************)
(* One-time pairing codes during one run of the bridge: PairingManager     *)
(* (core/src/pairing.rs), the HTTP requests that validate a code           *)
(* (handle_pairing_request in core/src/bridge.rs), the task that renews    *)
(* the code while the QR popup is open (run_bridge in core/src/runner.rs)  *)
(* and the popup itself (core/src/tui/app.rs).                             *)
(*                                                                         *)
(* The manager keeps the code behind a mutex and two atomics, used and     *)
(* attempts, beside it.  validate and renew each touch the three one after *)
(* the other, so both are several steps here and requests run at once.     *)
(***************************************************************************)
EXTENDS Integers, Sequences, FiniteSets, Functions

CONSTANTS
  Code,         \* six-digit codes
  Wrong,        \* a guess that matches no code
  Req,          \* pairing requests being handled at the same time
  MaxAttempts,  \* PairingManager::max_attempts (5 in the code)
  EventCap      \* bound: pairing events waiting for the TUI

ASSUME PairingAssumption ==
  /\ Wrong \notin Code
  /\ MaxAttempts \in Nat \ {0}
  /\ EventCap \in Nat \ {0}

VARIABLES
  code,       \* CodeState::code
  expired,    \* CodeState::created_at lies more than 60 s back
  used,       \* PairingManager::used
  attempts,   \* PairingManager::attempts
  pc,         \* progress of each request through validate
  guess,      \* the code each request carries
  task,       \* progress of the renewal task
  wasVisible, \* was_visible of the renewal task
  visible,    \* qr_visible: the QR popup is open
  showReady,  \* App::show_qr_on_ready
  shown,      \* the code in App::pairing_url
  events,     \* pairing events on their way to the TUI
  wins,       \* requests accepted since used was last reset (history)
  accepted,   \* codes accepted since they were issued (history)
  stale       \* requests whose code was dead when they arrived (history)

managerVars == <<code, expired, used, attempts>>
reqVars     == <<pc, guess>>
taskVars    == <<task, wasVisible>>
appVars     == <<visible, showReady, shown>>
histVars    == <<wins, accepted, stale>>
vars        == <<managerVars, reqVars, taskVars, appVars, events, histVars>>

None      == "none"
Completed == "completed"

Init ==
  /\ code \in Code
  /\ expired = FALSE
  /\ used = FALSE
  /\ attempts = 0
  /\ pc = [r \in Req |-> "idle"]
  /\ guess = [r \in Req |-> Wrong]
  /\ task = "waiting"
  /\ wasVisible = FALSE
  /\ visible = FALSE
  /\ showReady \in BOOLEAN
  /\ shown = None
  /\ events = <<code>>
  /\ wins = 0
  /\ accepted = {}
  /\ stale = {}

(* More than expiry_duration passes since the code was created.            *)
Expire ==
  /\ ~expired
  /\ expired' = TRUE
  /\ UNCHANGED <<code, used, attempts, reqVars, taskVars, appVars, events, histVars>>

-----------------------------------------------------------------------------
(* validate                                                                *)

(* A request arrives with a code the bridge has shown, or with a wrong one. *)
Arrive(r, g) ==
  /\ pc[r] = "idle"
  /\ g \in {Wrong, code, shown}
  /\ pc' = [pc EXCEPT ![r] = "arrived"]
  /\ guess' = [guess EXCEPT ![r] = g]
  /\ stale' = IF g = code /\ ~expired THEN stale \ {r} ELSE stale \cup {r}
  /\ UNCHANGED <<managerVars, taskVars, appVars, events, wins, accepted>>

(* The request gets its response and is over.                              *)
Answered(r) ==
  /\ pc' = [pc EXCEPT ![r] = "idle"]
  /\ guess' = [guess EXCEPT ![r] = Wrong]
  /\ stale' = stale \ {r}
Goes(r, next) == pc' = [pc EXCEPT ![r] = next] /\ UNCHANGED <<guess, stale>>

(* attempts.load: too many wrong guesses are refused as rate limited.      *)
LimitNever == FALSE
Limit == attempts >= MaxAttempts
CheckAttempts(r) ==
  /\ pc[r] = "arrived"
  /\ IF Limit THEN Answered(r) ELSE Goes(r, "counted")
  /\ UNCHANGED <<managerVars, taskVars, appVars, events, wins, accepted>>

(* used.load: a used code is refused.                                      *)
CheckUsed(r) ==
  /\ pc[r] = "counted"
  /\ IF used THEN Answered(r) ELSE Goes(r, "unused")
  /\ UNCHANGED <<managerVars, taskVars, appVars, events, wins, accepted>>

(* Under the lock: expiry, then the comparison.                            *)
TooOldIgnored == FALSE
TooOld == expired
Compare(r) ==
  /\ pc[r] = "unused"
  /\ \/ TooOld /\ Answered(r)
     \/ ~TooOld /\ guess[r] = code /\ Goes(r, "matched")
     \/ ~TooOld /\ guess[r] # code /\ Goes(r, "missed")
  /\ UNCHANGED <<managerVars, taskVars, appVars, events, wins, accepted>>

(* attempts.fetch_add after the lock is released.                          *)
CountMiss(r) ==
  /\ pc[r] = "missed"
  /\ attempts' = attempts + 1
  /\ Answered(r)
  /\ UNCHANGED <<code, expired, used, taskVars, appVars, events, wins, accepted>>

(* used.swap(true): only the request that finds FALSE is accepted.         *)
WinsAlways == TRUE
Wins == ~used
Swap(r) ==
  /\ pc[r] = "matched"
  /\ used' = TRUE
  /\ wins' = IF Wins THEN wins + 1 ELSE wins
  /\ accepted' = IF Wins THEN accepted \cup {guess[r]} ELSE accepted
  /\ Answered(r)
  /\ UNCHANGED <<code, expired, attempts, taskVars, appVars, events>>

-----------------------------------------------------------------------------
(* The renewal task: once a second                                         *)

Send(e) == Len(events) < EventCap /\ events' = Append(events, e)

(* is_used(): a completed pairing is announced, and the task ends.         *)
TickUsed ==
  /\ task = "waiting"
  /\ used
  /\ Send(Completed)
  /\ task' = "ended"
  /\ UNCHANGED <<managerVars, reqVars, wasVisible, appVars, histVars>>

TickUnused ==
  /\ task = "waiting"
  /\ ~used
  /\ task' = "unused"
  /\ UNCHANGED <<managerVars, reqVars, wasVisible, appVars, events, histVars>>

(* Codes no request, popup or event still refers to: a new random code is  *)
(* none of them.                                                           *)
Fresh == Code \ ({code, shown} \cup Range(guess) \cup Range(events))

(* The popup just opened, or is open over an expired code: renew() puts a  *)
(* new code under the lock.                                                *)
RenewOnlyOnOpen == visible /\ ~wasVisible
MustRenew == visible /\ (~wasVisible \/ expired)
ReplaceCode ==
  /\ task = "unused"
  /\ MustRenew
  /\ \E new \in Fresh :
       /\ code' = new
       /\ accepted' = accepted \ {new}
  /\ expired' = FALSE
  /\ wasVisible' = visible
  /\ task' = "replaced"
  /\ UNCHANGED <<used, attempts, reqVars, appVars, events, wins, stale>>

KeepCode ==
  /\ task = "unused"
  /\ ~MustRenew
  /\ wasVisible' = visible
  /\ task' = "waiting"
  /\ UNCHANGED <<managerVars, reqVars, appVars, events, histVars>>

(* renew() goes on: used.store(false), attempts.store(0).                  *)
ResetUsed ==
  /\ task = "replaced"
  /\ used' = FALSE
  /\ wins' = 0
  /\ task' = "reset"
  /\ UNCHANGED <<code, expired, attempts, reqVars, wasVisible, appVars, events,
                 accepted, stale>>

AttemptsCleared == 0
ResetAttempts ==
  /\ task = "reset"
  /\ attempts' = AttemptsCleared
  /\ task' = "renewed"
  /\ UNCHANGED <<code, expired, used, reqVars, wasVisible, appVars, events, histVars>>

(* PairingUrlReady with the new code.                                      *)
Announce ==
  /\ task = "renewed"
  /\ Send(code)
  /\ task' = "waiting"
  /\ UNCHANGED <<managerVars, reqVars, wasVisible, appVars, histVars>>

-----------------------------------------------------------------------------
(* The TUI                                                                 *)

(* /qr, offered once the bridge is up.                                     *)
OpenQr ==
  /\ ~visible /\ shown # None
  /\ visible' = TRUE
  /\ UNCHANGED <<managerVars, reqVars, taskVars, showReady, shown, events, histVars>>

CloseQr ==
  /\ visible
  /\ visible' = FALSE
  /\ UNCHANGED <<managerVars, reqVars, taskVars, showReady, shown, events, histVars>>

(* handle_bridge_event: PairingUrlReady shows the code and opens the popup *)
(* if it was asked to; PairingCompleted closes it.                         *)
HandleEvent ==
  /\ events # <<>>
  /\ events' = Tail(events)
  /\ IF Head(events) = Completed
     THEN visible' = FALSE /\ UNCHANGED <<showReady, shown>>
     ELSE /\ shown' = Head(events)
          /\ showReady' = FALSE
          /\ visible' = (visible \/ showReady)
  /\ UNCHANGED <<managerVars, reqVars, taskVars, histVars>>

-----------------------------------------------------------------------------
Validate(r) == CheckAttempts(r) \/ CheckUsed(r) \/ Compare(r) \/ CountMiss(r) \/ Swap(r)

Renewal ==
  \/ TickUsed \/ TickUnused \/ ReplaceCode \/ KeepCode
  \/ ResetUsed \/ ResetAttempts \/ Announce

Next ==
  \/ \E r \in Req, g \in Code \cup {Wrong} : Arrive(r, g)
  \/ \E r \in Req : Validate(r)
  \/ Renewal
  \/ Expire
  \/ OpenQr
  \/ CloseQr
  \/ HandleEvent

Spec == Init /\ [][Next]_vars

(* The runtime polls the tasks and the TUI empties its channel; people and *)
(* clients promise nothing.                                                *)
Fairness ==
  /\ WF_vars(Renewal)
  /\ WF_vars(HandleEvent)
  /\ \A r \in Req : WF_vars(Validate(r))

FairSpec == Spec /\ Fairness

-----------------------------------------------------------------------------
(* Properties.                                                             *)

TypeOK ==
  /\ code \in Code
  /\ expired \in BOOLEAN
  /\ used \in BOOLEAN
  /\ attempts \in Nat
  /\ pc \in [Req -> {"idle", "arrived", "counted", "unused", "matched", "missed"}]
  /\ guess \in [Req -> Code \cup {Wrong, None}]
  /\ task \in {"waiting", "unused", "replaced", "reset", "renewed", "ended"}
  /\ wasVisible \in BOOLEAN
  /\ visible \in BOOLEAN
  /\ showReady \in BOOLEAN
  /\ shown \in Code \cup {None}
  /\ events \in Seq(Code \cup {Completed})
  /\ wins \in Nat
  /\ accepted \subseteq Code
  /\ stale \subseteq Req

(* However many requests carry the right code at the same time, at most    *)
(* one of them is accepted before the next renewal resets the manager.     *)
OneWinPerReset == wins <= 1

(* Requests that are compared at the same time may all miss, so the limit  *)
(* on failed attempts is overrun, but by no more than the other requests   *)
(* being handled at that moment.                                           *)
AttemptsBounded == attempts < MaxAttempts + Cardinality(Req)

(* A request that arrives with a code already expired or replaced is never *)
(* accepted, whatever renewals happen while it is being handled.           *)
DeadCodeRefused ==
  [][\A r \in Req : Swap(r) /\ wins' # wins => r \notin stale]_vars

(* While the popup stays open and nobody has paired, an expired code is    *)
(* replaced, and the popup ends up with the code the manager has.          *)
QrStaysUsable ==
  <>[](visible /\ accepted = {})
    => []<>(~expired) /\ (<>[](~expired) => <>[](shown = code))

-----------------------------------------------------------------------------
(* What comments and docs say and the code does not do.                    *)

(* README.md:232 "single-use": no code is accepted a second time.          *)
SingleUse ==
  [][\A r \in Req : Swap(r) /\ wins' # wins => guess[r] \notin accepted]_vars

(* runner.rs:260 "Always detect successful pairing so PairingCompleted     *)
(* fires promptly".                                                        *)
SuccessDetected == (wins > 0) ~> (task = "ended")

(* runner.rs:269 "Renew immediately when QR opens (fresh code every time)": *)
(* a popup left open over a used code gets another one.                    *)
FreshCodeOnOpen ==
  (visible /\ shown \in accepted) ~> (~visible \/ shown \notin accepted)
=============================================================================
