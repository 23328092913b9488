---------------------------- MODULE AppLifecycle ----------------------------
(***************************************************************************)
(* How the TUI starts, stops and restarts the bridge: start_bridge,        *)
(* finish_wizard, the wizard and popup keys and handle_bridge_event of App *)
(* (core/src/tui/app.rs) together with the life of a bridge task           *)
(* (run_bridge in core/src/runner.rs).                                     *)
(*                                                                         *)
(* A bridge holds the exclusive lock file of its folder while it runs.     *)
(* The app keeps one shutdown sender; using it, overwriting it or clearing *)
(* it all reach the bridge as a shutdown, because a oneshot receiver also  *)
(* completes when its sender is dropped.  Everything a bridge reports      *)
(* arrives through one ordered channel, and no event names its bridge.     *)
(***************************************************************************)
EXTENDS Integers, Sequences, FiniteSets, Functions

CONSTANTS
  Bridge,    \* bridge tasks alive at the same time; a finished one is reused
  NoBridge,  \* bridge_shutdown is None
  EventCap,  \* capacity of the event channel
  MaxSetups  \* bound: plugin setups running at the same time

ASSUME AppAssumption ==
  NoBridge \notin Bridge /\ EventCap \in Nat \ {0} /\ MaxSetups \in Nat

VARIABLES
  wizard,      \* step of App::wizard, or "none"; Screen::Wizard iff it is open
  cancelable,  \* WizardState::cancelable
  popup,       \* App::popup
  pushChosen,  \* config.push_selection is set
  qrVisible,   \* App::qr_visible
  shutdown,    \* the bridge App::bridge_shutdown reaches, or NoBridge
  restart,     \* App::restart_pending
  up,          \* App::transport_up
  showReady,   \* App::show_qr_on_ready
  setups,      \* plugin setup tasks whose result is still to come
  phase,       \* progress of each bridge task through run_bridge
  stop,        \* bridges whose shutdown receiver has completed
  lock,        \* the bridge holding the lock file, or NoBridge
  routed,      \* bridges holding the guard of a `tailscale serve` route
  route,       \* the bridge the route leads to, NoBridge if there is no route
               \* or its bridge has gone (outside the app)
  alone,       \* the holder of the lock took its route when no guard was out
               \* (history)
  events,      \* events on their way to the app
  reopened     \* the wizard was opened since the last restart request (history)

wizVars    == <<wizard, cancelable, setups, reopened>>
popVars    == <<popup, pushChosen, qrVisible, showReady>>
senderVars == <<shutdown, restart, stop>>
routeVars  == <<routed, route, alone>>
vars == <<wizVars, popVars, senderVars, up, phase, lock, routeVars, events>>

Active == {b \in Bridge : phase[b] # "none"}

(* WizardState::compute: what is missing from the configuration.           *)
FirstSteps == {"agent", "pick", "setup"}

Init ==
  /\ pushChosen \in BOOLEAN
  /\ qrVisible = FALSE
  /\ restart = FALSE
  /\ up = FALSE
  /\ showReady = FALSE
  /\ setups = 0
  /\ stop = {}
  /\ lock = NoBridge
  /\ routed = {} /\ route = NoBridge /\ alone = FALSE
  /\ events = <<>>
  /\ reopened = FALSE
  /\ \/ (* first run: the wizard cannot be left *)
        /\ wizard \in FirstSteps /\ cancelable = FALSE
        /\ popup = "none"
        /\ shutdown = NoBridge
        /\ phase = [b \in Bridge |-> "none"]
     \/ (* configured: the bridge starts at once *)
        /\ wizard = "none" /\ cancelable = TRUE
        /\ popup = IF pushChosen THEN "none" ELSE "push"
        /\ shutdown \in Bridge
        /\ phase = [b \in Bridge |-> IF b = shutdown THEN "starting" ELSE "none"]

-----------------------------------------------------------------------------
(* run_bridge                                                              *)

Goes(b, next) == phase' = [phase EXCEPT ![b] = next]
Send(e) == Len(events) < EventCap /\ events' = Append(events, e)

(* try_lock_exclusive: fails when another bridge holds the lock.           *)
LockIgnored == TRUE
LockFree == lock = NoBridge
Lock(b) ==
  /\ phase[b] = "starting"
  /\ IF LockFree THEN lock' = b /\ Goes(b, "setup")
                 ELSE lock' = lock /\ Goes(b, "failing")
  /\ UNCHANGED <<wizVars, popVars, senderVars, up, events, routeVars>>

(* A port conflict is resolved and reported.                               *)
PortConflict(b) ==
  /\ phase[b] = "setup"
  /\ Send("conflict")
  /\ Goes(b, "ported")
  /\ UNCHANGED <<wizVars, popVars, senderVars, up, lock, routeVars>>

(* The transport cannot be built: run_bridge returns early, which drops    *)
(* the lock.                                                               *)
SetupFails(b) ==
  /\ phase[b] \in {"setup", "ported"}
  /\ lock' = NoBridge
  /\ Goes(b, "failing")
  /\ UNCHANGED <<wizVars, popVars, senderVars, up, events, routeVars>>

(* build_transport and PairingUrlReady.  Tailscale's plugin points the     *)
(* route of this folder's agent at the bridge and returns a guard; every   *)
(* bridge of the folder has the same route.                                *)
AnnounceUrl(b) ==
  /\ phase[b] \in {"setup", "ported"}
  /\ \/ routed' = routed \cup {b} /\ route' = b /\ alone' = (routed = {})
     \/ UNCHANGED routeVars
  /\ Send("url")
  /\ Goes(b, "announced")
  /\ UNCHANGED <<wizVars, popVars, senderVars, up, lock>>

AnnounceUp(b) ==
  /\ phase[b] = "announced"
  /\ Send("up")
  /\ Goes(b, "binding")
  /\ UNCHANGED <<wizVars, popVars, senderVars, up, lock, routeVars>>

(* The renewal task sends a new pairing URL while the QR popup is open.    *)
Renew(b) ==
  /\ phase[b] \in {"binding", "serving"}
  /\ qrVisible
  /\ Send("url")
  /\ UNCHANGED <<wizVars, popVars, senderVars, up, phase, lock, routeVars>>

(* bridge.start() binds the port and serves from then on.                  *)
Bind(b) ==
  /\ phase[b] = "binding"
  /\ Goes(b, "serving")
  /\ UNCHANGED <<wizVars, popVars, senderVars, up, lock, events, routeVars>>

(* select!: bind failed, or the shutdown receiver completed.  Either way   *)
(* the lock goes before anything is reported.                              *)
BindFails(b) ==
  /\ phase[b] = "binding"
  /\ lock' = NoBridge
  /\ alone' = FALSE
  /\ Goes(b, "failed")
  /\ UNCHANGED <<wizVars, popVars, senderVars, up, events, routed, route>>

Shutdown(b) ==
  /\ phase[b] \in {"binding", "serving"}
  /\ b \in stop
  /\ lock' = NoBridge
  /\ alone' = FALSE
  /\ Goes(b, "stopped")
  /\ UNCHANGED <<wizVars, popVars, senderVars, up, events, routed, route>>

(* BridgeStopped, sent on the way out by every bridge that got as far as   *)
(* select!; the one whose start() failed goes on to report the error.      *)
ReportStopped(b) ==
  /\ phase[b] \in {"stopped", "failed"}
  /\ Send("stopped")
  /\ Goes(b, IF b \in routed THEN IF phase[b] = "failed" THEN "broken" ELSE "ended"
             ELSE IF phase[b] = "failed" THEN "failing" ELSE "none")
  /\ UNCHANGED <<wizVars, popVars, senderVars, up, lock, routeVars>>

(* run_bridge returns, which drops its guard: the route is removed,        *)
(* whichever bridge it leads to by now.  Nobody looks at whether the       *)
(* command failed; a route that is left then leads where it did, and       *)
(* nowhere if that was to this bridge.                                     *)
LeftBy(b) == IF route = b THEN NoBridge ELSE route
Return(b) ==
  /\ phase[b] \in {"ended", "broken"}
  /\ routed' = routed \ {b}
  /\ route' \in {NoBridge, LeftBy(b)}
  /\ Goes(b, IF phase[b] = "broken" THEN "failing" ELSE "none")
  /\ UNCHANGED <<wizVars, popVars, senderVars, up, lock, events, alone>>

(* start_bridge's task on Err: BridgeError, then BridgeStopped (again).    *)
ReportError(b) ==
  /\ phase[b] = "failing"
  /\ Send("error")
  /\ Goes(b, "reported")
  /\ UNCHANGED <<wizVars, popVars, senderVars, up, lock, routeVars>>

ReportErrorStopped(b) ==
  /\ phase[b] = "reported"
  /\ Send("stopped")
  /\ Goes(b, "none")
  /\ UNCHANGED <<wizVars, popVars, senderVars, up, lock, routeVars>>

-----------------------------------------------------------------------------
(* start_bridge and finish_wizard                                          *)

(* The bridge reached by the sender that is being dropped.                 *)
Dropped == {shutdown} \ {NoBridge}

StartBridge(b) ==
  /\ phase[b] = "none" /\ b # shutdown
  /\ Goes(b, "starting")
  /\ stop' = (stop \cup Dropped) \ {b}
  /\ shutdown' = b
  /\ up' = FALSE

(* Bound: the user does not outrun the supply of bridge tasks.             *)
RoomToStart == \E b \in Bridge : phase[b] = "none" /\ b # shutdown

(* A running bridge is told to stop and restarted on BridgeStopped; without *)
(* one the bridge is started at once.                                      *)
ShutdownNotSent == {}
ShutdownSent == {shutdown}

RestartStillPending == restart
RestartSettled == FALSE
FinishWizard ==
  /\ RoomToStart
  /\ wizard' = "none" /\ cancelable' = TRUE
  /\ reopened' = FALSE
  /\ showReady' = TRUE
  /\ popup' = IF pushChosen THEN popup ELSE "push"
  /\ IF shutdown # NoBridge
     THEN /\ stop' = stop \cup ShutdownSent
          /\ shutdown' = NoBridge
          /\ restart' = TRUE
          /\ up' = FALSE
          /\ UNCHANGED phase
     ELSE /\ restart' = RestartSettled
          /\ \E b \in Bridge : StartBridge(b)
  /\ UNCHANGED <<pushChosen, qrVisible>>

-----------------------------------------------------------------------------
(* The user's keys.  A popup takes them before the command line does, the  *)
(* wizard before both.                                                     *)

AtPrompt == wizard = "none" /\ popup = "none"

(* /transport and /agent                                                   *)
OpenWizard ==
  /\ AtPrompt
  /\ wizard' \in {"pick", "agent"}
  /\ cancelable' = TRUE
  /\ reopened' = TRUE
  /\ UNCHANGED <<setups, popVars, senderVars, up, phase, lock, events, routeVars>>

(* Esc: from a plugin's form back to the picker, from the first run's      *)
(* picker back to the agent, else out of a wizard that can be left.        *)
EscapeWizard ==
  /\ wizard # "none"
  /\ \/ wizard = "setup" /\ wizard' = "pick"
     \/ wizard = "pick" /\ ~cancelable /\ wizard' = "agent"
     \/ wizard # "setup" /\ cancelable /\ wizard' = "none"
  /\ UNCHANGED <<cancelable, setups, reopened, popVars, senderVars, up, phase, lock,
                 events, routeVars>>

(* The agent is entered: the transport must be picked, or is known.        *)
EnterAgent ==
  /\ wizard = "agent"
  /\ \/ wizard' = "pick" /\ UNCHANGED <<cancelable, reopened, popVars, senderVars, up, phase>>
     \/ FinishWizard
  /\ UNCHANGED <<setups, lock, events, routeVars>>

(* A transport is picked: ready (or made ready), or needing a plugin form. *)
PickTransport ==
  /\ wizard = "pick"
  /\ \/ wizard' = "setup" /\ UNCHANGED <<cancelable, reopened, popVars, senderVars, up, phase>>
     \/ FinishWizard
  /\ UNCHANGED <<setups, lock, events, routeVars>>

(* The plugin's form is submitted: run_setup runs in a task of its own.    *)
SubmitSetup ==
  /\ wizard = "setup" /\ setups < MaxSetups
  /\ wizard' = "loading"
  /\ setups' = setups + 1
  /\ UNCHANGED <<cancelable, reopened, popVars, senderVars, up, phase, lock, events,
                 routeVars>>

(* PluginSetupResult: success finishes the wizard whether or not it is     *)
(* still open; failure goes back to the form if it is.                     *)
SetupResult ==
  /\ setups > 0
  /\ setups' = setups - 1
  /\ \/ FinishWizard
     \/ /\ wizard' = IF wizard = "none" THEN "none" ELSE "setup"
        /\ UNCHANGED <<cancelable, reopened, popVars, senderVars, up, phase>>
  /\ UNCHANGED <<lock, events, routeVars>>

(* /qr                                                                     *)
OpenQr ==
  /\ AtPrompt
  /\ IF up THEN popup' = "qr" /\ qrVisible' = TRUE
           ELSE popup' = "transport_error" /\ UNCHANGED qrVisible
  /\ UNCHANGED <<pushChosen, showReady, wizVars, senderVars, up, phase, lock, events,
                 routeVars>>

(* /push                                                                   *)
OpenPush ==
  /\ AtPrompt
  /\ popup' = "push"
  /\ UNCHANGED <<pushChosen, qrVisible, showReady, wizVars, senderVars, up, phase,
                 lock, events, routeVars>>

(* Esc or Enter closes a popup.                                            *)
ClosePopup ==
  /\ wizard = "none" /\ popup # "none"
  /\ popup' = "none"
  /\ qrVisible' = (qrVisible /\ popup # "qr")
  /\ UNCHANGED <<pushChosen, showReady, wizVars, senderVars, up, phase, lock, events,
                 routeVars>>

(* A choice is made in the push popup's menu or forms, which closes it.    *)
ChoosePush ==
  /\ wizard = "none" /\ popup = "push"
  /\ popup' = "none"
  /\ pushChosen' = TRUE
  /\ UNCHANGED <<qrVisible, showReady, wizVars, senderVars, up, phase, lock, events,
                 routeVars>>

-----------------------------------------------------------------------------
(* handle_bridge_event                                                     *)

Receive(e) == events # <<>> /\ Head(events) = e /\ events' = Tail(events)

HandleConflict ==
  /\ Receive("conflict")
  /\ showReady' = TRUE
  /\ UNCHANGED <<popup, pushChosen, qrVisible, wizVars, senderVars, up, phase, lock,
                 routeVars>>

HandleUrl ==
  /\ Receive("url")
  /\ showReady' = FALSE
  /\ IF showReady THEN popup' = "qr" /\ qrVisible' = TRUE
                  ELSE UNCHANGED <<popup, qrVisible>>
  /\ UNCHANGED <<pushChosen, wizVars, senderVars, up, phase, lock, routeVars>>

HandleUp ==
  /\ Receive("up")
  /\ up' = TRUE
  /\ UNCHANGED <<popVars, wizVars, senderVars, phase, lock, routeVars>>

HandleError ==
  /\ Receive("error")
  /\ showReady' = FALSE
  /\ IF popup = "qr" THEN popup' = "transport_error" /\ qrVisible' = FALSE
                     ELSE UNCHANGED <<popup, qrVisible>>
  /\ UNCHANGED <<pushChosen, wizVars, senderVars, up, phase, lock, routeVars>>

(* BridgeStopped: the sender kept is dropped, whichever bridge it reaches. *)
UpKept == up
UpCleared == FALSE
HandleStopped ==
  /\ Receive("stopped")
  /\ IF restart /\ wizard = "none"
     THEN restart' = FALSE /\ \E b \in Bridge : StartBridge(b)
     ELSE /\ stop' = stop \cup Dropped
          /\ shutdown' = NoBridge
          /\ up' = UpCleared
          /\ UNCHANGED <<restart, phase>>
  /\ UNCHANGED <<popVars, wizVars, lock, routeVars>>

-----------------------------------------------------------------------------
BridgeStep(b) ==
  \/ Lock(b) \/ SetupFails(b) \/ AnnounceUrl(b) \/ AnnounceUp(b)
  \/ Bind(b) \/ BindFails(b) \/ Shutdown(b)
  \/ ReportStopped(b) \/ Return(b) \/ ReportError(b) \/ ReportErrorStopped(b)

UserStep ==
  \/ OpenWizard \/ EscapeWizard \/ EnterAgent \/ PickTransport \/ SubmitSetup
  \/ OpenQr \/ OpenPush \/ ClosePopup \/ ChoosePush

HandleEvent == HandleConflict \/ HandleUrl \/ HandleUp \/ HandleError \/ HandleStopped

Next ==
  \/ \E b \in Bridge : BridgeStep(b) \/ PortConflict(b) \/ Renew(b)
  \/ UserStep
  \/ SetupResult
  \/ HandleEvent

Spec == Init /\ [][Next]_vars

(* The bridge tasks run on and the app handles its events.  A renewal      *)
(* task may keep the channel full for a while, but tokio's channel serves  *)
(* waiting senders in order (strong fairness).  The user promises nothing. *)
FairSpec ==
  /\ Spec
  /\ WF_vars(HandleEvent)
  /\ \A b \in Bridge : SF_vars(BridgeStep(b))

-----------------------------------------------------------------------------
(* Properties.                                                             *)

TypeOK ==
  /\ wizard \in {"none", "agent", "pick", "setup", "loading"}
  /\ cancelable \in BOOLEAN
  /\ popup \in {"none", "push", "qr", "transport_error"}
  /\ pushChosen \in BOOLEAN
  /\ qrVisible \in BOOLEAN
  /\ shutdown \in Bridge \cup {NoBridge}
  /\ restart \in BOOLEAN
  /\ up \in BOOLEAN
  /\ showReady \in BOOLEAN
  /\ setups \in 0 .. MaxSetups
  /\ phase \in [Bridge -> {"none", "starting", "setup", "ported", "announced", "binding",
                           "serving", "stopped", "failed", "ended", "broken", "failing", "reported"}]
  /\ stop \subseteq Bridge
  /\ lock \in Bridge \cup {NoBridge}
  /\ routed \subseteq Bridge /\ route \in Bridge \cup {NoBridge} /\ alone \in BOOLEAN
  /\ events \in Seq({"conflict", "url", "up", "error", "stopped"})
  /\ reopened \in BOOLEAN

(* However the user restarts, cancels and reopens the wizard, no two       *)
(* bridges serve at the same time.                                         *)
OneListener == \A b, c \in Bridge : phase[b] = "serving" /\ phase[c] = "serving" => b = c

(* Once every report has been handled the status bar says "up" only while  *)
(* some bridge has come up and not yet reported its end, however the       *)
(* reports of the old bridge and the new one interleave.                   *)
UpIsTrue ==
  up /\ events = <<>> =>
    \E b \in Bridge : phase[b] \in {"binding", "serving", "stopped", "failed"}

(* A bridge that took its route when every earlier guard had been dropped  *)
(* keeps it until it stops: the lock file keeps others from announcing     *)
(* themselves meanwhile, and no guard is left that could remove it.  The   *)
(* bridge of a restart may well find the old guard still out, and then     *)
(* nothing is promised (RouteWhileServing).                                *)
LoneBridgeKeepsRoute == alone => lock # NoBridge /\ route = lock

(* A bridge the app has lost the means to stop goes away by itself, so it  *)
(* cannot hold the lock file and the port for ever.                        *)
AbandonedBridgeStops ==
  \A b \in Bridge :
    (phase[b] # "none" /\ shutdown # b) ~> (phase[b] = "none" \/ shutdown = b)

(* A restart the user confirmed is not lost: while it is pending, and the  *)
(* wizard has not been opened again, a BridgeStopped is still to come.     *)
PendingRestartHasCause ==
  restart /\ ~reopened =>
    "stopped" \in Range(events) \/ Active \cap stop # {}

-----------------------------------------------------------------------------
(* What comments of the code say and the code does not do.                 *)

(* app.rs:125 "the old bridge must fully release the lock before the new   *)
(* one starts": no bridge of this app ever finds the lock taken.           *)
RestartFindsLockFree ==
  [][\A b \in Bridge : ~(phase[b] = "starting" /\ phase'[b] = "failing")]_vars

(* transport.rs:19 "Boxed guard - dropped when the bridge exits": but the  *)
(* old bridge drops it after reporting, and may cut off its successor.     *)
RouteWhileServing ==
  \A b \in routed : phase[b] = "serving" => route = b

(* app.rs:124 "When true, start_bridge() is called as soon as              *)
(* BridgeStopped is received".                                             *)
RestartHappens == restart ~> (~restart \/ wizard # "none")

(* app.rs:137 "true while the QR popup is open".                           *)
QrVisibleIsPopup == qrVisible <=> popup = "qr"
=============================================================================
