-------------------------- MODULE AppLifecycleProofs --------------------------
(***************************************************************************)
(* Theorems about AppLifecycle, for any number of bridge tasks.            *)
(***************************************************************************)
EXTENDS AppLifecycle, SequenceTheorems, TLAPS

(* The phases in which run_bridge keeps the lock file.                     *)
Holding == {"setup", "ported", "announced", "binding", "serving"}

(* OneListener is not inductive: a bridge about to serve must already hold *)
(* the lock that keeps the others from getting this far.                   *)
LockInv ==
  /\ phase \in [Bridge -> {"none", "starting", "setup", "ported", "announced", "binding",
                           "serving", "stopped", "failed", "ended", "broken", "failing", "reported"}]
  /\ \A b \in Bridge : phase[b] \in Holding => lock = b

-----------------------------------------------------------------------------
(* A step of the bridge tasks keeps LockInv.                               *)
LEMMA BridgeStepKeepsLock ==
  ASSUME LockInv, NEW b \in Bridge, BridgeStep(b) \/ PortConflict(b) \/ Renew(b)
  PROVE  LockInv'
<1> USE AppAssumption DEF LockInv, Holding, Goes
<1>1. CASE Lock(b)
  BY <1>1 DEF Lock, LockFree
<1>2. CASE SetupFails(b)
  BY <1>2 DEF SetupFails
<1>3. CASE AnnounceUrl(b) \/ AnnounceUp(b) \/ Bind(b) \/ PortConflict(b)
  BY <1>3 DEF AnnounceUrl, AnnounceUp, Bind, PortConflict
<1>4. CASE BindFails(b) \/ Shutdown(b)
  BY <1>4 DEF BindFails, Shutdown
<1>5. CASE ReportStopped(b) \/ Return(b) \/ ReportError(b) \/ ReportErrorStopped(b)
  BY <1>5 DEF ReportStopped, Return, ReportError, ReportErrorStopped
<1>6. CASE Renew(b)
  BY <1>6 DEF Renew
<1>7. QED BY <1>1, <1>2, <1>3, <1>4, <1>5, <1>6 DEF BridgeStep

(* Starting a bridge takes no lock.                                        *)
LEMMA StartKeepsLock ==
  ASSUME LockInv, UNCHANGED lock,
         UNCHANGED phase \/ \E b \in Bridge : StartBridge(b)
  PROVE  LockInv'
<1>1. CASE UNCHANGED phase
  BY <1>1 DEF LockInv
<1>2. ASSUME NEW b \in Bridge, StartBridge(b)
      PROVE  LockInv'
  BY <1>2 DEF StartBridge, Goes, LockInv, Holding
<1>3. QED BY <1>1, <1>2

(* What the user and the app's handlers do to the bridges is to start one. *)
LEMMA AppStepStarts ==
  ASSUME UserStep \/ SetupResult \/ HandleEvent
  PROVE  UNCHANGED lock /\ (UNCHANGED phase \/ \E b \in Bridge : StartBridge(b))
<1>1. CASE OpenWizard \/ EscapeWizard \/ SubmitSetup
                 \/ OpenQr \/ OpenPush \/ ClosePopup \/ ChoosePush
  BY <1>1 DEF OpenWizard, EscapeWizard, SubmitSetup, OpenQr, OpenPush, ClosePopup, ChoosePush
<1>2. CASE EnterAgent \/ PickTransport \/ SetupResult
  BY <1>2 DEF EnterAgent, PickTransport, SetupResult, FinishWizard
<1>3. CASE HandleConflict \/ HandleUrl \/ HandleUp \/ HandleError
  BY <1>3 DEF HandleConflict, HandleUrl, HandleUp, HandleError
<1>4. CASE HandleStopped
  BY <1>4 DEF HandleStopped
<1>5. QED BY <1>1, <1>2, <1>3, <1>4 DEF UserStep, HandleEvent

-----------------------------------------------------------------------------
(* The inductive invariant holds in every reachable state.                 *)
THEOREM LockInvariant == Spec => []LockInv
<1>1. Init => LockInv
  BY AppAssumption DEF Init, FirstSteps, LockInv, Holding
<1>2. LockInv /\ [Next]_vars => LockInv'
  <2> SUFFICES ASSUME LockInv, [Next]_vars PROVE LockInv'
    OBVIOUS
  <2>1. CASE UNCHANGED vars
    BY <2>1 DEF vars, LockInv
  <2>2. ASSUME NEW b \in Bridge, BridgeStep(b) \/ PortConflict(b) \/ Renew(b)
        PROVE  LockInv'
    BY <2>2, BridgeStepKeepsLock
  <2>3. CASE UserStep \/ SetupResult \/ HandleEvent
    BY <2>3, AppStepStarts, StartKeepsLock
  <2>4. QED BY <2>1, <2>2, <2>3 DEF Next
<1>3. QED BY <1>1, <1>2, PTL DEF Spec

(* However often the user restarts, at most one bridge serves: the lock    *)
(* file is held from before the port is bound until the listener is gone.  *)
THEOREM OneListenerKept == Spec => []OneListener
<1>1. LockInv => OneListener
  BY DEF LockInv, OneListener, Holding
<1>2. QED BY <1>1, LockInvariant, PTL

-----------------------------------------------------------------------------
(* The status bar, the pending restart and the route: three invariants,    *)
(* each stronger than the property it is for.                              *)

(* Phases between the report "up" and the report "stopped".                *)
Standing == {"binding", "serving", "stopped", "failed"}

(* The status bar will say "up" once the events have been handled: the     *)
(* last word on the way is "up", or it says so and nothing contradicts it. *)
LastWordUp ==
  \E i \in 1 .. Len(events) :
    events[i] = "up" /\ \A j \in i + 1 .. Len(events) : events[j] # "stopped"
StaysUp == up /\ \A i \in 1 .. Len(events) : events[i] # "stopped"

(* UpIsTrue is about an empty channel; whatever is on its way, a report of *)
(* the end follows the bridge's last "up".                                 *)
UpInv == LastWordUp \/ StaysUp => \E b \in Bridge : phase[b] \in Standing

(* A bridge in any other phase than these has a BridgeStopped to send.     *)
WillReport(b) == phase[b] \notin {"none", "ended"}
StopSent == \E i \in 1 .. Len(events) : events[i] = "stopped"

(* PendingRestartHasCause needs that the bridge finish_wizard tells to     *)
(* stop still has a report to make, and that only a reopened wizard is     *)
(* open while a restart is pending.                                        *)
RestartInv ==
  /\ shutdown # NoBridge => WillReport(shutdown) \/ StopSent
  /\ restart /\ ~reopened =>
       wizard = "none" /\ (StopSent \/ \E b \in stop : WillReport(b))

(* LoneBridgeKeepsRoute needs that a guard is held from the URL to the     *)
(* return, and that the guard of a lone bridge is the only one.            *)
Guarded == {"announced", "binding", "serving", "stopped", "failed", "ended", "broken"}
Announced == {"announced", "binding", "serving"}
RouteInv ==
  /\ \A b \in routed : phase[b] \in Guarded
  /\ \A b \in Bridge : phase[b] \in {"ended", "broken"} => b \in routed
  /\ alone => \E b \in Bridge :
                phase[b] \in Announced /\ lock = b /\ route = b /\ routed = {b}

EventName == {"conflict", "url", "up", "error", "stopped"}

(* What sending and receiving do to the channel, position by position.     *)
LEMMA SendsLast ==
  ASSUME events \in Seq(EventName), NEW e \in EventName, Send(e)
  PROVE  /\ events' \in Seq(EventName)
         /\ Len(events') = Len(events) + 1
         /\ \A i \in 1 .. Len(events) : events'[i] = events[i]
         /\ events'[Len(events) + 1] = e
BY AppendProperties DEF Send

LEMMA ReceivesFirst ==
  ASSUME events \in Seq(EventName), NEW e, Receive(e)
  PROVE  /\ events' \in Seq(EventName)
         /\ Len(events) = Len(events') + 1
         /\ \A i \in 1 .. Len(events') : events'[i] = events[i + 1]
         /\ events[1] = e
<1>1. events[1] = Head(events) /\ Len(events) \in Nat
  BY DEF Receive
<1>2. QED BY <1>1, HeadTailProperties DEF Receive

-----------------------------------------------------------------------------
(* Types.                                                                  *)
WizardType ==
  /\ wizard \in {"none", "agent", "pick", "setup", "loading"}
  /\ cancelable \in BOOLEAN /\ reopened \in BOOLEAN /\ setups \in 0 .. MaxSetups
PopupType ==
  /\ popup \in {"none", "push", "qr", "transport_error"}
  /\ pushChosen \in BOOLEAN /\ qrVisible \in BOOLEAN /\ showReady \in BOOLEAN
SenderType ==
  /\ shutdown \in Bridge \cup {NoBridge} /\ restart \in BOOLEAN
  /\ stop \subseteq Bridge /\ up \in BOOLEAN
BridgeType ==
  /\ phase \in [Bridge -> {"none", "starting", "setup", "ported", "announced", "binding",
                           "serving", "stopped", "failed", "ended", "broken", "failing", "reported"}]
  /\ lock \in Bridge \cup {NoBridge}
  /\ routed \subseteq Bridge /\ route \in Bridge \cup {NoBridge} /\ alone \in BOOLEAN

LEMMA TypeParts ==
  /\ TypeOK => WizardType /\ PopupType /\ SenderType /\ BridgeType /\ events \in Seq(EventName)
  /\ WizardType' /\ PopupType' /\ SenderType' /\ BridgeType' /\ events' \in Seq(EventName) => TypeOK'
  /\ UNCHANGED wizVars /\ WizardType => WizardType'
  /\ UNCHANGED popVars /\ PopupType => PopupType'
  /\ UNCHANGED senderVars /\ UNCHANGED up /\ SenderType => SenderType'
  /\ UNCHANGED <<phase, lock>> /\ UNCHANGED routeVars /\ BridgeType => BridgeType'
<1>1. /\ TypeOK => WizardType /\ PopupType /\ SenderType /\ BridgeType /\ events \in Seq(EventName)
      /\ WizardType' /\ PopupType' /\ SenderType' /\ BridgeType' /\ events' \in Seq(EventName) => TypeOK'
  BY DEF TypeOK, WizardType, PopupType, SenderType, BridgeType, EventName
<1>2. UNCHANGED wizVars /\ WizardType => WizardType'
  BY DEF WizardType, wizVars
<1>3. UNCHANGED popVars /\ PopupType => PopupType'
  BY DEF PopupType, popVars
<1>4. UNCHANGED senderVars /\ UNCHANGED up /\ SenderType => SenderType'
  BY DEF SenderType, senderVars
<1>5. UNCHANGED <<phase, lock>> /\ UNCHANGED routeVars /\ BridgeType => BridgeType'
  BY DEF BridgeType, routeVars
<1>6. QED BY <1>1, <1>2, <1>3, <1>4, <1>5

LEMMA BridgeStepTypes ==
  ASSUME TypeOK, NEW b \in Bridge, BridgeStep(b) \/ PortConflict(b) \/ Renew(b)
  PROVE  TypeOK'
<1>1. WizardType' /\ PopupType' /\ SenderType'
  BY TypeParts DEF BridgeStep, Lock, SetupFails, AnnounceUrl, AnnounceUp, PortConflict, Bind,
     BindFails, Shutdown, ReportStopped, Return, ReportError, ReportErrorStopped, Renew
<1>2. events' \in Seq(EventName)
  BY TypeParts, SendsLast
     DEF BridgeStep, Lock, SetupFails, AnnounceUrl, AnnounceUp, PortConflict, Bind, BindFails,
         Shutdown, ReportStopped, Return, ReportError, ReportErrorStopped, Renew, EventName
<1>3. BridgeType'
  <2> USE AppAssumption, TypeParts DEF BridgeType, Goes, routeVars
  <2>1. CASE Lock(b) \/ SetupFails(b) \/ AnnounceUrl(b) \/ AnnounceUp(b) \/ PortConflict(b)
    BY <2>1 DEF Lock, LockFree, SetupFails, AnnounceUrl, AnnounceUp, PortConflict
  <2>2. CASE Bind(b) \/ BindFails(b) \/ Shutdown(b) \/ Renew(b)
    BY <2>2 DEF Bind, BindFails, Shutdown, Renew
  <2>3. CASE ReportStopped(b) \/ Return(b) \/ ReportError(b) \/ ReportErrorStopped(b)
    BY <2>3 DEF ReportStopped, Return, LeftBy, ReportError, ReportErrorStopped
  <2>4. QED BY <2>1, <2>2, <2>3 DEF BridgeStep
<1>4. QED BY <1>1, <1>2, <1>3, TypeParts

LEMMA StartTypes ==
  ASSUME TypeOK, NEW b \in Bridge, StartBridge(b)
  PROVE  /\ phase' \in [Bridge -> {"none", "starting", "setup", "ported", "announced",
                                   "binding", "serving", "stopped", "failed", "ended",
                                   "broken", "failing", "reported"}]
         /\ stop' \subseteq Bridge /\ shutdown' \in Bridge /\ up' = FALSE
BY DEF StartBridge, Dropped, Goes, TypeOK

LEMMA FinishTypes ==
  ASSUME TypeOK, FinishWizard, UNCHANGED <<lock, events, routeVars>>, setups' \in 0 .. MaxSetups
  PROVE  TypeOK'
<1>1. WizardType' /\ PopupType'
  BY TypeParts DEF FinishWizard, WizardType, PopupType
<1>2. SenderType' /\ BridgeType'
  <2>1. CASE shutdown # NoBridge
    BY <2>1, TypeParts DEF FinishWizard, ShutdownSent, SenderType, BridgeType, routeVars
  <2>2. CASE shutdown = NoBridge
    BY StartTypes, <2>2, TypeParts
       DEF FinishWizard, RestartSettled, SenderType, BridgeType, routeVars
  <2>3. QED BY <2>1, <2>2
<1>3. QED BY <1>1, <1>2, TypeParts

LEMMA TypeStep == TypeOK /\ [Next]_vars => TypeOK'
<1> SUFFICES ASSUME TypeOK, [Next]_vars PROVE TypeOK'
  OBVIOUS
<1>1. CASE UNCHANGED vars
  BY <1>1, TypeParts DEF vars
<1>2. ASSUME NEW b \in Bridge, BridgeStep(b) \/ PortConflict(b) \/ Renew(b)
      PROVE  TypeOK'
  BY <1>2, BridgeStepTypes
<1>3. CASE UserStep
  <2>1. CASE OpenWizard \/ EscapeWizard \/ SubmitSetup
    <3>a. ASSUME OpenWizard PROVE WizardType'
      BY <3>a, TypeParts DEF OpenWizard, WizardType
    <3>b. ASSUME EscapeWizard PROVE WizardType'
      BY <3>b, TypeParts DEF EscapeWizard, WizardType
    <3>c. ASSUME SubmitSetup PROVE WizardType'
      BY <3>c, TypeParts, AppAssumption DEF SubmitSetup, WizardType
    <3>1. WizardType'
      BY <2>1, <3>a, <3>b, <3>c
    <3>2. QED BY <2>1, <3>1, TypeParts DEF OpenWizard, EscapeWizard, SubmitSetup
  <2>2. CASE EnterAgent \/ PickTransport
    <3>1. CASE FinishWizard
      BY <2>2, <3>1, FinishTypes DEF EnterAgent, PickTransport, TypeOK
    <3>2. CASE UNCHANGED <<cancelable, reopened, popVars, senderVars, up, phase>> /\ wizard' \in {"pick", "setup"}
      <4>1. WizardType'
        BY <2>2, <3>2, TypeParts DEF WizardType, EnterAgent, PickTransport
      <4>2. QED BY <2>2, <3>2, <4>1, TypeParts DEF EnterAgent, PickTransport
    <3>3. QED BY <2>2, <3>1, <3>2 DEF EnterAgent, PickTransport
  <2>3. CASE OpenQr \/ OpenPush \/ ClosePopup \/ ChoosePush
    <3>1. PopupType'
      BY <2>3, TypeParts DEF OpenQr, OpenPush, ClosePopup, ChoosePush, PopupType
    <3>2. QED BY <2>3, <3>1, TypeParts DEF OpenQr, OpenPush, ClosePopup, ChoosePush
  <2>4. QED BY <1>3, <2>1, <2>2, <2>3 DEF UserStep
<1>4. CASE SetupResult
  <2>1. setups' \in 0 .. MaxSetups
    BY <1>4, AppAssumption DEF SetupResult, TypeOK
  <2>2. CASE FinishWizard
    BY <1>4, <2>1, <2>2, FinishTypes DEF SetupResult
  <2>3. CASE /\ wizard' = IF wizard = "none" THEN "none" ELSE "setup"
             /\ UNCHANGED <<cancelable, reopened, popVars, senderVars, up, phase>>
    <3>1. WizardType'
      BY <2>1, <2>3, TypeParts DEF WizardType
    <3>2. QED BY <1>4, <2>3, <3>1, TypeParts DEF SetupResult
  <2>4. QED BY <1>4, <2>2, <2>3 DEF SetupResult
<1>5. CASE HandleEvent
  <2>1. events' \in Seq(EventName)
    BY <1>5, TypeParts, ReceivesFirst
       DEF HandleEvent, HandleConflict, HandleUrl, HandleUp, HandleError, HandleStopped
  <2>2. CASE HandleConflict \/ HandleUrl \/ HandleError
    <3>1. PopupType'
      BY <2>2, TypeParts DEF HandleConflict, HandleUrl, HandleError, PopupType
    <3>2. QED BY <2>1, <2>2, <3>1, TypeParts DEF HandleConflict, HandleUrl, HandleError
  <2>3. CASE HandleUp
    <3>1. SenderType'
      BY <2>3, TypeParts DEF HandleUp, SenderType, senderVars
    <3>2. QED BY <2>1, <2>3, <3>1, TypeParts DEF HandleUp
  <2>4. CASE HandleStopped
    <3>1. SenderType' /\ BridgeType'
      BY <2>4, StartTypes, TypeParts
         DEF HandleStopped, SenderType, BridgeType, routeVars, Dropped, UpCleared
    <3>2. QED BY <2>1, <2>4, <3>1, TypeParts DEF HandleStopped
  <2>5. QED BY <1>5, <2>2, <2>3, <2>4 DEF HandleEvent
<1>6. QED BY <1>1, <1>2, <1>3, <1>4, <1>5 DEF Next
-----------------------------------------------------------------------------
(* What a step of a bridge task can say, and what it means for the bridge. *)
Keeps(b) ==
  /\ phase[b] \in Standing => phase'[b] \in Standing
  /\ WillReport(b) => WillReport(b)'

LEMMA BridgeReports ==
  ASSUME TypeOK, NEW b \in Bridge, BridgeStep(b) \/ PortConflict(b) \/ Renew(b)
  PROVE  /\ UNCHANGED <<wizVars, senderVars, up>>
         /\ \A c \in Bridge \ {b} : phase'[c] = phase[c]
         /\ \/ UNCHANGED events /\ Keeps(b)
            \/ \E e \in {"conflict", "url", "error"} : Send(e) /\ Keeps(b)
            \/ Send("up") /\ phase'[b] = "binding"
            \/ Send("stopped")
<1> USE DEF TypeOK, Goes, Keeps, Standing, WillReport
<1>1. CASE Lock(b) \/ SetupFails(b)
  BY <1>1 DEF Lock, SetupFails
<1>2. CASE AnnounceUrl(b) \/ PortConflict(b)
  BY <1>2 DEF AnnounceUrl, PortConflict
<1>3. CASE AnnounceUp(b) \/ Renew(b)
  BY <1>3 DEF AnnounceUp, Renew
<1>4. CASE Bind(b) \/ BindFails(b) \/ Shutdown(b)
  BY <1>4 DEF Bind, BindFails, Shutdown
<1>5. CASE ReportStopped(b) \/ ReportErrorStopped(b)
  BY <1>5 DEF ReportStopped, ReportErrorStopped
<1>6. CASE Return(b) \/ ReportError(b)
  BY <1>6 DEF Return, ReportError
<1>7. QED BY <1>1, <1>2, <1>3, <1>4, <1>5, <1>6 DEF BridgeStep

(* What the app does to the bridges, to the status bar and to the channel. *)
LEMMA AppHears ==
  ASSUME TypeOK, UserStep \/ SetupResult \/ HandleEvent
  PROVE  /\ \A c \in Bridge : phase'[c] = phase[c] \/ (phase[c] = "none" /\ phase'[c] = "starting")
         /\ \/ UNCHANGED events /\ (up' = up \/ up' = FALSE)
            \/ \E e \in {"conflict", "url", "error"} : Receive(e) /\ UNCHANGED up
            \/ Receive("up")
            \/ Receive("stopped") /\ up' = FALSE
<1> USE DEF TypeOK
<1>a. ASSUME NEW b \in Bridge, StartBridge(b)
      PROVE  /\ \A c \in Bridge : phase'[c] = phase[c] \/ (phase[c] = "none" /\ phase'[c] = "starting")
             /\ up' = FALSE
  BY <1>a DEF StartBridge, Goes
<1>b. ASSUME FinishWizard
      PROVE  /\ \A c \in Bridge : phase'[c] = phase[c] \/ (phase[c] = "none" /\ phase'[c] = "starting")
             /\ up' = FALSE
  BY <1>a, <1>b DEF FinishWizard
<1>1. CASE OpenWizard \/ EscapeWizard \/ SubmitSetup
                 \/ OpenQr \/ OpenPush \/ ClosePopup \/ ChoosePush
  BY <1>1 DEF OpenWizard, EscapeWizard, SubmitSetup, OpenQr, OpenPush, ClosePopup, ChoosePush
<1>2. CASE EnterAgent \/ PickTransport \/ SetupResult
  BY <1>2, <1>b DEF EnterAgent, PickTransport, SetupResult
<1>3. CASE HandleConflict \/ HandleUrl \/ HandleUp \/ HandleError
  BY <1>3 DEF HandleConflict, HandleUrl, HandleUp, HandleError
<1>4. CASE HandleStopped
  BY <1>4, <1>a DEF HandleStopped, UpCleared
<1>5. QED BY <1>1, <1>2, <1>3, <1>4 DEF UserStep, HandleEvent

-----------------------------------------------------------------------------
(* Taking an event off the channel does not change its last word.          *)
LEMMA LastWordWasThere ==
  ASSUME events \in Seq(EventName), NEW e, Receive(e), LastWordUp'
  PROVE  LastWordUp
<1>1. /\ Len(events) = Len(events') + 1 /\ Len(events') \in Nat
      /\ \A i \in 1 .. Len(events') : events'[i] = events[i + 1]
  BY ReceivesFirst
<1>2. PICK i \in 1 .. Len(events') :
        events'[i] = "up" /\ \A j \in i + 1 .. Len(events') : events'[j] # "stopped"
  BY DEF LastWordUp
<1>3. i + 1 \in 1 .. Len(events) /\ events[i + 1] = "up"
  BY <1>1, <1>2
<1>4. ASSUME NEW j \in i + 2 .. Len(events) PROVE events[j] # "stopped"
  <2> DEFINE k == j - 1
  <2>1. k \in i + 1 .. Len(events') /\ k \in 1 .. Len(events') /\ k + 1 = j
    BY <1>1
  <2>2. events'[k] # "stopped" /\ events'[k] = events[k + 1]
    BY <1>1, <1>2, <2>1
  <2>3. QED BY <2>1, <2>2
<1>5. (i + 1) + 1 = i + 2
  OBVIOUS
<1>6. QED BY <1>3, <1>4, <1>5 DEF LastWordUp

LEMMA UpStep == TypeOK /\ UpInv /\ [Next]_vars => UpInv'
<1> SUFFICES ASSUME TypeOK, UpInv, [Next]_vars PROVE UpInv'
  OBVIOUS
<1> USE DEF EventName
<1>0. events \in Seq(EventName) /\ Len(events) \in Nat
  BY DEF TypeOK
<1>1. CASE UNCHANGED vars
  BY <1>1 DEF vars, UpInv, LastWordUp, StaysUp, routeVars, senderVars, wizVars, popVars
<1>2. ASSUME NEW b \in Bridge, BridgeStep(b) \/ PortConflict(b) \/ Renew(b)
      PROVE  UpInv'
  <2>1. /\ up' = up
        /\ \A c \in Bridge \ {b} : phase'[c] = phase[c]
    BY <1>2, BridgeReports
  <2>2. CASE UNCHANGED events /\ Keeps(b)
    BY <2>1, <2>2 DEF UpInv, LastWordUp, StaysUp, Keeps
  <2>3. CASE \E e \in {"conflict", "url", "error"} : Send(e) /\ Keeps(b)
    <3>1. PICK e \in {"conflict", "url", "error"} : Send(e) /\ Keeps(b)
      BY <2>3
    <3>2. /\ Len(events') = Len(events) + 1
          /\ \A i \in 1 .. Len(events) : events'[i] = events[i]
          /\ events'[Len(events) + 1] = e
      BY <1>0, <3>1, SendsLast
    <3>3. LastWordUp' => LastWordUp
      BY <1>0, <3>2 DEF LastWordUp
    <3>4. StaysUp' => StaysUp
      BY <1>0, <2>1, <3>2 DEF StaysUp
    <3>5. QED BY <2>1, <3>1, <3>3, <3>4 DEF UpInv, Keeps
  <2>4. CASE Send("up") /\ phase'[b] = "binding"
    BY <2>4 DEF UpInv, Standing
  <2>5. CASE Send("stopped")
    <3>1. /\ Len(events') = Len(events) + 1
          /\ \A i \in 1 .. Len(events) : events'[i] = events[i]
          /\ events'[Len(events) + 1] = "stopped"
      BY <1>0, <2>5, SendsLast
    <3>2. ~LastWordUp' /\ ~StaysUp'
      BY <1>0, <3>1 DEF LastWordUp, StaysUp
    <3>3. QED BY <3>2 DEF UpInv
  <2>6. QED BY <1>2, <2>2, <2>3, <2>4, <2>5, BridgeReports
<1>3. CASE UserStep \/ SetupResult \/ HandleEvent
  <2>1. (\E b \in Bridge : phase[b] \in Standing) => (\E b \in Bridge : phase'[b] \in Standing)
    BY <1>3, AppHears DEF Standing
  <2>2. CASE UNCHANGED events /\ (up' = up \/ up' = FALSE)
    BY <2>1, <2>2 DEF UpInv, LastWordUp, StaysUp
  <2>3. ASSUME NEW e \in EventName, Receive(e), e # "stopped", UNCHANGED up \/ e = "up"
        PROVE  UpInv'
    <3>1. /\ Len(events) = Len(events') + 1 /\ Len(events') \in Nat
          /\ \A i \in 1 .. Len(events') : events'[i] = events[i + 1]
          /\ events[1] = e
      BY <1>0, <2>3, ReceivesFirst
    <3>2. LastWordUp' => LastWordUp
      BY <1>0, <2>3, LastWordWasThere
    <3>3. StaysUp' => StaysUp \/ LastWordUp
      <4> SUFFICES ASSUME StaysUp' PROVE StaysUp \/ LastWordUp
        OBVIOUS
      <4>1. ASSUME NEW j \in 2 .. Len(events) PROVE events[j] # "stopped"
        <5> DEFINE i == j - 1
        <5>1. i \in 1 .. Len(events') /\ i + 1 = j
          BY <3>1
        <5>2. events'[i] # "stopped" /\ events'[i] = events[i + 1]
          BY <3>1, <5>1 DEF StaysUp
        <5>3. QED BY <5>1, <5>2
      <4>2. 1 \in 1 .. Len(events)
        BY <3>1
      <4>3. CASE e = "up"
        <5>1. events[1] = "up" /\ \A j \in 1 + 1 .. Len(events) : events[j] # "stopped"
          BY <3>1, <4>1, <4>3
        <5>2. QED BY <4>2, <5>1 DEF LastWordUp
      <4>4. CASE e # "up"
        <5>1. up /\ \A j \in 1 .. Len(events) : events[j] # "stopped"
          <6>1. \A j \in 1 .. Len(events) : j = 1 \/ j \in 2 .. Len(events)
            BY <3>1
          <6>2. QED BY <2>3, <3>1, <4>1, <4>4, <6>1 DEF StaysUp
        <5>2. QED BY <5>1 DEF StaysUp
      <4>5. QED BY <4>3, <4>4
    <3>4. QED BY <2>1, <3>2, <3>3 DEF UpInv
  <2>4. CASE Receive("stopped") /\ up' = FALSE
    <3>1. LastWordUp' => LastWordUp
      BY <1>0, <2>4, LastWordWasThere
    <3>2. QED BY <2>1, <2>4, <3>1 DEF UpInv, StaysUp
  <2>5. QED BY <1>3, <2>2, <2>3, <2>4, AppHears
<1>4. QED BY <1>1, <1>2, <1>3 DEF Next
-----------------------------------------------------------------------------
LEMMA RestartStep == TypeOK /\ RestartInv /\ [Next]_vars => RestartInv'
<1> SUFFICES ASSUME TypeOK, RestartInv, [Next]_vars PROVE RestartInv'
  OBVIOUS
<1> USE DEF EventName
<1>0. events \in Seq(EventName) /\ Len(events) \in Nat
  BY DEF TypeOK
<1>1. CASE UNCHANGED vars
  BY <1>1 DEF vars, RestartInv, WillReport, StopSent, routeVars, senderVars, wizVars, popVars
<1>2. ASSUME NEW b \in Bridge, BridgeStep(b) \/ PortConflict(b) \/ Renew(b)
      PROVE  RestartInv'
  <2>1. /\ UNCHANGED <<shutdown, stop, restart, reopened, wizard>>
        /\ \A c \in Bridge \ {b} : phase'[c] = phase[c]
    BY <1>2, BridgeReports DEF senderVars, wizVars
  <2>2. stop \subseteq Bridge /\ shutdown \in Bridge \cup {NoBridge}
    BY DEF TypeOK
  <2>3. ASSUME Keeps(b), StopSent => StopSent' PROVE RestartInv'
    BY <2>1, <2>2, <2>3 DEF RestartInv, WillReport, Keeps
  <2>4. ASSUME NEW e \in EventName, Send(e) PROVE StopSent => StopSent'
    BY <1>0, <2>4, SendsLast DEF StopSent
  <2>5. ASSUME Send("stopped") PROVE RestartInv'
    <3>1. StopSent'
      BY <1>0, <2>5, SendsLast DEF StopSent
    <3>2. QED BY <2>1, <3>1 DEF RestartInv
  <2>6. CASE Send("up") /\ phase'[b] = "binding"
    <3>1. Keeps(b)
      BY <2>6 DEF Keeps, Standing, WillReport
    <3>2. QED BY <2>3, <2>4, <2>6, <3>1
  <2>7. CASE UNCHANGED events /\ Keeps(b)
    BY <2>3, <2>7 DEF StopSent
  <2>8. CASE \E e \in {"conflict", "url", "error"} : Send(e) /\ Keeps(b)
    BY <2>3, <2>4, <2>8
  <2>9. QED BY <1>2, <2>5, <2>6, <2>7, <2>8, BridgeReports
<1>3. ASSUME NEW b \in Bridge, StartBridge(b), ~restart'
      PROVE  RestartInv'
  BY <1>3, AppAssumption DEF StartBridge, Goes, RestartInv, WillReport, TypeOK
<1>4. ASSUME FinishWizard, UNCHANGED events
      PROVE  RestartInv'
  <2>1. CASE shutdown # NoBridge
    BY <1>4, <2>1 DEF FinishWizard, ShutdownSent, RestartInv, WillReport, StopSent
  <2>2. CASE shutdown = NoBridge
    BY <1>3, <1>4, <2>2 DEF FinishWizard, RestartSettled
  <2>3. QED BY <2>1, <2>2
<1>5. ASSUME UNCHANGED <<senderVars, phase, reopened>>, wizard # "none" \/ UNCHANGED wizard,
             StopSent => StopSent'
      PROVE  RestartInv'
  BY <1>5 DEF RestartInv, WillReport, senderVars
<1>6. CASE UserStep \/ SetupResult
  <2>1. CASE OpenWizard
    BY <2>1 DEF OpenWizard, RestartInv, WillReport, StopSent, senderVars
  <2>2. CASE EscapeWizard \/ SubmitSetup
    BY <1>5, <2>2 DEF EscapeWizard, SubmitSetup, StopSent
  <2>3. CASE EnterAgent \/ PickTransport
    BY <1>4, <1>5, <2>3 DEF EnterAgent, PickTransport, StopSent
  <2>4. CASE OpenQr \/ OpenPush \/ ClosePopup \/ ChoosePush
    BY <1>5, <2>4 DEF OpenQr, OpenPush, ClosePopup, ChoosePush, StopSent, wizVars
  <2>5. CASE SetupResult
    BY <1>4, <1>5, <2>5 DEF SetupResult, StopSent
  <2>6. QED BY <1>6, <2>1, <2>2, <2>3, <2>4, <2>5 DEF UserStep
<1>7. CASE HandleConflict \/ HandleUrl \/ HandleUp \/ HandleError
  <2>1. PICK e \in EventName : Receive(e) /\ e # "stopped"
    BY <1>7 DEF HandleConflict, HandleUrl, HandleUp, HandleError
  <2>2. /\ Len(events) = Len(events') + 1 /\ Len(events') \in Nat
        /\ \A i \in 1 .. Len(events') : events'[i] = events[i + 1]
        /\ events[1] # "stopped"
    BY <1>0, <2>1, ReceivesFirst
  <2>3. StopSent => StopSent'
    <3> SUFFICES ASSUME NEW i \in 1 .. Len(events), events[i] = "stopped" PROVE StopSent'
      BY DEF StopSent
    <3> DEFINE k == i - 1
    <3>1. k \in 1 .. Len(events') /\ k + 1 = i
      BY <2>2
    <3>2. events'[k] = events[k + 1]
      BY <2>2, <3>1
    <3>3. QED BY <3>1, <3>2 DEF StopSent
  <2>4. QED BY <1>5, <1>7, <2>3 DEF HandleConflict, HandleUrl, HandleUp, HandleError, wizVars
<1>8. CASE HandleStopped
  <2>1. CASE restart /\ wizard = "none"
    BY <1>3, <1>8, <2>1 DEF HandleStopped
  <2>2. CASE ~(restart /\ wizard = "none")
    BY <1>8, <2>2 DEF HandleStopped, RestartInv, wizVars
  <2>3. QED BY <2>1, <2>2
<1>9. QED BY <1>1, <1>2, <1>6, <1>7, <1>8 DEF Next, HandleEvent

LEMMA RouteStep == TypeOK /\ LockInv /\ RouteInv /\ [Next]_vars => RouteInv'
<1> SUFFICES ASSUME TypeOK, LockInv, RouteInv, [Next]_vars PROVE RouteInv'
  OBVIOUS
<1>1. CASE UNCHANGED vars
  BY <1>1 DEF vars, RouteInv, routeVars
<1>2. ASSUME NEW b \in Bridge, BridgeStep(b) \/ PortConflict(b) \/ Renew(b)
      PROVE  RouteInv'
  <2> USE AppAssumption DEF TypeOK, RouteInv, Guarded, Announced, Goes, routeVars
  <2>1. CASE Lock(b) \/ SetupFails(b) \/ PortConflict(b)
    BY <2>1 DEF Lock, LockFree, SetupFails, PortConflict, LockInv, Holding
  <2>2. CASE AnnounceUrl(b)
    <3>1. lock = b /\ b \notin routed /\ lock' = lock
      BY <2>2 DEF AnnounceUrl, LockInv, Holding
    <3>2. ~alone
      BY <2>2, <3>1 DEF AnnounceUrl
    <3>3. QED BY <2>2, <3>1, <3>2 DEF AnnounceUrl
  <2>3. CASE AnnounceUp(b) \/ Bind(b)
    BY <2>3 DEF AnnounceUp, Bind
  <2>4. CASE BindFails(b) \/ Shutdown(b)
    BY <2>4 DEF BindFails, Shutdown
  <2>5. CASE ReportStopped(b) \/ Return(b)
    <3>1. CASE ReportStopped(b)
      BY <3>1 DEF ReportStopped
    <3>2. CASE Return(b)
      <4>1. ~alone
        BY <3>2 DEF Return
      <4>2. QED BY <3>2, <4>1 DEF Return, LeftBy
    <3>3. QED BY <2>5, <3>1, <3>2
  <2>6. CASE ReportError(b) \/ ReportErrorStopped(b) \/ Renew(b)
    BY <2>6 DEF ReportError, ReportErrorStopped, Renew
  <2>7. QED BY <1>2, <2>1, <2>2, <2>3, <2>4, <2>5, <2>6 DEF BridgeStep
<1>3. CASE UserStep \/ SetupResult \/ HandleEvent
  <2>1. UNCHANGED routeVars
    <3>1. CASE UserStep
      BY <3>1 DEF UserStep, OpenWizard, EscapeWizard, EnterAgent, PickTransport, SubmitSetup,
                  OpenQr, OpenPush, ClosePopup, ChoosePush
    <3>2. CASE SetupResult \/ HandleEvent
      BY <3>2 DEF SetupResult, HandleEvent, HandleConflict, HandleUrl, HandleUp, HandleError,
                  HandleStopped
    <3>3. QED BY <1>3, <3>1, <3>2
  <2>2. QED BY <1>3, <2>1, AppHears, AppStepStarts DEF TypeOK, RouteInv, Guarded, Announced, routeVars
<1>4. QED BY <1>1, <1>2, <1>3 DEF Next

-----------------------------------------------------------------------------
AppInv == TypeOK /\ UpInv /\ RestartInv /\ RouteInv

(* The inductive invariant of the app and its bridges holds in every       *)
(* reachable state, for any number of bridge tasks, plugin setups and      *)
(* events on their way.                                                    *)
THEOREM AppInvariant == Spec => []AppInv
<1>1. Init => AppInv
  <2> SUFFICES ASSUME Init PROVE AppInv
    OBVIOUS
  <2>1. TypeOK
    <3>1. WizardType
      <4>1. wizard \in {"none", "agent", "pick", "setup", "loading"}
        BY DEF Init, FirstSteps
      <4>2. cancelable \in BOOLEAN /\ reopened \in BOOLEAN
        BY DEF Init
      <4>3. QED BY <4>1, <4>2, AppAssumption DEF Init, WizardType
    <3>2. PopupType
      BY DEF Init, PopupType
    <3>3. SenderType /\ BridgeType
      BY DEF Init, SenderType, BridgeType
    <3>4. events \in Seq(EventName)
      BY DEF Init
    <3>5. QED BY <3>1, <3>2, <3>3, <3>4
              DEF TypeOK, WizardType, PopupType, SenderType, BridgeType, EventName
  <2>2. UpInv
    BY DEF Init, UpInv, LastWordUp, StaysUp
  <2>3. RestartInv
    BY AppAssumption DEF Init, RestartInv, WillReport
  <2>4. RouteInv
    BY DEF Init, FirstSteps, RouteInv
  <2>5. QED BY <2>1, <2>2, <2>3, <2>4 DEF AppInv
<1>2. AppInv /\ LockInv /\ [Next]_vars => AppInv'
  BY TypeStep, UpStep, RestartStep, RouteStep DEF AppInv
<1>3. QED BY <1>1, <1>2, LockInvariant, PTL DEF Spec

(* With every report handled, "up" on the status bar means that a bridge   *)
(* has come up and not yet reported its end.                               *)
THEOREM UpIsTrueKept == Spec => []UpIsTrue
<1>1. AppInv => UpIsTrue
  BY DEF AppInv, UpInv, StaysUp, UpIsTrue, Standing
<1>2. QED BY <1>1, AppInvariant, PTL

(* While a confirmed restart is pending and the wizard has stayed closed,  *)
(* a BridgeStopped is on its way or still to be sent by a bridge that was  *)
(* told to stop: handle_bridge_event will be called to start the new one.  *)
THEOREM PendingRestartHasCauseKept == Spec => []PendingRestartHasCause
<1>1. AppInv => PendingRestartHasCause
  <2> SUFFICES ASSUME AppInv, restart, ~reopened
               PROVE  "stopped" \in Range(events) \/ Active \cap stop # {}
    BY DEF PendingRestartHasCause
  <2>1. CASE StopSent
    <3>1. PICK i \in 1 .. Len(events) : events[i] = "stopped"
      BY <2>1 DEF StopSent
    <3>2. DOMAIN events = 1 .. Len(events)
      BY DEF AppInv, TypeOK
    <3>3. QED BY <3>1, <3>2 DEF Range
  <2>2. CASE \E b \in stop : WillReport(b)
    BY <2>2 DEF AppInv, TypeOK, WillReport, Active
  <2>3. QED BY <2>1, <2>2 DEF AppInv, RestartInv
<1>2. QED BY <1>1, AppInvariant, PTL

(* A bridge whose `tailscale serve` route was taken with no guard out      *)
(* keeps the route until it stops, whatever restarts, failures and removal *)
(* commands that fail: however many bridges there are, the lock file lets  *)
(* none announce itself meanwhile.                                         *)
THEOREM LoneBridgeKeepsRouteAlways == Spec => []LoneBridgeKeepsRoute
<1>1. AppInv => LoneBridgeKeepsRoute
  BY AppAssumption DEF AppInv, RouteInv, LoneBridgeKeepsRoute
<1>2. QED BY <1>1, AppInvariant, PTL
=============================================================================
