----------------------------- MODULE Engagement -----------------------------
(***************************************************************************)
(* The engagement path of the program: who decides that the system drives, *)
(* and how the decision reaches the car.                                   *)
(*                                                                         *)
(*   selfdrived  samples the car and the other processes, computes the     *)
(*               onroad events, runs the state machine, and publishes      *)
(*               selfdriveState and then, when they changed, onroadEvents; *)
(*   controlsd   wakes on selfdriveState, reads the latest onroadEvents,   *)
(*               gates each axis and publishes carControl;                 *)
(*   card        applies carControl to the CAN bus once onroadEvents says  *)
(*               that selfdrived is initialized;                           *)
(*   pandad      turns selfdriveState into the panda's heartbeat and       *)
(*               publishes the panda's verdict, controlsAllowed;           *)
(*   manager     reports a controlsd that died (it restarts nothing).      *)
(*                                                                         *)
(* The processes share nothing but conflated sockets: a reader sees the    *)
(* latest message, whatever it missed.  A SubMaster calls a service alive  *)
(* while its last message is younger than ten periods; xxFresh is that     *)
(* clock, and Expire the passing of it.  A process may die between any two *)
(* of its sends.                                                           *)
(***************************************************************************)
EXTENDS StateMachine, FiniteSets

CONSTANTS
  MismatchLimit,       \* samples without controlsAllowed that disengage, 200 in the code
  CarStates,           \* the carState messages card may publish
  SystemEvents,        \* the events that the rest of the system may raise in a frame
  PcmCruise,           \* CP.pcmCruise (and the brand is not honda)
  Longitudinal,        \* CP.openpilotLongitudinalControl
  Passive,             \* CP.passive: dashcam mode
  PandaVerdicts,       \* what the panda may say of controlsAllowed
  Happens              \* what may happen: selfdrived or controlsd dies, either is late,
                       \* another service fails selfdrived's checks, the big model loads

\* What of a carState the events of a frame depend on: flags holds the names whose
\* condition is a single carState field.
CarState == [canValid: BOOLEAN, gasPressed: BOOLEAN, brakePressed: BOOLEAN,
             standstill: BOOLEAN, cruiseEnabled: BOOLEAN, blockPcmEnable: BOOLEAN,
             flags: SUBSET EventNames]

\* The carState a process holds before the first message.
DefaultCarState ==
  [canValid |-> FALSE, gasPressed |-> FALSE, brakePressed |-> FALSE, standstill |-> FALSE,
   cruiseEnabled |-> FALSE, blockPcmEnable |-> FALSE, flags |-> {}]

\* Events of the section "Handle HW and system malfunctions" that other processes cause.
\* canBusMissing, which takes the place of canError and carries the same types, is one.
HardwareNames ==
  {"bigModelFailed", "cameraMalfunction", "cameraFrameRate", "selfdrivedLagging",
   "radarFault", "radarTempUnavailable", "canError", "canBusMissing"}

\* Events raised after the catch-all; the localizer's wait for the big model.
LocalizerNames == {"posenetInvalid", "locationdTemporaryError", "paramsdTemporaryError"}
LateNames == LocalizerNames \cup {"sensorDataInvalid", "modeldLagging"}

\* The events of the other processes by the place where update_events raises them.  The
\* big model's failure is raised before the hardware section too, in its first frame.
SystemEvent ==
  [before: SUBSET (EventNames \ EnableNames), hardware: SUBSET HardwareNames,
   late: SUBSET LateNames]

ASSUME EngagementAssumption ==
  /\ MismatchLimit \in Nat \ {0}
  /\ CarStates \subseteq CarState
  /\ SystemEvents \subseteq SystemEvent
  /\ {PcmCruise, Longitudinal, Passive} \subseteq BOOLEAN
  /\ PandaVerdicts \subseteq {"allowed", "refused"}
  /\ Happens \subseteq {"selfdrived", "controlsd", "late", "services", "loading"}

\* A car whose own cruise engages the system has no engage button: opendbc raises
\* buttonEnable for the other cars only.
ASSUME EnableSourceAssumption ==
  PcmCruise => \A CS \in CarStates : CS.flags \cap EnableNames = {}

Axes == {"lateral", "longitudinal"}

VARIABLES
  \* selfdrived
  selfdrivedUp, sPc, initialized, state, softDisableTimer, mismatchCounter,
  events, eventsPrev, CSPrev,
  \* controlsd: its copies of selfdriveState and of the override flags of onroadEvents
  controlsdUp, cPc, cSS, cOverride,
  \* the sockets, with what controlsd has not read yet and what has not timed out
  selfdriveState, ssUnread, ssFresh, onroadEvents, onroadSeen,
  carControl, ccFresh, pandaStates,
  \* card, pandad and manager
  sendcan,             \* some command went out on the CAN bus
  controlsReady, heartbeat, notRunning,
  \* history: frames spent in the current softDisabling; per axis, consecutive frames
  \* (up to two) whose events override it
  softSteps, overrideRun

selfdrivedVars == <<selfdrivedUp, sPc, initialized, state, softDisableTimer, mismatchCounter,
                    events, eventsPrev, CSPrev, softSteps, overrideRun>>
controlsdVars == <<controlsdUp, cPc, cSS, cOverride>>
stateSocket == <<selfdriveState, ssUnread, ssFresh>>
eventSocket == <<onroadEvents, onroadSeen>>
controlSocket == <<carControl, ccFresh>>
cardVars == <<sendcan, controlsReady>>
pandadVars == <<pandaStates, heartbeat>>
vars == <<selfdrivedVars, controlsdVars, stateSocket, eventSocket, controlSocket,
          cardVars, pandadVars, notRunning>>

SelfdriveState == [enabled: BOOLEAN, active: BOOLEAN, state: States]
CarControl == [enabled: BOOLEAN, latActive: BOOLEAN, longActive: BOOLEAN]

NoControl == [enabled |-> FALSE, latActive |-> FALSE, longActive |-> FALSE]
StateMsg(s) == [enabled |-> s \in EnabledStates, active |-> s \in ActiveStates, state |-> s]

OverrideType(axis) ==
  IF axis = "lateral" THEN "OVERRIDE_LATERAL" ELSE "OVERRIDE_LONGITUDINAL"

Init ==
  /\ selfdrivedUp = TRUE /\ controlsdUp = TRUE
  /\ sPc = "sample" /\ cPc = "poll"
  /\ initialized = FALSE
  /\ state = "disabled" /\ softDisableTimer = 0 /\ mismatchCounter = 0
  /\ events = {} /\ eventsPrev = {} /\ CSPrev = DefaultCarState
  /\ selfdriveState = StateMsg("disabled") /\ ssUnread = FALSE /\ ssFresh = FALSE
  /\ onroadEvents = {} /\ onroadSeen = FALSE
  /\ cSS = StateMsg("disabled") /\ cOverride = [axis \in Axes |-> FALSE]
  /\ carControl = NoControl /\ ccFresh = FALSE
  /\ sendcan = FALSE /\ controlsReady = FALSE
  /\ pandaStates = "unseen" /\ heartbeat = FALSE
  /\ notRunning = FALSE
  /\ softSteps = 0 /\ overrideRun = [axis \in Axes |-> 0]

-----------------------------------------------------------------------------
\* selfdrived: the events of a frame

Raise(condition, name) == IF condition THEN {name} ELSE {}

\* CarEvents.create_common_events: the car's cruise engages the system on its rising
\* edge and disengages it while it is off.
CarEvents(CS, CS_prev) ==
  CS.flags
  \cup Raise(CS.gasPressed, "gasPressedOverride")
  \cup Raise(CS.brakePressed /\ CS.standstill, "preEnableStandstill")
  \cup Raise(PcmCruise /\ CS.cruiseEnabled /\ ~CS_prev.cruiseEnabled /\ ~CS.blockPcmEnable,
             "pcmEnable")
  \cup Raise(PcmCruise /\ ~CS.cruiseEnabled, "pcmDisable")

\* The driver's pedals: an edge of the gas (when so configured), an edge of the brake, or
\* the brake while moving.  Regenerative braking follows the brake's rule.
PedalPressed(CS, CS_prev, disengageOnAccelerator) ==
  \/ CS.gasPressed /\ ~CS_prev.gasPressed /\ disengageOnAccelerator
  \/ CS.brakePressed /\ (~CS_prev.brakePressed \/ ~CS.standstill)

\* The catch-all commIssue: raised on any failed check of a subscribed service unless an
\* event that both refuses and ends an engagement explains it already, or the big model
\* is being loaded.
MutCommIssue(base, hardware, allChecks, settling) ==
  Raise(~allChecks /\ hardware = {} /\ ~settling, "commIssue")
CommIssue(base, hardware, allChecks, settling) ==
  LET present == base \cup hardware
      hasDisableEvents == /\ contains(present, "NO_ENTRY")
                          /\ \/ contains(present, "SOFT_DISABLE")
                             \/ contains(present, "IMMEDIATE_DISABLE")
      noSystemErrors == ~hasDisableEvents \/ hardware = {}
  IN Raise(~allChecks /\ noSystemErrors /\ ~settling, "commIssue")

\* The panda has refused for too many samples (pandaStates names no panda before the
\* first message, so nothing is raised then).
MismatchTooLong(mismatch) == pandaStates # "unseen" /\ mismatch >= MismatchLimit

\* An invalid CAN bus also keeps the car's own events out of the frame.
MutCanEvents(CS) == {}
CanEvents(CS) == Raise(~CS.canValid, "canError")

\* SelfdriveD.update_events.  in gives what the frame samples: the carState, the events
\* of the other processes and of the device, the result of the service checks, whether
\* the big model is settling, and the DisengageOnAccelerator param, which a thread of
\* selfdrived rewrites at any time.
UpdateEvents(in, ready, mismatch) ==
  IF ~ready THEN {"selfdriveInitializing"}
  ELSE IF Passive THEN {}
  ELSE LET base == in.sys.before
                   \cup (IF in.CS.canValid
                         THEN CarEvents(in.CS, CSPrev)
                              \cup Raise(PedalPressed(in.CS, CSPrev, in.gasDisengages),
                                         "pedalPressed")
                         ELSE {})
                   \cup Raise(MismatchTooLong(mismatch), "controlsMismatch")
           hardware == in.sys.hardware
                       \cup Raise(notRunning, "processNotRunning")
                       \cup CanEvents(in.CS)
           late == in.sys.late \ (IF in.settling THEN LocalizerNames ELSE {})
       IN base \cup hardware \cup late
          \cup CommIssue(base, hardware, ccFresh /\ in.othersOk, in.settling)

\* What one frame samples; othersOk is the check of every service but carControl.
FrameInputs ==
  [CS: CarStates, sys: SystemEvents, gasDisengages: BOOLEAN,
   othersOk: {TRUE, "services" \notin Happens}, settling: {FALSE, "loading" \in Happens}]

\* data_sample counts the samples in which the panda disallows what selfdrived drives;
\* only a frame that begins disengaged resets the count.
NextMismatch ==
  IF state \notin EnabledStates THEN 0
  ELSE mismatchCounter + (IF pandaStates = "refused" THEN 1 ELSE 0)

-----------------------------------------------------------------------------
\* selfdrived: one frame is a computation and two sends

\* data_sample, update_events and the state machine.  Initialization ends when every
\* check passes or after six seconds, whichever the frame meets.
SelfdrivedStep ==
  /\ selfdrivedUp /\ sPc = "sample"
  /\ \E in \in FrameInputs, ready \in BOOLEAN :
       LET init == initialized \/ ready
           evs == UpdateEvents(in, init, NextMismatch)
           runs == ~Passive /\ init
       IN /\ initialized' = init
          /\ events' = evs
          /\ state' = IF runs THEN NextState(state, softDisableTimer, evs) ELSE state
          /\ softDisableTimer' = IF runs THEN NextTimer(state, softDisableTimer, evs)
                                         ELSE softDisableTimer
          /\ CSPrev' = in.CS
          /\ overrideRun' = [axis \in Axes |->
               IF contains(evs, OverrideType(axis))
               THEN IF overrideRun[axis] = 0 THEN 1 ELSE 2
               ELSE 0]
  /\ mismatchCounter' = NextMismatch
  /\ softSteps' = IF state' = "softDisabling" THEN softSteps + 1 ELSE 0
  /\ sPc' = "pubState"
  /\ UNCHANGED <<selfdrivedUp, eventsPrev, controlsdVars, stateSocket, eventSocket,
                 controlSocket, cardVars, pandadVars, notRunning>>

\* publish_selfdriveState, first send: controlsd is polling this socket.
PublishState ==
  /\ selfdrivedUp /\ sPc = "pubState"
  /\ selfdriveState' = StateMsg(state)
  /\ ssUnread' = TRUE /\ ssFresh' = TRUE
  /\ sPc' = "pubEvents"
  /\ UNCHANGED <<selfdrivedUp, initialized, state, softDisableTimer, mismatchCounter, events,
                 eventsPrev, CSPrev, softSteps, overrideRun, controlsdVars, eventSocket,
                 controlSocket, cardVars, pandadVars, notRunning>>

\* The events are sent when the frame number is a multiple of 100 (tick) or when their
\* names differ from the previous frame's.
MutEventsDue(tick) == tick \/ Cardinality(events) # Cardinality(eventsPrev)
EventsDue(tick) == tick \/ events # eventsPrev

\* publish_selfdriveState, second send.
PublishEvents ==
  /\ selfdrivedUp /\ sPc = "pubEvents"
  /\ \E tick \in BOOLEAN :
       IF EventsDue(tick)
       THEN onroadEvents' = events /\ onroadSeen' = TRUE
       ELSE UNCHANGED eventSocket
  /\ eventsPrev' = events
  /\ sPc' = "sample"
  /\ UNCHANGED <<selfdrivedUp, initialized, state, softDisableTimer, mismatchCounter, events,
                 CSPrev, softSteps, overrideRun, controlsdVars, stateSocket,
                 controlSocket, cardVars, pandadVars, notRunning>>

-----------------------------------------------------------------------------
\* controlsd

\* SubMaster.update polls selfdriveState for 15 ms; when nothing arrives the loop runs on
\* with the copy it holds, which is then the latest one.
ControlsPoll ==
  /\ controlsdUp /\ cPc = "poll"
  /\ cSS' = selfdriveState /\ ssUnread' = FALSE
  /\ cPc' = "read"
  /\ UNCHANGED <<controlsdUp, cOverride, selfdriveState, ssFresh, selfdrivedVars, eventSocket,
                 controlSocket, cardVars, pandadVars, notRunning>>

\* The sockets that are not polled are read after the one that is.
ControlsRead ==
  /\ controlsdUp /\ cPc = "read"
  /\ cOverride' = [axis \in Axes |-> contains(onroadEvents, OverrideType(axis))]
  /\ cPc' = "control"
  /\ UNCHANGED <<controlsdUp, cSS, selfdrivedVars, stateSocket, eventSocket,
                 controlSocket, cardVars, pandadVars, notRunning>>

\* state_control: an override pauses its own axis only.  steerOk is the rest of latActive:
\* no steering fault, and moving or a car that steers at standstill.
MutStateControl(ss, override, steerOk) ==
  [enabled    |-> ss.enabled,
   latActive  |-> ss.enabled /\ steerOk /\ ~override["lateral"],
   longActive |-> ss.enabled /\ ~override["longitudinal"] /\ Longitudinal]
StateControl(ss, override, steerOk) ==
  [enabled    |-> ss.enabled,
   latActive  |-> ss.active /\ steerOk /\ ~override["lateral"],
   longActive |-> ss.enabled /\ ~override["longitudinal"] /\ Longitudinal]

\* state_control and publish.
ControlsPublish ==
  /\ controlsdUp /\ cPc = "control"
  /\ \E steerOk \in BOOLEAN : carControl' = StateControl(cSS, cOverride, steerOk)
  /\ ccFresh' = TRUE
  /\ cPc' = "poll"
  /\ UNCHANGED <<controlsdUp, cSS, cOverride, selfdrivedVars, stateSocket, eventSocket,
                 cardVars, pandadVars, notRunning>>

-----------------------------------------------------------------------------
\* card, pandad, manager

\* card acts once onroadEvents was seen without selfdriveInitializing.
MutCardInitialized == "selfdriveInitializing" \notin onroadEvents
CardInitialized == onroadSeen /\ "selfdriveInitializing" \notin onroadEvents

\* Car.step: the first initialized step raises ControlsReady, on which pandad gives the
\* panda the car's safety mode; commands go out while carControl is alive.
CardStep ==
  /\ ~Passive /\ CardInitialized
  /\ controlsReady' = TRUE
  /\ sendcan' = (sendcan \/ ccFresh)
  /\ UNCHANGED <<selfdrivedVars, controlsdVars, stateSocket, eventSocket, controlSocket,
                 pandadVars, notRunning>>

\* pandad, ten times a second: the heartbeat says engaged only while selfdriveState is
\* alive (send_heartbeat).  controlsAllowed is the panda firmware's own verdict, which may change any time.
MutHeartbeatEngaged == selfdriveState.enabled
HeartbeatEngaged == ssFresh /\ selfdriveState.enabled

PandadStep ==
  /\ heartbeat' = HeartbeatEngaged
  /\ pandaStates' \in PandaVerdicts
  /\ UNCHANGED <<selfdrivedVars, controlsdVars, stateSocket, eventSocket, controlSocket,
                 cardVars, notRunning>>

\* managerState lists a process that should run and does not.
MutManagerReport ==
  /\ notRunning' = FALSE
  /\ UNCHANGED <<selfdrivedVars, controlsdVars, stateSocket, eventSocket, controlSocket,
                 cardVars, pandadVars>>
ManagerReport ==
  /\ notRunning' = ~controlsdUp
  /\ UNCHANGED <<selfdrivedVars, controlsdVars, stateSocket, eventSocket, controlSocket,
                 cardVars, pandadVars>>

-----------------------------------------------------------------------------
\* failures

CrashSelfdrived ==
  /\ "selfdrived" \in Happens
  /\ selfdrivedUp /\ selfdrivedUp' = FALSE
  /\ UNCHANGED <<sPc, initialized, state, softDisableTimer, mismatchCounter, events,
                 eventsPrev, CSPrev, softSteps, overrideRun, controlsdVars, stateSocket,
                 eventSocket, controlSocket, cardVars, pandadVars, notRunning>>

CrashControlsd ==
  /\ "controlsd" \in Happens
  /\ controlsdUp /\ controlsdUp' = FALSE
  /\ UNCHANGED <<cPc, cSS, cOverride, selfdrivedVars, stateSocket, eventSocket,
                 controlSocket, cardVars, pandadVars, notRunning>>

\* Ten periods pass without a message: the publisher is dead, or late.
ExpireSelfdriveState ==
  /\ ~selfdrivedUp \/ "late" \in Happens
  /\ ssFresh /\ ssFresh' = FALSE
  /\ UNCHANGED <<selfdriveState, ssUnread, selfdrivedVars, controlsdVars, eventSocket,
                 controlSocket, cardVars, pandadVars, notRunning>>

ExpireCarControl ==
  /\ ~controlsdUp \/ "late" \in Happens
  /\ ccFresh /\ ccFresh' = FALSE
  /\ UNCHANGED <<carControl, selfdrivedVars, controlsdVars, stateSocket, eventSocket,
                 cardVars, pandadVars, notRunning>>

-----------------------------------------------------------------------------

Selfdrived == SelfdrivedStep \/ PublishState \/ PublishEvents
Controlsd == ControlsPoll \/ ControlsRead \/ ControlsPublish

Next ==
  \/ SelfdrivedStep \/ PublishState \/ PublishEvents
  \/ ControlsPoll \/ ControlsRead \/ ControlsPublish
  \/ CardStep \/ PandadStep \/ ManagerReport
  \/ CrashSelfdrived \/ CrashControlsd
  \/ ExpireSelfdriveState \/ ExpireCarControl

Spec == Init /\ [][Next]_vars

\* Every live process runs its loop; a message nobody renews expires.
Fairness ==
  /\ WF_vars(Selfdrived) /\ WF_vars(Controlsd)
  /\ WF_vars(CardStep) /\ WF_vars(PandadStep) /\ WF_vars(ManagerReport)
  /\ WF_vars(~selfdrivedUp /\ ExpireSelfdriveState)
  /\ WF_vars(~controlsdUp /\ ExpireCarControl)

FairSpec == Spec /\ Fairness

-----------------------------------------------------------------------------
\* Properties

\* The values each variable takes (one type invariant, for TLC and as the base of the
\* proofs); softSteps and the timer are bounded by SoftDisableDeadline instead.
TypeOK ==
  /\ {selfdrivedUp, controlsdUp, initialized, ssUnread, ssFresh, onroadSeen,
      ccFresh, sendcan, controlsReady, heartbeat, notRunning} \subseteq BOOLEAN
  /\ sPc \in {"sample", "pubState", "pubEvents"} /\ cPc \in {"poll", "read", "control"}
  /\ state \in States
  /\ softDisableTimer \in 0..SoftDisableTicks
  /\ mismatchCounter \in 0..MismatchLimit
  /\ {events, eventsPrev, onroadEvents} \subseteq SUBSET EventNames
  /\ CSPrev \in CarState
  /\ {selfdriveState, cSS} \subseteq SelfdriveState
  /\ cOverride \in [Axes -> BOOLEAN]
  /\ carControl \in CarControl
  /\ pandaStates \in {"unseen", "allowed", "refused"}
  /\ softSteps \in Nat
  /\ overrideRun \in [Axes -> 0..2]

\* A soft disable runs out: whatever states led to it and however the timer was left by
\* an earlier one, the system spends at most the three seconds of SOFT_DISABLE_TIME in a
\* row soft-disabling (state.py's timer, which is armed on entry and ticks in every state).
SoftDisableDeadline == softSteps <= SoftDisableTicks

\* The panda's refusals are answered: an engaged system has seen fewer than the limit of
\* them, over the whole engagement, although the count is taken in data_sample, the event
\* is raised in update_events and the reset waits for a frame that begins disengaged.
MismatchBound == state \in EnabledStates => mismatchCounter < MismatchLimit

\* An engaged system stands on a live car: the carState it last sampled came from a valid
\* CAN bus and, when the car's cruise is what engages, with the cruise still on -- in
\* every engaged state, preEnabled and softDisabling included.
EngagedOnLiveCar ==
  state \in EnabledStates => CSPrev.canValid /\ (PcmCruise => CSPrev.cruiseEnabled)

\* With no state left unread, the command controlsd last published agrees with
\* selfdrived's decision: controlsd never acts on an older decision than the newest.
CommandFollowsState ==
  ~ssUnread /\ cPc = "poll" =>
    /\ carControl.enabled = selfdriveState.enabled
    /\ carControl.latActive => selfdriveState.active

Commanded(axis) == IF axis = "lateral" THEN carControl.latActive ELSE carControl.longActive

\* The driver's hands and feet win: an axis overridden in two consecutive frames of
\* selfdrived is not actuated by the command controlsd computed from the second of them.
\* The state travels ahead of the events, and the events only when they changed, so one
\* frame of lag is possible and two must not be.
OverrideYields ==
  sPc = "sample" /\ cPc = "poll" /\ ~ssUnread =>
    \A axis \in Axes : overrideRun[axis] = 2 => ~Commanded(axis)

\* Nothing reaches the car, and pandad is not told to leave its initial safety mode,
\* before selfdrived has initialized: card learns it from the absence of an event, in a
\* socket that starts empty.
CarWaitsForSelfdrived == sendcan \/ controlsReady => initialized

\* A controlsd that is dead or late is never driven on: with its carControl timed out, and
\* outside the big model's loading, no frame ends enabled or overriding -- an engagement is
\* soft-disabled and a request refused, although the events of the section before the
\* catch-all may suppress commIssue.  preEnabled alone reads no soft disable: the release
\* of the brake activates the system for the frame in which it happens.
CommLossStandsDown ==
  [][SelfdrivedStep /\ initialized /\ ~ccFresh /\ "loading" \notin Happens
     /\ state # "preEnabled"
       => state' \notin {"enabled", "overriding", "preEnabled"}]_vars

\* A dead controlsd ends the engagement for good, by the soft disable: the state machine
\* comes to rest disengaged, or held in preEnabled by the brake, where nothing is actuated.
ControlsdDeathDisengages ==
  ~controlsdUp ~> [](~selfdrivedUp \/ state \in {"disabled", "preEnabled"})

\* A dead selfdrived leaves its last decision on the socket, and controlsd keeps acting
\* on it; the panda is told to stand down all the same, for good.
SelfdrivedDeathStopsHeartbeat == ~selfdrivedUp ~> []~heartbeat
=============================================================================
