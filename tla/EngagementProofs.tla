-------------------------- MODULE EngagementProofs --------------------------
(***************************************************************************)
(* Proofs about Engagement, for every value of its constants.              *)
(*                                                                         *)
(* The event table comes first: what it takes for a set of events to carry *)
(* a type.  Then the state machine: which updates can leave it engaged.    *)
(* Then the invariants of the composition, each with the strengthening     *)
(* that makes it inductive.  Last, what is left engaged of a car whose     *)
(* controlsd or selfdrived has died.                                       *)
(***************************************************************************)
EXTENDS Engagement, TLAPS

-----------------------------------------------------------------------------
\* The event table

\* EVENTS of events.py, one type at a time.
LEMMA TableEntries ==
  /\ EVENTS["ENABLE"] = EnableNames
  /\ EVENTS["NO_ENTRY"] = NoEntryNames
  /\ EVENTS["USER_DISABLE"] = UserDisableNames
  /\ EVENTS["SOFT_DISABLE"] = SoftDisableNames
  /\ EVENTS["IMMEDIATE_DISABLE"] = ImmediateDisableNames
BY DEF EVENTS

\* One present name of a type is enough for contains.
LEMMA Carries ==
  ASSUME NEW evs, NEW et, NEW name \in evs, name \in EVENTS[et]
  PROVE  contains(evs, et)
BY DEF contains

\* The events selfdrived raises itself carry the types its logic relies on.
LEMMA RaisedTypes ==
  /\ "canError" \in EVENTS["IMMEDIATE_DISABLE"] /\ "canError" \in EVENTS["NO_ENTRY"]
  /\ "controlsMismatch" \in EVENTS["IMMEDIATE_DISABLE"]
  /\ "pcmDisable" \in EVENTS["USER_DISABLE"]
BY TableEntries DEF ImmediateDisableNames, NoEntryNames, UserDisableNames

-----------------------------------------------------------------------------
\* The state machine

\* update yields a state of the machine and a timer within its range.
LEMMA UpdateType ==
  ASSUME NEW s \in States, NEW timer \in 0..SoftDisableTicks, NEW evs
  PROVE  /\ NextState(s, timer, evs) \in States
         /\ NextTimer(s, timer, evs) \in 0..SoftDisableTicks
<1>1. Decremented(timer) \in 0..SoftDisableTicks
  BY SoftDisableTicksAssumption DEF Decremented
<1>2. NextState(s, timer, evs) \in States
  BY DEF NextState, States, EntryState, RunningState, SoftDisablingState
<1>3. NextTimer(s, timer, evs) \in 0..SoftDisableTicks
  BY <1>1, SoftDisableTicksAssumption DEF NextTimer
<1> QED BY <1>2, <1>3

\* An immediate disable or a driver's disable ends every engagement in the same frame.
LEMMA DisableWins ==
  ASSUME NEW s \in States \ {"disabled"}, NEW timer, NEW evs,
         contains(evs, "IMMEDIATE_DISABLE") \/ contains(evs, "USER_DISABLE")
  PROVE  NextState(s, timer, evs) = "disabled"
BY DEF NextState

\* From disabled only an unrefused request leads anywhere.
LEMMA EntryNeedsRequest ==
  ASSUME NEW timer, NEW evs, NextState("disabled", timer, evs) # "disabled"
  PROVE  contains(evs, "ENABLE") /\ ~contains(evs, "NO_ENTRY")
BY DEF NextState

\* softDisabling is entered with the full timer, kept only while the timer lasts, and
\* each frame in it takes one tick.
LEMMA SoftDisabling ==
  ASSUME NEW s \in States, NEW timer \in 0..SoftDisableTicks, NEW evs,
         NextState(s, timer, evs) = "softDisabling"
  PROVE  \/ s # "softDisabling" /\ NextTimer(s, timer, evs) = SoftDisableTicks
         \/ s = "softDisabling" /\ NextTimer(s, timer, evs) = timer - 1 /\ timer > 1
<1>1. CASE s = "softDisabling"
  <2>1. ~(contains(evs, "IMMEDIATE_DISABLE") \/ contains(evs, "USER_DISABLE"))
    BY <1>1 DEF NextState
  <2>2. NextState(s, timer, evs) = SoftDisablingState(Decremented(timer), evs)
    BY <1>1, <2>1 DEF NextState
  <2>3. Decremented(timer) > 0
    BY <2>2 DEF SoftDisablingState
  <2>4. timer > 1 /\ Decremented(timer) = timer - 1
    BY <2>3, SoftDisableTicksAssumption DEF Decremented
  <2>5. NextTimer(s, timer, evs) = Decremented(timer)
    BY <1>1 DEF NextTimer
  <2> QED BY <1>1, <2>4, <2>5
<1>2. CASE s # "softDisabling"
  <2>1. s \in {"enabled", "overriding"}
    BY <1>2 DEF NextState, States, EntryState
  <2> QED BY <1>2, <2>1 DEF NextTimer
<1> QED BY <1>1, <1>2

-----------------------------------------------------------------------------
\* The events of a frame

\* The frame of an initialized, non-passive selfdrived raises canError when the CAN bus is
\* invalid, pcmDisable when a valid one says the cruise is off, and controlsMismatch when
\* the panda has refused too often.
LEMMA FrameRaises ==
  ASSUME ~Passive, NEW in \in FrameInputs, NEW m
  PROVE  /\ ~in.CS.canValid => "canError" \in UpdateEvents(in, TRUE, m)
         /\ in.CS.canValid /\ PcmCruise /\ ~in.CS.cruiseEnabled
              => "pcmDisable" \in UpdateEvents(in, TRUE, m)
         /\ MismatchTooLong(m) => "controlsMismatch" \in UpdateEvents(in, TRUE, m)
BY DEF UpdateEvents, CanEvents, CarEvents, Raise

\* Where the car's cruise engages, nothing but a valid CAN bus with the cruise on
\* requests an engagement.
LEMMA RequestsComeFromTheCar ==
  ASSUME ~Passive, PcmCruise, NEW in \in FrameInputs, NEW m,
         contains(UpdateEvents(in, TRUE, m), "ENABLE")
  PROVE  in.CS.canValid /\ in.CS.cruiseEnabled
<1> DEFINE evs == UpdateEvents(in, TRUE, m)
<1>1. PICK name \in EnableNames : name \in evs
  BY TableEntries DEF contains
<1>2. name \notin in.sys.before /\ name \notin in.CS.flags
  BY EngagementAssumption, EnableSourceAssumption DEF FrameInputs, SystemEvent
<1>3. name \notin in.sys.hardware \cup in.sys.late
  BY EngagementAssumption
     DEF FrameInputs, SystemEvent, HardwareNames, LateNames, LocalizerNames, EnableNames
<1>4. name \in CarEvents(in.CS, CSPrev) /\ in.CS.canValid
  BY <1>1, <1>2, <1>3 DEF UpdateEvents, CanEvents, CommIssue, Raise, EnableNames
<1>5. name \in Raise(in.CS.cruiseEnabled, name)
  BY <1>1, <1>2, <1>4 DEF CarEvents, Raise, EnableNames
<1> QED BY <1>4, <1>5 DEF Raise

\* Every event is a name of the table.
LEMMA FrameEventsAreNames ==
  ASSUME NEW in \in FrameInputs, NEW ready \in BOOLEAN, NEW m
  PROVE  UpdateEvents(in, ready, m) \subseteq EventNames
<1>1. in.sys.before \subseteq EventNames /\ in.CS.flags \subseteq EventNames
  BY EngagementAssumption DEF FrameInputs, CarState, SystemEvent
<1> DEFINE raised == in.sys.hardware \cup in.sys.late
<1>2. raised \subseteq EventNames
  <2>1. raised \subseteq HardwareNames \cup LateNames
    BY EngagementAssumption DEF FrameInputs, SystemEvent
  <2>2. HardwareNames \cup LateNames \subseteq EventNames
    BY DEF HardwareNames, LateNames, LocalizerNames, EventNames, EVENTS, EventTypes,
           SoftDisableNames, ImmediateDisableNames
  <2> QED BY <2>1, <2>2
<1>3. {"selfdriveInitializing", "gasPressedOverride", "preEnableStandstill", "pcmEnable",
       "pcmDisable", "pedalPressed", "controlsMismatch", "processNotRunning", "canError",
       "commIssue"} \subseteq EventNames
  BY DEF EventNames, EVENTS, EventTypes, EnableNames, NoEntryNames, UserDisableNames,
         SoftDisableNames, ImmediateDisableNames
<1> QED BY <1>1, <1>2, <1>3 DEF UpdateEvents, CarEvents, CanEvents, CommIssue, Raise

-----------------------------------------------------------------------------
\* selfdrived's own invariants

\* What the conditions on selfdrived's state rest on: it leaves disabled only when it runs
\* the machine, and the frames and ticks of a soft disable add up.
EngagementInv ==
  /\ state # "disabled" => initialized /\ ~Passive
  /\ state = "softDisabling" => /\ softSteps + softDisableTimer = SoftDisableTicks + 1
                                /\ softDisableTimer > 0
  /\ state # "softDisabling" => softSteps = 0

DecisionInv == TypeOK /\ EngagementInv /\ MismatchBound /\ EngagedOnLiveCar

USE DEF EnabledStates, ActiveStates

LEMMA InitDecision == Init => DecisionInv
<1> SUFFICES ASSUME Init PROVE DecisionInv
  OBVIOUS
<1>1. StateMsg("disabled") \in SelfdriveState /\ NoControl \in CarControl
  BY DEF StateMsg, SelfdriveState, States, NoControl, CarControl
<1>2. DefaultCarState \in CarState
  BY DEF DefaultCarState, CarState
<1>3. TypeOK
  <2>1. cOverride \in [Axes -> BOOLEAN] /\ overrideRun \in [Axes -> 0..2]
    BY DEF Init
  <2>2. softDisableTimer \in 0..SoftDisableTicks /\ mismatchCounter \in 0..MismatchLimit
    BY SoftDisableTicksAssumption, EngagementAssumption DEF Init
  <2>3. {events, eventsPrev, onroadEvents} \subseteq SUBSET EventNames
    BY DEF Init
  <2>4. /\ {selfdriveState, cSS} \subseteq SelfdriveState /\ carControl \in CarControl
        /\ CSPrev \in CarState
    BY <1>1, <1>2 DEF Init
  <2> QED BY <2>1, <2>2, <2>3, <2>4 DEF Init, TypeOK, States
<1>4. EngagementInv /\ MismatchBound /\ EngagedOnLiveCar
  BY DEF Init, EngagementInv, MismatchBound, EngagedOnLiveCar
<1> QED BY <1>3, <1>4 DEF DecisionInv

\* What one frame does to the decision.
LEMMA FrameKeepsDecision ==
  ASSUME DecisionInv, SelfdrivedStep
  PROVE  DecisionInv'
<1>1. PICK in \in FrameInputs, ready \in BOOLEAN :
        /\ initialized' = (initialized \/ ready)
        /\ events' = UpdateEvents(in, initialized \/ ready, NextMismatch)
        /\ state' = IF ~Passive /\ (initialized \/ ready)
                    THEN NextState(state, softDisableTimer, events') ELSE state
        /\ softDisableTimer' = IF ~Passive /\ (initialized \/ ready)
                               THEN NextTimer(state, softDisableTimer, events')
                               ELSE softDisableTimer
        /\ CSPrev' = in.CS
        /\ overrideRun' = [axis \in Axes |->
             IF contains(events', OverrideType(axis))
             THEN IF overrideRun[axis] = 0 THEN 1 ELSE 2
             ELSE 0]
  BY DEF SelfdrivedStep
<1> DEFINE runs == ~Passive /\ (initialized \/ ready)
<1>2. /\ mismatchCounter' = NextMismatch
      /\ softSteps' = IF state' = "softDisabling" THEN softSteps + 1 ELSE 0
      /\ sPc' = "pubState"
      /\ UNCHANGED <<selfdrivedUp, eventsPrev, controlsdVars, stateSocket, eventSocket,
                     controlSocket, cardVars, pandadVars, notRunning>>
  BY DEF SelfdrivedStep
<1>3. /\ state \in States /\ softDisableTimer \in 0..SoftDisableTicks
      /\ initialized \in BOOLEAN /\ Passive \in BOOLEAN
      /\ mismatchCounter \in 0..MismatchLimit /\ softSteps \in Nat
      /\ MismatchLimit \in Nat \ {0} /\ SoftDisableTicks \in Nat \ {0}
  BY EngagementAssumption, SoftDisableTicksAssumption DEF DecisionInv, TypeOK
<1>4. state' \in States /\ softDisableTimer' \in 0..SoftDisableTicks
  BY <1>1, <1>3, UpdateType
<1>5. NextMismatch \in 0..MismatchLimit
  BY <1>3 DEF NextMismatch, DecisionInv, MismatchBound
<1>6. ~runs => state = "disabled" /\ state' = "disabled"
  BY <1>1, <1>3 DEF DecisionInv, EngagementInv
<1>7. EngagementInv'
  <2>1. state' # "disabled" => initialized' /\ ~Passive
    BY <1>1, <1>3 DEF DecisionInv, EngagementInv
  <2>2. ASSUME state' = "softDisabling"
        PROVE  softSteps' + softDisableTimer' = SoftDisableTicks + 1 /\ softDisableTimer' > 0
    <3>1. runs
      BY <1>1, <1>3, <2>2 DEF DecisionInv, EngagementInv
    <3>2. \/ state # "softDisabling" /\ softDisableTimer' = SoftDisableTicks
          \/ /\ state = "softDisabling" /\ softDisableTimer > 1
             /\ softDisableTimer' = softDisableTimer - 1
      BY <1>1, <1>3, <2>2, <3>1, SoftDisabling
    <3>3. softSteps' = softSteps + 1
      BY <1>2, <2>2
    <3> QED BY <1>3, <3>2, <3>3 DEF DecisionInv, EngagementInv
  <2> QED BY <1>2, <2>1, <2>2 DEF EngagementInv
<1>8. ASSUME state' \in EnabledStates
      PROVE  CSPrev'.canValid /\ (PcmCruise => CSPrev'.cruiseEnabled)
             /\ mismatchCounter' < MismatchLimit
  <2>1. events' = UpdateEvents(in, TRUE, NextMismatch) /\ ~Passive
    BY <1>1, <1>6, <1>8
  <2>2. state' = NextState(state, softDisableTimer, events')
    BY <1>1, <1>6, <1>8
  <2>3. state # "disabled" => ~contains(events', "IMMEDIATE_DISABLE")
                              /\ ~contains(events', "USER_DISABLE")
    BY <1>3, <1>8, <2>2, DisableWins
  <2>4. state = "disabled" => contains(events', "ENABLE") /\ ~contains(events', "NO_ENTRY")
    BY <1>8, <2>2, EntryNeedsRequest
  <2>5. in.CS.canValid
    BY <2>1, <2>3, <2>4, FrameRaises, RaisedTypes, Carries
  <2>6. PcmCruise => in.CS.cruiseEnabled
    <3>1. CASE state = "disabled"
      BY <2>1, <2>4, <3>1, RequestsComeFromTheCar
    <3>2. CASE state # "disabled"
      BY <2>1, <2>3, <2>5, <3>2, FrameRaises, RaisedTypes, Carries
    <3> QED BY <3>1, <3>2
  <2>7. NextMismatch < MismatchLimit
    <3>1. CASE state = "disabled"
      BY <1>3, <3>1 DEF NextMismatch
    <3>2. CASE state # "disabled"
      <4>1. ~MismatchTooLong(NextMismatch)
        BY <2>1, <2>3, <3>2, FrameRaises, RaisedTypes, Carries
      <4>2. pandaStates = "refused" => NextMismatch < MismatchLimit
        BY <4>1, <1>3, <1>5 DEF MismatchTooLong
      <4>3. pandaStates # "refused" => NextMismatch = mismatchCounter
        BY <1>3, <3>2 DEF NextMismatch, States
      <4> QED BY <4>2, <4>3, <1>3, <3>2 DEF DecisionInv, MismatchBound, States
    <3> QED BY <3>1, <3>2
  <2> QED BY <1>1, <1>2, <2>5, <2>6, <2>7
<1>9. TypeOK'
  <2>1. events' \subseteq EventNames
    BY <1>1, <1>3, FrameEventsAreNames
  <2>2. CSPrev' \in CarState
    BY <1>1, EngagementAssumption DEF FrameInputs
  <2>3. overrideRun' \in [Axes -> 0..2]
    BY <1>1
  <2>4. softSteps' \in Nat
    BY <1>2, <1>3
  <2> QED BY <1>1, <1>2, <1>3, <1>4, <1>5, <2>1, <2>2, <2>3, <2>4
       DEF DecisionInv, TypeOK, controlsdVars, stateSocket, eventSocket, controlSocket,
           cardVars, pandadVars
<1> QED BY <1>7, <1>8, <1>9 DEF DecisionInv, MismatchBound, EngagedOnLiveCar

\* The variables no other action than a frame writes, in one step of the rest.
LEMMA OthersKeepDecision ==
  ASSUME DecisionInv, [Next]_vars, ~SelfdrivedStep
  PROVE  DecisionInv'
<1> USE DEF DecisionInv, EngagementInv, MismatchBound, EngagedOnLiveCar
<1>1. UNCHANGED <<state, softDisableTimer, softSteps, mismatchCounter, initialized, CSPrev,
                  events, overrideRun>>
  BY DEF Next, PublishState, PublishEvents, ControlsPoll, ControlsRead, ControlsPublish,
         CardStep, PandadStep, ManagerReport, CrashSelfdrived, CrashControlsd,
         ExpireSelfdriveState, ExpireCarControl, vars, selfdrivedVars
<1>2. TypeOK'
  <2> USE <1>1 DEF TypeOK, selfdrivedVars, controlsdVars, stateSocket, eventSocket,
                   controlSocket, cardVars, pandadVars
  <2>1. CASE PublishState
    BY <2>1 DEF PublishState, StateMsg, SelfdriveState
  <2>2. CASE PublishEvents
    BY <2>2 DEF PublishEvents
  <2>3. CASE ControlsPoll
    BY <2>3 DEF ControlsPoll
  <2>4. CASE ControlsRead
    BY <2>4 DEF ControlsRead, contains
  <2>5. CASE ControlsPublish
    <3>1. PICK steerOk \in BOOLEAN : carControl' = StateControl(cSS, cOverride, steerOk)
      BY <2>5 DEF ControlsPublish
    <3>2. Longitudinal \in BOOLEAN
      BY EngagementAssumption
    <3>3. carControl' \in CarControl
      BY <3>1, <3>2 DEF StateControl, CarControl, SelfdriveState, Axes
    <3> QED BY <2>5, <3>3 DEF ControlsPublish
  <2>6. CASE CardStep
    BY <2>6 DEF CardStep
  <2>7. CASE PandadStep
    BY <2>7, EngagementAssumption DEF PandadStep, HeartbeatEngaged, SelfdriveState
  <2>8. CASE ManagerReport
    BY <2>8 DEF ManagerReport
  <2>9. CASE CrashSelfdrived \/ CrashControlsd
    BY <2>9 DEF CrashSelfdrived, CrashControlsd
  <2>10. CASE ExpireSelfdriveState \/ ExpireCarControl
    BY <2>10 DEF ExpireSelfdriveState, ExpireCarControl
  <2>11. CASE UNCHANGED vars
    BY <2>11 DEF vars
  <2> QED BY <2>1, <2>2, <2>3, <2>4, <2>5, <2>6, <2>7, <2>8, <2>9, <2>10, <2>11 DEF Next
<1> QED BY <1>1, <1>2

\* The decision's invariants hold in every reachable state.
THEOREM DecisionInvariant == Spec => []DecisionInv
<1>1. Init => DecisionInv
  BY InitDecision
<1>2. DecisionInv /\ [Next]_vars => DecisionInv'
  BY FrameKeepsDecision, OthersKeepDecision
<1> QED BY <1>1, <1>2, PTL DEF Spec

\* Every variable keeps its type.
THEOREM TypeCorrect == Spec => []TypeOK
<1>1. DecisionInv => TypeOK
  BY DEF DecisionInv
<1> QED BY <1>1, DecisionInvariant, PTL

\* A soft disable lasts at most SoftDisableTicks frames, whatever led to it.
THEOREM SoftDisableEnds == Spec => []SoftDisableDeadline
<1>1. DecisionInv => SoftDisableDeadline
  BY SoftDisableTicksAssumption
     DEF DecisionInv, TypeOK, EngagementInv, SoftDisableDeadline
<1> QED BY <1>1, DecisionInvariant, PTL

\* An engaged system has been refused by the panda fewer times than the limit.
THEOREM RefusalsAreBounded == Spec => []MismatchBound
<1>1. DecisionInv => MismatchBound
  BY DEF DecisionInv
<1> QED BY <1>1, DecisionInvariant, PTL

\* An engaged system last sampled a valid CAN bus, and its cruise on.
THEOREM EngagementNeedsTheCar == Spec => []EngagedOnLiveCar
<1>1. DecisionInv => EngagedOnLiveCar
  BY DEF DecisionInv
<1> QED BY <1>1, DecisionInvariant, PTL

\* A frame whose checks fail, outside the big model's loading, carries an event that refuses
\* and one that ends an engagement: commIssue, or those that suppressed it.
LEMMA FailedChecksShow ==
  ASSUME ~Passive, NEW in \in FrameInputs, NEW m, ~ccFresh, ~in.settling
  PROVE  /\ contains(UpdateEvents(in, TRUE, m), "NO_ENTRY")
         /\ \/ contains(UpdateEvents(in, TRUE, m), "SOFT_DISABLE")
            \/ contains(UpdateEvents(in, TRUE, m), "IMMEDIATE_DISABLE")
<1> DEFINE evs == UpdateEvents(in, TRUE, m)
           base == in.sys.before
                   \cup (IF in.CS.canValid
                         THEN CarEvents(in.CS, CSPrev)
                              \cup Raise(PedalPressed(in.CS, CSPrev, in.gasDisengages),
                                         "pedalPressed")
                         ELSE {})
                   \cup Raise(MismatchTooLong(m), "controlsMismatch")
           hardware == in.sys.hardware
                       \cup Raise(notRunning, "processNotRunning")
                       \cup CanEvents(in.CS)
           checks == ccFresh /\ in.othersOk
<1>1. base \cup hardware \subseteq evs /\ CommIssue(base, hardware, checks, in.settling) \subseteq evs
  BY DEF UpdateEvents
<1>2. ASSUME NEW et, contains(base \cup hardware, et)
      PROVE  contains(evs, et)
  <2> HIDE DEF evs, base, hardware
  <2> QED BY <1>1, <1>2 DEF contains
<1> DEFINE stands == /\ contains(evs, "NO_ENTRY")
                     /\ contains(evs, "SOFT_DISABLE") \/ contains(evs, "IMMEDIATE_DISABLE")
<1>3. ASSUME "commIssue" \in evs PROVE stands
  <2>1. "commIssue" \in SoftDisableNames /\ "commIssue" \in NoEntryNames
    BY DEF SoftDisableNames, NoEntryNames
  <2> HIDE DEF evs
  <2> QED BY <1>3, <2>1, TableEntries, Carries
<1>4. ASSUME "commIssue" \notin evs PROVE stands
  <2> HIDE DEF evs, base, hardware, checks
  <2>1. CommIssue(base, hardware, checks, in.settling) # {"commIssue"}
    BY <1>1, <1>4
  <2>2. ~checks
    BY DEF checks
  <2>3. /\ contains(base \cup hardware, "NO_ENTRY")
        /\ \/ contains(base \cup hardware, "SOFT_DISABLE")
           \/ contains(base \cup hardware, "IMMEDIATE_DISABLE")
    BY <2>1, <2>2 DEF CommIssue, Raise
  <2> QED BY <1>2, <2>3
<1> QED BY <1>3, <1>4

\* With carControl timed out no frame ends actively engaged, whatever else it sees.
THEOREM CommLossDisengages == Spec => CommLossStandsDown
<1>1. ASSUME DecisionInv, SelfdrivedStep, initialized, ~ccFresh, "loading" \notin Happens,
             state # "preEnabled"
      PROVE  state' \notin {"enabled", "overriding", "preEnabled"}
  <2>1. PICK in \in FrameInputs, ready \in BOOLEAN :
          /\ events' = UpdateEvents(in, initialized \/ ready, NextMismatch)
          /\ state' = IF ~Passive /\ (initialized \/ ready)
                      THEN NextState(state, softDisableTimer, events') ELSE state
    BY <1>1 DEF SelfdrivedStep
  <2>2. CASE Passive
    BY <1>1, <2>1, <2>2 DEF DecisionInv, EngagementInv
  <2>3. CASE ~Passive
    <3>1. ~in.settling
      BY <1>1 DEF FrameInputs
    <3>2. (initialized \/ ready) = TRUE
      BY <1>1
    <3>3. events' = UpdateEvents(in, TRUE, NextMismatch)
      BY <2>1, <3>2
    <3>4. /\ contains(events', "NO_ENTRY")
          /\ contains(events', "SOFT_DISABLE") \/ contains(events', "IMMEDIATE_DISABLE")
      BY <1>1, <2>3, <3>1, <3>3, FailedChecksShow
    <3>5. state' = NextState(state, softDisableTimer, events')
      BY <1>1, <2>1, <2>3
    <3>6. state \in States
      BY <1>1 DEF DecisionInv, TypeOK
    <3> QED BY <1>1, <3>4, <3>5, <3>6 DEF NextState, States, RunningState, SoftDisablingState
  <2> QED BY <2>2, <2>3
<1>2. DecisionInv => [SelfdrivedStep /\ initialized /\ ~ccFresh /\ "loading" \notin Happens
                      /\ state # "preEnabled"
                        => state' \notin {"enabled", "overriding", "preEnabled"}]_vars
  BY <1>1
<1> QED BY <1>2, DecisionInvariant, PTL DEF CommLossStandsDown

-----------------------------------------------------------------------------
\* The command follows the decision

\* A state that was read is the one controlsd holds, and between iterations the command
\* is the one computed from it.
CommandInv ==
  /\ ~ssUnread => cSS = selfdriveState
  /\ cPc = "poll" => /\ carControl.enabled = cSS.enabled
                     /\ carControl.latActive => cSS.active

LEMMA CommandInductive ==
  /\ Init => CommandInv
  /\ TypeOK /\ CommandInv /\ [Next]_vars => CommandInv'
<1>1. ASSUME Init PROVE CommandInv
  <2>1. cSS = selfdriveState /\ carControl = NoControl /\ cSS = StateMsg("disabled")
    BY <1>1 DEF Init
  <2>2. ("disabled" \in EnabledStates) = FALSE /\ ("disabled" \in ActiveStates) = FALSE
    OBVIOUS
  <2>3. StateMsg("disabled") = [enabled |-> FALSE, active |-> FALSE, state |-> "disabled"]
    <3> HIDE DEF EnabledStates, ActiveStates
    <3> QED BY <2>2, Zenon DEF StateMsg
  <2>4. cSS.enabled = FALSE
    BY <2>1, <2>3
  <2>5. carControl.enabled = FALSE
    BY <2>1 DEF NoControl
  <2>6. ~carControl.latActive
    BY <2>1 DEF NoControl
  <2> QED BY <2>1, <2>4, <2>5, <2>6 DEF CommandInv
<1>2. ASSUME TypeOK, CommandInv, [Next]_vars
      PROVE  CommandInv'
  <2> USE <1>2 DEF CommandInv, selfdrivedVars, controlsdVars, stateSocket, eventSocket,
                   controlSocket, cardVars, pandadVars
  <2>1. CASE SelfdrivedStep
    BY <2>1 DEF SelfdrivedStep
  <2>2. CASE PublishState \/ PublishEvents
    BY <2>2 DEF PublishState, PublishEvents
  <2>3. CASE ControlsPoll \/ ControlsRead
    BY <2>3 DEF ControlsPoll, ControlsRead
  <2>4. CASE ControlsPublish
    <3>1. PICK steerOk \in BOOLEAN : carControl' = StateControl(cSS, cOverride, steerOk)
      BY <2>4 DEF ControlsPublish
    <3>2. carControl'.enabled = cSS.enabled
      BY <3>1 DEF StateControl
    <3>3. carControl'.latActive = (cSS.active /\ steerOk /\ ~cOverride["lateral"])
      BY <3>1 DEF StateControl
    <3> QED BY <2>4, <3>2, <3>3 DEF ControlsPublish
  <2>5. CASE CardStep \/ PandadStep \/ ManagerReport
    BY <2>5 DEF CardStep, PandadStep, ManagerReport
  <2>6. CASE CrashSelfdrived \/ CrashControlsd
    BY <2>6 DEF CrashSelfdrived, CrashControlsd
  <2>7. CASE ExpireSelfdriveState \/ ExpireCarControl
    BY <2>7 DEF ExpireSelfdriveState, ExpireCarControl
  <2>8. CASE UNCHANGED vars
    BY <2>8 DEF vars
  <2> QED BY <2>1, <2>2, <2>3, <2>4, <2>5, <2>6, <2>7, <2>8 DEF Next
<1> QED BY <1>1, <1>2

\* controlsd never acts on an older decision than the newest it could have read.
THEOREM CommandsFollow == Spec => []CommandFollowsState
<1>1. Init => CommandInv
  BY CommandInductive
<1>2. TypeOK /\ CommandInv /\ [Next]_vars => CommandInv'
  BY CommandInductive
<1>3. CommandInv => CommandFollowsState
  BY DEF CommandInv, CommandFollowsState
<1> QED BY <1>1, <1>2, <1>3, TypeCorrect, PTL DEF Spec

-----------------------------------------------------------------------------
\* Overrides

Overridden(axis) == overrideRun[axis] = 2

\* The events on the socket are the previous frame's until this frame's are sent, so an
\* axis overridden twice in a row is overridden on the socket whenever controlsd looks.
OverrideInv ==
  /\ onroadEvents = eventsPrev
  /\ sPc = "sample" => events = eventsPrev
  /\ \A axis \in Axes :
       /\ overrideRun[axis] # 0 => contains(events, OverrideType(axis))
       /\ Overridden(axis) => contains(onroadEvents, OverrideType(axis))
       /\ sPc # "pubState" /\ ~ssUnread /\ Overridden(axis) =>
            /\ cPc = "control" => cOverride[axis]
            /\ cPc = "poll" => ~Commanded(axis)

LEMMA OverrideInductive ==
  /\ Init => OverrideInv
  /\ TypeOK /\ OverrideInv /\ [Next]_vars => OverrideInv'
<1>1. Init => OverrideInv
  BY DEF Init, OverrideInv, Overridden, Commanded, NoControl
<1>2. ASSUME TypeOK, OverrideInv, [Next]_vars
      PROVE  OverrideInv'
  <2> USE <1>2 DEF OverrideInv, Overridden, selfdrivedVars, controlsdVars, stateSocket,
                   eventSocket, controlSocket, cardVars, pandadVars
  <2>1. CASE SelfdrivedStep
    <3>1. /\ sPc = "sample" /\ sPc' = "pubState"
          /\ overrideRun' = [axis \in Axes |->
               IF contains(events', OverrideType(axis))
               THEN IF overrideRun[axis] = 0 THEN 1 ELSE 2
               ELSE 0]
          /\ UNCHANGED <<eventsPrev, onroadEvents>>
      BY <2>1 DEF SelfdrivedStep
    <3>2. ASSUME NEW axis \in Axes
          PROVE  /\ overrideRun'[axis] # 0 => contains(events', OverrideType(axis))
                 /\ Overridden(axis)' => contains(onroadEvents', OverrideType(axis))
      BY <3>1, <3>2
    <3> QED BY <3>1, <3>2
  <2>2. CASE PublishState
    BY <2>2 DEF PublishState
  <2>3. CASE PublishEvents
    <3>1. /\ sPc = "pubEvents" /\ sPc' = "sample"
          /\ onroadEvents' = events /\ eventsPrev' = events
          /\ UNCHANGED <<events, overrideRun, ssUnread, cPc, cOverride, carControl>>
      BY <2>3 DEF PublishEvents, EventsDue
    <3>2. \A axis \in Axes : Commanded(axis)' = Commanded(axis)
      BY <3>1 DEF Commanded
    <3> QED BY <3>1, <3>2
  <2>4. CASE ControlsPoll
    BY <2>4 DEF ControlsPoll
  <2>5. CASE ControlsRead
    BY <2>5 DEF ControlsRead
  <2>6. CASE ControlsPublish
    <3>1. PICK steerOk \in BOOLEAN : carControl' = StateControl(cSS, cOverride, steerOk)
      BY <2>6 DEF ControlsPublish
    <3>2. \A axis \in Axes : cOverride[axis] => ~Commanded(axis)'
      BY <3>1 DEF StateControl, Commanded, Axes
    <3> QED BY <2>6, <3>2 DEF ControlsPublish
  <2>7. CASE \/ CardStep \/ PandadStep \/ ManagerReport \/ CrashSelfdrived
             \/ CrashControlsd \/ ExpireSelfdriveState \/ ExpireCarControl
             \/ UNCHANGED vars
    <3>1. UNCHANGED <<sPc, events, eventsPrev, onroadEvents, overrideRun, ssUnread, cPc,
                      cOverride, carControl>>
      BY <2>7 DEF CardStep, PandadStep, ManagerReport, CrashSelfdrived, CrashControlsd,
                  ExpireSelfdriveState, ExpireCarControl, vars
    <3> QED BY <3>1 DEF Commanded
  <2> QED BY <2>1, <2>2, <2>3, <2>4, <2>5, <2>6, <2>7 DEF Next
<1> QED BY <1>1, <1>2

\* An axis the driver overrides for two frames is released by the command that follows.
THEOREM OverridesYield == Spec => []OverrideYields
<1>1. Init => OverrideInv
  BY OverrideInductive
<1>2. TypeOK /\ OverrideInv /\ [Next]_vars => OverrideInv'
  BY OverrideInductive
<1>3. OverrideInv => OverrideYields
  BY DEF OverrideInv, OverrideYields, Overridden
<1> QED BY <1>1, <1>2, <1>3, TypeCorrect, PTL DEF Spec

-----------------------------------------------------------------------------
\* Start-up

\* Until selfdrived has initialized, every set of events it computes or has sent says so.
StartupInv ==
  ~initialized =>
    /\ sPc # "sample" => "selfdriveInitializing" \in events
    /\ onroadSeen => "selfdriveInitializing" \in onroadEvents
    /\ ~sendcan /\ ~controlsReady

LEMMA StartupInductive ==
  /\ Init => StartupInv
  /\ TypeOK /\ StartupInv /\ [Next]_vars => StartupInv'
<1>1. Init => StartupInv
  BY DEF Init, StartupInv
<1>2. ASSUME TypeOK, StartupInv, [Next]_vars
      PROVE  StartupInv'
  <2> USE <1>2 DEF StartupInv, selfdrivedVars, controlsdVars, stateSocket, eventSocket,
                   controlSocket, cardVars, pandadVars
  <2>1. CASE SelfdrivedStep
    <3>1. PICK in \in FrameInputs, ready \in BOOLEAN :
            /\ initialized' = (initialized \/ ready)
            /\ events' = UpdateEvents(in, initialized \/ ready, NextMismatch)
      BY <2>1 DEF SelfdrivedStep
    <3>2. ~initialized' => ~initialized /\ "selfdriveInitializing" \in events'
      BY <3>1 DEF UpdateEvents, TypeOK
    <3> QED BY <2>1, <3>2 DEF SelfdrivedStep
  <2>2. CASE PublishState
    BY <2>2 DEF PublishState
  <2>3. CASE PublishEvents
    BY <2>3 DEF PublishEvents, EventsDue
  <2>4. CASE CardStep
    BY <2>4 DEF CardStep, CardInitialized
  <2>5. CASE \/ ControlsPoll \/ ControlsRead \/ ControlsPublish \/ PandadStep
             \/ ManagerReport \/ CrashSelfdrived \/ CrashControlsd
             \/ ExpireSelfdriveState \/ ExpireCarControl \/ UNCHANGED vars
    BY <2>5 DEF ControlsPoll, ControlsRead, ControlsPublish, PandadStep, ManagerReport,
                CrashSelfdrived, CrashControlsd, ExpireSelfdriveState, ExpireCarControl, vars
  <2> QED BY <2>1, <2>2, <2>3, <2>4, <2>5 DEF Next
<1> QED BY <1>1, <1>2

\* Neither the CAN bus nor the panda's safety mode is touched before selfdrived is ready.
THEOREM CarWaits == Spec => []CarWaitsForSelfdrived
<1>1. Init => StartupInv
  BY StartupInductive
<1>2. TypeOK /\ StartupInv /\ [Next]_vars => StartupInv'
  BY StartupInductive
<1>3. StartupInv => CarWaitsForSelfdrived
  BY DEF StartupInv, CarWaitsForSelfdrived
<1> QED BY <1>1, <1>2, <1>3, TypeCorrect, PTL DEF Spec

-----------------------------------------------------------------------------
\* Dead processes: the safety halves of the two liveness properties

\* The frame of an initialized, non-passive selfdrived that was told of a missing process
\* refuses an engagement and soft-disables.
LEMMA MissingProcessShows ==
  ASSUME ~Passive, NEW in \in FrameInputs, NEW m, notRunning
  PROVE  /\ contains(UpdateEvents(in, TRUE, m), "NO_ENTRY")
         /\ contains(UpdateEvents(in, TRUE, m), "SOFT_DISABLE")
<1> DEFINE evs == UpdateEvents(in, TRUE, m)
           hardware == in.sys.hardware
                       \cup Raise(notRunning, "processNotRunning")
                       \cup CanEvents(in.CS)
<1>1. "processNotRunning" \in evs
  <2>1. Raise(notRunning, "processNotRunning") = {"processNotRunning"}
    BY DEF Raise
  <2>2. hardware \subseteq evs
    BY DEF UpdateEvents
  <2> HIDE DEF evs
  <2> QED BY <2>1, <2>2
<1>2. "processNotRunning" \in SoftDisableNames /\ "processNotRunning" \in NoEntryNames
  BY DEF SoftDisableNames, NoEntryNames
<1>3. contains(evs, "NO_ENTRY") /\ contains(evs, "SOFT_DISABLE")
  <2> HIDE DEF evs
  <2> QED BY <1>1, <1>2, TableEntries, Carries
<1> QED BY <1>3

\* Once manager has reported controlsd dead, an engagement only runs down: no request is
\* accepted again, and each frame of an active one soft-disables or ends it, which takes it at
\* most the frames of SoftDisableDeadline (manager.py, update_events, state.py).  preEnabled
\* alone reads no soft disable, and may be active for one frame.
DeadControlsdRunsDown ==
  [][~controlsdUp /\ notRunning =>
       /\ ~controlsdUp' /\ notRunning'
       /\ state = "disabled" => state' = "disabled"
       /\ SelfdrivedStep /\ state \in ActiveStates => state' \in {"softDisabling", "disabled"}]_vars

\* Once selfdrived is dead and its last message has expired, a heartbeat that stands down
\* stands down for good, whatever that message says (send_heartbeat).
DeadSelfdrivedStaysDown ==
  [][~selfdrivedUp /\ ~ssFresh =>
       ~selfdrivedUp' /\ ~ssFresh' /\ (heartbeat' => heartbeat)]_vars

\* The safety half of ControlsdDeathDisengages (process_not_running in selfdrived's events).
THEOREM DeadControlsdEnds == Spec => DeadControlsdRunsDown
<1>1. ASSUME DecisionInv, SelfdrivedStep, notRunning
      PROVE  /\ state = "disabled" => state' = "disabled"
             /\ state \in ActiveStates => state' \in {"softDisabling", "disabled"}
  <2>1. PICK in \in FrameInputs, ready \in BOOLEAN :
          /\ events' = UpdateEvents(in, initialized \/ ready, NextMismatch)
          /\ state' = IF ~Passive /\ (initialized \/ ready)
                      THEN NextState(state, softDisableTimer, events') ELSE state
    BY <1>1 DEF SelfdrivedStep
  <2>2. CASE Passive \/ ~(initialized \/ ready)
    BY <1>1, <2>1, <2>2 DEF DecisionInv, EngagementInv
  <2>3. CASE ~Passive /\ (initialized \/ ready)
    <3>1. (initialized \/ ready) = TRUE
      BY <2>3
    <3>2. events' = UpdateEvents(in, TRUE, NextMismatch)
      BY <2>1, <3>1
    <3>3. contains(events', "NO_ENTRY") /\ contains(events', "SOFT_DISABLE")
      BY <1>1, <2>3, <3>2, MissingProcessShows
    <3>4. state' = NextState(state, softDisableTimer, events')
      BY <2>1, <2>3
    <3> QED BY <3>3, <3>4 DEF NextState, RunningState, SoftDisablingState
  <2> QED BY <2>2, <2>3
<1>2. ASSUME [Next]_vars, ~SelfdrivedStep PROVE state' = state
  BY <1>2 DEF Next, PublishState, PublishEvents, ControlsPoll, ControlsRead, ControlsPublish,
              CardStep, PandadStep, ManagerReport, CrashSelfdrived, CrashControlsd,
              ExpireSelfdriveState, ExpireCarControl, vars, selfdrivedVars
<1>3. ASSUME [Next]_vars, ~controlsdUp, notRunning PROVE ~controlsdUp' /\ notRunning'
  <2> USE DEF controlsdVars
  <2>1. CASE ManagerReport
    BY <1>3, <2>1 DEF ManagerReport
  <2>2. CASE \/ SelfdrivedStep \/ PublishState \/ PublishEvents \/ ControlsPoll \/ ControlsRead
             \/ ControlsPublish \/ CardStep \/ PandadStep \/ CrashSelfdrived \/ CrashControlsd
             \/ ExpireSelfdriveState \/ ExpireCarControl \/ UNCHANGED vars
    <3>1. notRunning' = notRunning /\ (CrashControlsd \/ controlsdUp' = controlsdUp)
      BY <2>2 DEF SelfdrivedStep, PublishState, PublishEvents, ControlsPoll, ControlsRead,
                  ControlsPublish, CardStep, PandadStep, CrashSelfdrived, CrashControlsd,
                  ExpireSelfdriveState, ExpireCarControl, vars
    <3> QED BY <1>3, <3>1 DEF CrashControlsd
  <2> QED BY <1>3, <2>1, <2>2 DEF Next
<1>4. DecisionInv /\ [Next]_vars
        => [~controlsdUp /\ notRunning =>
              /\ ~controlsdUp' /\ notRunning'
              /\ state = "disabled" => state' = "disabled"
              /\ SelfdrivedStep /\ state \in ActiveStates
                   => state' \in {"softDisabling", "disabled"}]_vars
  BY <1>1, <1>2, <1>3
<1> QED BY <1>4, DecisionInvariant, PTL DEF Spec, DeadControlsdRunsDown

\* The safety half of SelfdrivedDeathStopsHeartbeat (pandad's send_heartbeat).
THEOREM DeadSelfdrivedEnds == Spec => DeadSelfdrivedStaysDown
<1>1. ASSUME [Next]_vars, ~selfdrivedUp, ~ssFresh
      PROVE  ~selfdrivedUp' /\ ~ssFresh' /\ (heartbeat' => heartbeat)
  <2> USE DEF selfdrivedVars, stateSocket, pandadVars
  <2>1. CASE PandadStep
    BY <1>1, <2>1 DEF PandadStep, HeartbeatEngaged
  <2>2. CASE SelfdrivedStep \/ PublishState \/ PublishEvents \/ CrashSelfdrived \/ ExpireSelfdriveState
    BY <1>1, <2>2 DEF SelfdrivedStep, PublishState, PublishEvents, CrashSelfdrived,
                      ExpireSelfdriveState
  <2>3. CASE \/ ControlsPoll \/ ControlsRead \/ ControlsPublish \/ CardStep \/ ManagerReport
             \/ CrashControlsd \/ ExpireCarControl \/ UNCHANGED vars
    <3>1. UNCHANGED <<selfdrivedUp, ssFresh, heartbeat>>
      BY <2>3 DEF ControlsPoll, ControlsRead, ControlsPublish, CardStep, ManagerReport,
                  CrashControlsd, ExpireCarControl, vars
    <3> QED BY <1>1, <3>1
  <2> QED BY <1>1, <2>1, <2>2, <2>3 DEF Next
<1>2. [Next]_vars
        => [~selfdrivedUp /\ ~ssFresh =>
              ~selfdrivedUp' /\ ~ssFresh' /\ (heartbeat' => heartbeat)]_vars
  BY <1>1
<1> QED BY <1>2, PTL DEF Spec, DeadSelfdrivedStaysDown
=============================================================================
