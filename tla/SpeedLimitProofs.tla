-------------------------- MODULE SpeedLimitProofs --------------------------
(***************************************************************************)
(* Proofs about SpeedLimit, for every map, every set of limits and every   *)
(* length of a long press: its types, the debounce of the road, the target *)
(* that an engagement begins with, and, where every match succeeds, that a *)
(* nudge of the driver stands; and that the target of a speedlimitd that   *)
(* died does not come back.                                                *)
(***************************************************************************)
EXTENDS SpeedLimit, TLAPS

-----------------------------------------------------------------------------
\* The helper's operators

\* Whatever a button or a map asks for, the set speed stays within its limits.
LEMMA ClipRange ==
  ASSUME NEW v \in Int
  PROVE  Clip(v) \in MinSpeed..MaxSpeed
BY CruiseAssumption DEF Clip

\* A press moves an integer to an integer, rounding included.
LEMMA MovedType ==
  ASSUME NEW v \in Nat, NEW button, NEW long \in BOOLEAN
  PROVE  Moved(v, button, long) \in Int
<1> DEFINE step == IF long THEN LongStep * Increment ELSE Increment
<1>1. LongStep * Increment \in Int
  BY CruiseAssumption
<1>2. step \in Int
  BY <1>1, CruiseAssumption
<1>3. LongStep * Increment > 0
  BY CruiseAssumption
<1>4. step > 0
  BY <1>3, CruiseAssumption
<1> HIDE DEF step
<1>5. v \div step \in Int /\ v \div step + 1 \in Int
  BY <1>2, <1>4
<1>6. step * (v \div step) \in Int /\ step * (v \div step + 1) \in Int
  BY <1>2, <1>5
<1>7. v + step \in Int /\ v - step \in Int
  BY <1>2
<1>8. Moved(v, button, long)
        \in {step * (v \div step + 1), step * (v \div step), v + step, v - step}
  BY DEF Moved, step
<1> QED BY <1>6, <1>7, <1>8

\* A frame's inputs, as far as the types need them.
FrameInput(in) ==
  /\ in.event \in ButtonEvent /\ in.floor \in Nat /\ in.initial \in MinSpeed..MaxSpeed

LEMMA ButtonsType ==
  ASSUME NEW h \in Helper, NEW in, FrameInput(in), NEW on \in BOOLEAN
  PROVE  AfterButtons(h, in, on) \in Helper
<1> DEFINE button == Acting(h, in.event)
           long == in.event.button = "none" \/ in.event.pressed
           moved == Moved(h.v, button, long)
           raised == IF button = "decel" /\ moved < in.floor THEN in.floor ELSE moved
<1>1. long \in BOOLEAN
  BY DEF FrameInput, ButtonEvent, NoEvent
<1>2. h.v \in Nat
  BY CruiseAssumption DEF Helper, SetSpeeds
<1>3. moved \in Int
  BY <1>1, <1>2, MovedType
<1>4. raised \in Int
  BY <1>3 DEF FrameInput
<1>5. Clip(raised) \in SetSpeeds
  BY <1>4, ClipRange DEF SetSpeeds
<1>6. AfterButtons(h, in, on) \in {h, [h EXCEPT !.v = Clip(raised)]}
  BY DEF AfterButtons
<1>7. [h EXCEPT !.v = Clip(raised)] \in Helper
  BY <1>5 DEF Helper
<1> QED BY <1>6, <1>7

LEMMA TimersType ==
  ASSUME NEW h \in Helper, NEW event \in ButtonEvent, NEW on \in BOOLEAN
  PROVE  AfterTimers(h, event, on) \in Helper
<1> DEFINE counted == [b \in Buttons |-> IF h.timer[b] = 0 THEN 0
                                         ELSE IF h.timer[b] = 2 * LongPress THEN LongPress + 1
                                         ELSE h.timer[b] + 1]
<1>1. counted \in [Buttons -> 0..(2 * LongPress)]
  BY CruiseAssumption DEF Helper
<1>2. [h EXCEPT !.timer = counted] \in Helper
  BY <1>1 DEF Helper
<1> HIDE DEF counted
<1>3. ASSUME event.button \in Buttons
      PROVE  [h EXCEPT !.timer = [counted EXCEPT ![event.button] = IF event.pressed THEN 1 ELSE 0],
                       !.enabledAtPress[event.button] = on] \in Helper
  <2>1. [counted EXCEPT ![event.button] = IF event.pressed THEN 1 ELSE 0]
          \in [Buttons -> 0..(2 * LongPress)]
    BY <1>1, <1>3, CruiseAssumption
  <2>2. [h.enabledAtPress EXCEPT ![event.button] = on] \in [Buttons -> BOOLEAN]
    BY <1>3 DEF Helper
  <2> QED BY <2>1, <2>2 DEF Helper
<1> QED BY <1>2, <1>3 DEF AfterTimers, counted

\* The helper of a frame before the map's target is applied.
Driven(h, in, on, engages) ==
  LET updated == UpdateVCruise(h, in, on)
  IN IF engages THEN InitializeVCruise(updated, h.v, in) ELSE updated

\* The driver's part keeps the helper well formed and the applied target as it is.
LEMMA DrivenType ==
  ASSUME NEW h \in Helper, NEW in, FrameInput(in), NEW on \in BOOLEAN,
         NEW engages \in BOOLEAN
  PROVE  /\ Driven(h, in, on, engages) \in Helper
         /\ Driven(h, in, on, engages).target = h.target
<1> DEFINE updated == UpdateVCruise(h, in, on)
<1>1. updated \in Helper /\ updated.target = h.target
  <2>1. [h EXCEPT !.v = Unset] \in Helper /\ [h EXCEPT !.v = Unset].target = h.target
    BY DEF Helper, SetSpeeds
  <2>2. /\ AfterButtons(h, in, on) \in Helper
        /\ AfterTimers(AfterButtons(h, in, on), in.event, on) \in Helper
    BY ButtonsType, TimersType DEF FrameInput
  <2>3. AfterButtons(h, in, on).target = h.target
    BY DEF AfterButtons, Helper
  <2>4. AfterTimers(AfterButtons(h, in, on), in.event, on).target
          = AfterButtons(h, in, on).target
    BY <2>2 DEF AfterTimers, Helper
  <2> QED BY <2>1, <2>2, <2>3, <2>4 DEF UpdateVCruise
<1> HIDE DEF updated
<1>2. /\ InitializeVCruise(updated, h.v, in) \in Helper
      /\ InitializeVCruise(updated, h.v, in).target = h.target
  <2>1. h.v \in SetSpeeds /\ in.initial \in SetSpeeds
    BY DEF Helper, SetSpeeds, FrameInput
  <2> QED BY <1>1, <2>1 DEF InitializeVCruise, Helper
<1> QED BY <1>1, <1>2 DEF Driven, updated

LEMMA FrameIsDriven ==
  ASSUME NEW h, NEW in, NEW target, NEW on, NEW engages
  PROVE  CruiseFrame(h, in, target, on, engages)
           = ApplySpeedLimitTarget(Driven(h, in, on, engages), target, on)
BY DEF CruiseFrame, Driven

\* What applying a target does: nothing to the types; nothing is left of one that may not
\* apply; a new one that may is the set speed, clipped.
LEMMA Applied ==
  ASSUME NEW h \in Helper, NEW target \in Nat \cup {NoTarget}, NEW on \in BOOLEAN
  PROVE  LET after == ApplySpeedLimitTarget(h, target, on)
         IN /\ after \in Helper
            /\ ~on => after.target = NoTarget
            /\ on /\ target \notin {NoTarget, h.target} /\ after.v # Unset
                 => after.v = Clip(target)
<1> DEFINE after == ApplySpeedLimitTarget(h, target, on)
<1>1. CASE target = NoTarget \/ ~on \/ h.v = Unset
  <2>1. after = [h EXCEPT !.target = NoTarget]
    BY <1>1 DEF ApplySpeedLimitTarget
  <2>2. after \in Helper /\ after.target = NoTarget /\ after.v = h.v
    BY <2>1 DEF Helper
  <2> QED BY <1>1, <2>2
<1>2. CASE ~(target = NoTarget \/ ~on \/ h.v = Unset) /\ target = h.target
  BY <1>2 DEF ApplySpeedLimitTarget
<1>3. CASE ~(target = NoTarget \/ ~on \/ h.v = Unset) /\ target # h.target
  <2>1. target \in Nat /\ Clip(target) \in SetSpeeds
    BY <1>3, ClipRange DEF SetSpeeds
  <2>2. after = [h EXCEPT !.target = target, !.v = Clip(target)]
    BY <1>3 DEF ApplySpeedLimitTarget
  <2>3. after \in Helper /\ after.v = Clip(target)
    BY <2>1, <2>2 DEF Helper
  <2> QED BY <1>3, <2>3
<1> QED BY <1>1, <1>2, <1>3

\* One card frame keeps the helper well formed, whatever the driver and the map do.
LEMMA FrameType ==
  ASSUME NEW h \in Helper, NEW in, FrameInput(in), NEW target \in Nat \cup {NoTarget},
         NEW on \in BOOLEAN, NEW engages \in BOOLEAN
  PROVE  CruiseFrame(h, in, target, on, engages) \in Helper
BY DrivenType, FrameIsDriven, Applied

-----------------------------------------------------------------------------
\* Types

\* A payload names a target of some road, or none.
LEMMA PayloadTargets ==
  ASSUME NEW p \in Payload
  PROVE  p.target \in Nat \cup {NoTarget}
BY SpeedLimitAssumption DEF Payload, NoPayload

LEMMA TargetType == TypeOK => Target \in Nat \cup {NoTarget}
BY PayloadTargets DEF TypeOK, Target

LEMMA FramesAreInputs ==
  ASSUME TypeOK, NEW in \in CarFrames
  PROVE  FrameInput(in)
<1>1. in.event \in ButtonEvents /\ in.floor \in Floors /\ in.initial \in Initials
  BY DEF CarFrames
<1>2. held \in Buttons \cup {"none"} /\ Pressable \subseteq Buttons
  BY SpeedLimitAssumption DEF TypeOK
<1>3. ButtonEvents \subseteq ButtonEvent
  <2>1. \A b \in Buttons : \A p \in BOOLEAN :
          [button |-> b, pressed |-> p] \in [button: Buttons, pressed: BOOLEAN]
    OBVIOUS
  <2>2. CASE held = "none"
    BY <1>2, <2>1, <2>2 DEF ButtonEvents, ButtonEvent
  <2>3. CASE held # "none"
    BY <1>2, <2>1, <2>3 DEF ButtonEvents, ButtonEvent
  <2> QED BY <2>2, <2>3
<1>4. Floors \subseteq Nat /\ Initials \subseteq MinSpeed..MaxSpeed
  BY SpeedLimitAssumption, CruiseAssumption
<1> QED BY <1>1, <1>3, <1>4 DEF FrameInput

LEMMA InitType == Init => TypeOK
<1> SUFFICES ASSUME Init PROVE TypeOK
  OBVIOUS
<1>1. NewHelper \in Helper
  BY CruiseAssumption DEF NewHelper, Helper, SetSpeeds
<1>2. NoPayload \in Payload
  BY DEF Payload
<1>3. 0 \in 0..MaxMisses
  BY SpeedLimitAssumption
<1> QED BY <1>1, <1>2, <1>3 DEF Init, TypeOK

LEMMA StepType == TypeOK /\ [Next]_vars => TypeOK'
<1> SUFFICES ASSUME TypeOK, [Next]_vars PROVE TypeOK'
  OBVIOUS
<1> USE DEF speedlimitdVars, socketVars, cardVars
<1>1. CASE Tick
  <2>1. PICK f \in Fixes :
          /\ f = NoWay => misses < MaxMisses
          /\ fix' = f
          /\ IF f = NoFix
             THEN payload' = NoPayload /\ UNCHANGED <<wayIdx, pendingWay, lastMatch, misses>>
             ELSE /\ Track(f)
                  /\ IF wayIdx' = NoWay THEN payload' = NoPayload
                     ELSE \E t \in Targets[wayIdx'] : payload' = [way |-> wayIdx', target |-> t]
    BY <1>1 DEF Tick
  <2>2. fix' \in Ways \cup {NoWay, NoFix}
    BY <2>1, SpeedLimitAssumption
  <2>3. CASE f = NoFix
    <3>1. payload' \in Payload
      BY <2>1, <2>3 DEF Payload
    <3> QED BY <1>1, <2>1, <2>2, <2>3, <3>1 DEF Tick, TypeOK
  <2>4. CASE f # NoFix
    <3>1. f \in Ways \cup {NoWay}
      BY <2>4, SpeedLimitAssumption
    <3>2. {wayIdx', pendingWay', lastMatch'} \subseteq Ways \cup {NoWay}
      BY <2>1, <2>4, <3>1 DEF Track, Accepted, Pending, TypeOK
    <3>3. misses' \in 0..MaxMisses
      BY <2>1, <2>4, SpeedLimitAssumption DEF Track, TypeOK
    <3>4. payload' \in Payload
      <4>1. CASE wayIdx' = NoWay
        BY <2>1, <2>4, <4>1 DEF Payload
      <4>2. CASE wayIdx' # NoWay
        <5>1. wayIdx' \in Ways
          BY <3>2, <4>2
        <5>2. PICK t \in Targets[wayIdx'] : payload' = [way |-> wayIdx', target |-> t]
          BY <2>1, <2>4, <4>2
        <5> QED BY <5>1, <5>2 DEF Payload
      <4> QED BY <4>1, <4>2
    <3> QED BY <1>1, <2>2, <3>2, <3>3, <3>4 DEF Tick, TypeOK
  <2> QED BY <2>3, <2>4
<1>2. CASE CrashSpeedlimitd
  BY <1>2 DEF CrashSpeedlimitd, TypeOK
<1>3. CASE Expire
  BY <1>3 DEF Expire, TypeOK
<1>4. CASE CardStep
  <2>1. PICK in \in CarFrames, resume \in {FALSE, held = "none"} :
          /\ helper' = CruiseFrame(helper, in, Target, enabled, enabled /\ ~ccPrev)
          /\ held' = IF in.event = NoEvent THEN held
                     ELSE IF in.event.pressed THEN in.event.button ELSE "none"
          /\ available' = in.available
          /\ resumed' = (~enabled /\ (in.event.button = "accel" \/ resume))
    BY <1>4 DEF CardStep
  <2>2. FrameInput(in) /\ in.available \in BOOLEAN
    BY FramesAreInputs DEF CarFrames, TypeOK
  <2>3. helper' \in Helper
    BY <2>1, <2>2, FrameType, TargetType DEF TypeOK
  <2>4. held' \in Buttons \cup {"none"}
    BY <2>1, <2>2 DEF FrameInput, ButtonEvent, TypeOK
  <2>5. cardTarget' \in Nat \cup {NoTarget}
    BY <1>4, TargetType DEF CardStep
  <2>6. taken' \in Nat \cup {NoTarget}
    BY <1>4, <2>3 DEF CardStep, TypeOK, Helper
  <2> QED BY <1>4, <2>1, <2>2, <2>3, <2>4, <2>5, <2>6 DEF CardStep, TypeOK
<1>5. CASE SettingChanges
  BY <1>5 DEF SettingChanges, TypeOK
<1>6. CASE Engage
  BY <1>6 DEF Engage, TypeOK
<1>7. CASE Disengage
  BY <1>7 DEF Disengage, TypeOK
<1>8. CASE UNCHANGED vars
  BY <1>8 DEF vars, TypeOK
<1> QED BY <1>1, <1>2, <1>3, <1>4, <1>5, <1>6, <1>7, <1>8 DEF Next

\* Type correctness, for every map and every unit of speed: the set speed of the
\* cruise helper never leaves its limits, whatever targets the map names.
THEOREM TypeCorrect == Spec => []TypeOK
BY InitType, StepType, PTL DEF Spec

-----------------------------------------------------------------------------
\* The debounce

\* A road that waits to be confirmed is the one the last match found.  A gap of the GPS
\* leaves both as they are.
PendingInv == pendingWay # NoWay => lastMatch = pendingWay

LEMMA PendingInductive ==
  /\ Init => PendingInv
  /\ PendingInv /\ [Next]_vars => PendingInv'
<1>1. Init => PendingInv
  BY DEF Init, PendingInv
<1>2. ASSUME PendingInv, [Next]_vars PROVE PendingInv'
  <2> USE DEF speedlimitdVars, socketVars, cardVars
  <2>1. CASE Tick
    <3>1. \/ UNCHANGED <<pendingWay, lastMatch>>
          \/ \E f \in Fixes : Track(f)
      BY <2>1 DEF Tick
    <3> QED BY <1>2, <3>1 DEF Track, Pending, PendingInv
  <2>2. CASE ~Tick
    <3>1. UNCHANGED <<pendingWay, lastMatch>>
      BY <1>2, <2>2 DEF Next, CrashSpeedlimitd, Expire, CardStep, SettingChanges, Engage,
                        Disengage, vars
    <3> QED BY <1>2, <3>1 DEF PendingInv
  <2> QED BY <2>1, <2>2
<1> QED BY <1>1, <1>2

\* speedlimitd adopts another road only when two matches in a row found it, whatever
\* roads, misses and gaps came before.
THEOREM RoadSeenTwice == Spec => TwoSightings
<1>1. PendingInv /\ [Next]_vars
        => [wayIdx' # wayIdx /\ wayIdx' # NoWay
              => lastMatch = wayIdx' /\ lastMatch' = wayIdx']_vars
  <2> SUFFICES ASSUME PendingInv, [Next]_vars, wayIdx' # wayIdx, wayIdx' # NoWay
               PROVE  lastMatch = wayIdx' /\ lastMatch' = wayIdx'
    OBVIOUS
  <2>1. PICK f \in Fixes : Track(f)
    BY DEF Next, Tick, CrashSpeedlimitd, Expire, CardStep, SettingChanges, Engage,
           Disengage, vars, speedlimitdVars, socketVars, cardVars
  <2>2. wayIdx' = f /\ f = pendingWay /\ lastMatch' = f
    BY <2>1 DEF Track, Accepted
  <2> QED BY <2>2 DEF PendingInv
<1> QED BY <1>1, PendingInductive, PTL DEF Spec, TwoSightings

-----------------------------------------------------------------------------
\* Engaging

\* card forgets the target it applied in the first frame that is not engaged.
ForgottenInv == ~ccPrev => helper.target = NoTarget

LEMMA ForgottenInductive ==
  /\ Init => ForgottenInv
  /\ TypeOK /\ ForgottenInv /\ [Next]_vars => ForgottenInv'
<1>1. Init => ForgottenInv
  BY DEF Init, ForgottenInv, NewHelper
<1>2. ASSUME TypeOK, ForgottenInv, [Next]_vars PROVE ForgottenInv'
  <2> USE DEF speedlimitdVars, socketVars, cardVars
  <2>1. CASE CardStep
    <3>1. PICK in \in CarFrames :
            helper' = CruiseFrame(helper, in, Target, enabled, enabled /\ ~ccPrev)
      BY <2>1 DEF CardStep
    <3> DEFINE driven == Driven(helper, in, enabled, enabled /\ ~ccPrev)
    <3>2. driven \in Helper
      BY <1>2, FramesAreInputs, DrivenType DEF TypeOK
    <3>3. helper' = ApplySpeedLimitTarget(driven, Target, enabled)
      BY <3>1, FrameIsDriven
    <3>4. ~enabled => helper'.target = NoTarget
      BY <1>2, <3>2, <3>3, Applied, TargetType DEF TypeOK
    <3> QED BY <2>1, <3>4 DEF CardStep, ForgottenInv
  <2>2. CASE ~CardStep
    <3>1. UNCHANGED <<helper, ccPrev>>
      BY <1>2, <2>2 DEF Next, Tick, CrashSpeedlimitd, Expire, SettingChanges, Engage,
                        Disengage, vars
    <3> QED BY <1>2, <3>1 DEF ForgottenInv
  <2> QED BY <2>1, <2>2
<1> QED BY <1>1, <1>2

\* The first frame of an engagement takes the target of the road the car is on, whatever
\* an earlier engagement left behind: the applied target was forgotten when it ended.
THEOREM EngagementTakesTarget == Spec => EngageTakesTarget
<1>1. TypeOK /\ ForgottenInv /\ [Next]_vars
        => [~ccPrev /\ ccPrev' /\ cardTarget' # NoTarget /\ helper'.v # Unset
              => helper'.v = Clip(cardTarget')]_vars
  <2> SUFFICES ASSUME TypeOK, ForgottenInv, [Next]_vars, ~ccPrev, ccPrev',
                      cardTarget' # NoTarget, helper'.v # Unset
               PROVE  helper'.v = Clip(cardTarget')
    OBVIOUS
  <2>1. CardStep
    BY DEF Next, Tick, CrashSpeedlimitd, Expire, SettingChanges, Engage, Disengage, vars,
           cardVars
  <2>2. PICK in \in CarFrames :
          helper' = CruiseFrame(helper, in, Target, enabled, enabled /\ ~ccPrev)
    BY <2>1 DEF CardStep
  <2>3. enabled /\ cardTarget' = Target
    BY <2>1 DEF CardStep
  <2> DEFINE driven == Driven(helper, in, enabled, enabled /\ ~ccPrev)
  <2>4. driven \in Helper /\ driven.target = NoTarget
    <3>1. helper \in Helper /\ helper.target = NoTarget
      BY DEF TypeOK, ForgottenInv
    <3>2. FrameInput(in) /\ enabled \in BOOLEAN /\ (enabled /\ ~ccPrev) \in BOOLEAN
      BY FramesAreInputs DEF TypeOK
    <3> QED BY <3>1, <3>2, DrivenType
  <2>5. helper' = ApplySpeedLimitTarget(driven, Target, enabled)
    BY <2>2, FrameIsDriven
  <2> HIDE DEF driven
  <2> QED BY <2>3, <2>4, <2>5, Applied, TargetType DEF TypeOK
<1> QED BY <1>1, ForgottenInductive, TypeCorrect, PTL DEF Spec, EngageTakesTarget

-----------------------------------------------------------------------------
\* The driver's own setting

\* With the main switch on the driver's part sets a speed and keeps it set; with the switch off
\* it unsets it.
LEMMA DrivenSpeed ==
  ASSUME NEW h \in Helper, NEW in, FrameInput(in), NEW on \in BOOLEAN, NEW engages \in BOOLEAN
  PROVE  /\ in.available /\ h.v # Unset => Driven(h, in, on, engages).v # Unset
         /\ ~in.available /\ ~engages => Driven(h, in, on, engages).v = Unset
<1> DEFINE buttons == AfterButtons(h, in, on)
           timers == AfterTimers(buttons, in.event, on)
           updated == UpdateVCruise(h, in, on)
<1>1. /\ \A v \in MinSpeed..MaxSpeed : v # Unset
      /\ in.initial # Unset
  BY CruiseAssumption DEF FrameInput
<1>2. h.v # Unset => buttons.v # Unset
  <2>1. buttons = h \/ \E v \in Int : buttons = [h EXCEPT !.v = Clip(v)]
    <3> DEFINE button == Acting(h, in.event)
               long == in.event.button = "none" \/ in.event.pressed
               moved == Moved(h.v, button, long)
               raised == IF button = "decel" /\ moved < in.floor THEN in.floor ELSE moved
    <3>1. long \in BOOLEAN /\ h.v \in Nat
      BY CruiseAssumption DEF FrameInput, ButtonEvent, NoEvent, Helper, SetSpeeds
    <3>2. moved \in Int
      BY <3>1, MovedType
    <3>3. raised \in Int
      BY <3>2 DEF FrameInput
    <3>4. buttons \in {h, [h EXCEPT !.v = Clip(raised)]}
      BY DEF AfterButtons
    <3> QED BY <3>3, <3>4
  <2>2. \A v \in Int : [h EXCEPT !.v = Clip(v)].v = Clip(v) /\ Clip(v) # Unset
    BY <1>1, ClipRange DEF Helper
  <2> QED BY <2>1, <2>2
<1>3. buttons \in Helper
  BY ButtonsType
<1>4. timers.v = buttons.v
  <2> HIDE DEF buttons
  <2> QED BY <1>3 DEF AfterTimers, Helper
<1>5. /\ in.available => updated = timers
      /\ ~in.available => updated = [h EXCEPT !.v = Unset]
  BY DEF UpdateVCruise
<1>6. [h EXCEPT !.v = Unset].v = Unset
  BY DEF Helper
<1>7. updated \in Helper
  <2>1. [h EXCEPT !.v = Unset] \in Helper
    BY DEF Helper, SetSpeeds
  <2>2. timers \in Helper
    BY <1>3, TimersType DEF FrameInput
  <2> QED BY <1>5, <2>1, <2>2
<1> HIDE DEF buttons, timers, updated
<1>8. h.v # Unset => InitializeVCruise(updated, h.v, in).v # Unset
  BY <1>1, <1>7 DEF InitializeVCruise, Helper
<1>9. Driven(h, in, on, engages)
        = IF engages THEN InitializeVCruise(updated, h.v, in) ELSE updated
  BY DEF Driven, updated
<1> QED BY <1>2, <1>4, <1>5, <1>6, <1>8, <1>9

\* When a target is the applied one after a frame.
LEMMA AppliedTarget ==
  ASSUME NEW h \in Helper, NEW target \in Nat \cup {NoTarget}, NEW on \in BOOLEAN
  PROVE  LET after == ApplySpeedLimitTarget(h, target, on)
         IN IF target # NoTarget /\ on /\ h.v # Unset
            THEN after.target = target /\ after.v # Unset
            ELSE after.target = NoTarget
<1> DEFINE after == ApplySpeedLimitTarget(h, target, on)
<1>1. CASE target = NoTarget \/ ~on \/ h.v = Unset
  <2>1. after = [h EXCEPT !.target = NoTarget]
    BY <1>1 DEF ApplySpeedLimitTarget
  <2>2. after.target = NoTarget
    BY <2>1 DEF Helper
  <2> QED BY <1>1, <2>2
<1>2. CASE ~(target = NoTarget \/ ~on \/ h.v = Unset) /\ target = h.target
  BY <1>2 DEF ApplySpeedLimitTarget
<1>3. CASE ~(target = NoTarget \/ ~on \/ h.v = Unset) /\ target # h.target
  <2>1. target \in Nat /\ Clip(target) # Unset
    BY <1>3, ClipRange, CruiseAssumption
  <2>2. after = [h EXCEPT !.target = target, !.v = Clip(target)]
    BY <1>3 DEF ApplySpeedLimitTarget
  <2>3. after.target = target /\ after.v = Clip(target)
    BY <2>2 DEF Helper
  <2> QED BY <1>3, <2>1, <2>3
<1> QED BY <1>1, <1>2, <1>3

\* The payload is of the road speedlimitd is on, and card's target comes from a payload.
MapInv ==
  /\ wayIdx # NoWay <=> payload.target # NoTarget
  /\ cardTarget # NoTarget => wayIdx # NoWay

\* The target taken in this engagement is the applied one, and card keeps getting a target,
\* unless the map is dead or the main switch off for the rest of the engagement.
TakenInv ==
  taken # NoTarget =>
    /\ ccPrev
    /\ \/ ~available
       \/ ~up /\ ~fresh
       \/ /\ helper.target = taken /\ helper.v # Unset
          /\ fresh /\ wayIdx # NoWay /\ (unread \/ cardTarget # NoTarget)

NudgeInv == MapInv /\ TakenInv

\* One frame of card, in its parts.
LEMMA CardFrame ==
  ASSUME TypeOK, CardStep
  PROVE  \E in \in CarFrames, driven \in Helper :
           /\ helper' = ApplySpeedLimitTarget(driven, Target, enabled)
           /\ driven.target = helper.target
           /\ in.available /\ helper.v # Unset => driven.v # Unset
           /\ ~in.available /\ ~(enabled /\ ~ccPrev) => driven.v = Unset
           /\ available' = in.available
<1>1. PICK in \in CarFrames :
        /\ helper' = CruiseFrame(helper, in, Target, enabled, enabled /\ ~ccPrev)
        /\ available' = in.available
  BY DEF CardStep
<1>2. /\ FrameInput(in) /\ helper \in Helper
      /\ enabled \in BOOLEAN /\ (enabled /\ ~ccPrev) \in BOOLEAN
  BY FramesAreInputs DEF TypeOK
<1> DEFINE driven == Driven(helper, in, enabled, enabled /\ ~ccPrev)
<1>3. driven \in Helper /\ driven.target = helper.target
  BY <1>2, DrivenType
<1>4. /\ in.available /\ helper.v # Unset => driven.v # Unset
      /\ ~in.available /\ ~(enabled /\ ~ccPrev) => driven.v = Unset
  BY <1>2, DrivenSpeed
<1>5. helper' = ApplySpeedLimitTarget(driven, Target, enabled)
  BY <1>1, FrameIsDriven
<1> QED BY <1>1, <1>3, <1>4, <1>5

\* With a match in every turn a road once found is never lost.
LEMMA TickKeepsNudge ==
  ASSUME Fixes \subseteq Ways, TypeOK, NudgeInv, Tick
  PROVE  NudgeInv'
<1>1. PICK f \in Fixes :
        /\ Track(f)
        /\ IF wayIdx' = NoWay THEN payload' = NoPayload
           ELSE \E t \in Targets[wayIdx'] : payload' = [way |-> wayIdx', target |-> t]
  BY SpeedLimitAssumption DEF Tick
<1>2. f # NoWay /\ (wayIdx # NoWay => wayIdx' # NoWay)
  BY <1>1, SpeedLimitAssumption DEF Track, Accepted
<1>3. wayIdx' # NoWay <=> payload'.target # NoTarget
  <2>0. wayIdx' = NoWay => payload'.target = NoTarget
    BY <1>1 DEF NoPayload
  <2> SUFFICES ASSUME wayIdx' # NoWay PROVE payload'.target # NoTarget
    BY <2>0
  <2>1. PICK t \in Targets[wayIdx'] : payload' = [way |-> wayIdx', target |-> t]
    BY <1>1
  <2>2. wayIdx' \in Ways
    BY <1>1, SpeedLimitAssumption DEF Track, Accepted, TypeOK
  <2>3. t \in Nat
    BY <2>2, SpeedLimitAssumption
  <2> QED BY <2>1, <2>3, CruiseAssumption
<1>4. UNCHANGED <<up, cardTarget, taken, ccPrev, available, helper>> /\ up /\ fresh' /\ unread'
  BY DEF Tick, cardVars
<1> QED BY <1>2, <1>3, <1>4 DEF NudgeInv, MapInv, TakenInv

LEMMA CardKeepsNudge ==
  ASSUME TypeOK, NudgeInv, CardStep
  PROVE  NudgeInv'
<1>1. PICK in \in CarFrames, driven \in Helper :
        /\ helper' = ApplySpeedLimitTarget(driven, Target, enabled)
        /\ in.available /\ helper.v # Unset => driven.v # Unset
        /\ available' = in.available
  BY CardFrame
<1>2. /\ cardTarget' = Target /\ unread' = FALSE /\ ccPrev' = enabled
      /\ taken' = IF ~enabled \/ ~speedLimitCruise THEN NoTarget
                  ELSE IF helper'.target # NoTarget THEN helper'.target ELSE taken
      /\ UNCHANGED <<up, wayIdx, payload, fresh>>
  BY DEF CardStep, speedlimitdVars
<1>3. IF Target # NoTarget /\ enabled /\ driven.v # Unset
      THEN helper'.target = Target /\ helper'.v # Unset
      ELSE helper'.target = NoTarget
  BY <1>1, AppliedTarget, TargetType DEF TypeOK
<1>4. Target # NoTarget => fresh /\ wayIdx # NoWay
  <2>1. payload.target # NoTarget => wayIdx # NoWay
    BY DEF NudgeInv, MapInv
  <2> QED BY <2>1 DEF Target, NudgeInv, MapInv
<1>5. MapInv'
  BY <1>2, <1>4 DEF NudgeInv, MapInv
<1>6. ASSUME taken' # NoTarget PROVE TakenInv'
  <2>1. enabled /\ speedLimitCruise /\ (available' => available)
    BY <1>1, <1>2, <1>6 DEF CarFrames, TypeOK
  <2>2. CASE helper'.target # NoTarget
    BY <1>2, <1>3, <1>4, <2>1, <2>2 DEF TakenInv
  <2>3. CASE helper'.target = NoTarget
    <3>1. taken = taken' /\ ccPrev
      BY <1>2, <1>6, <2>1, <2>3 DEF NudgeInv, TakenInv
    <3>2. CASE ~available \/ (~up /\ ~fresh)
      BY <1>2, <2>1, <3>2 DEF TakenInv
    <3>3. CASE available /\ ~(~up /\ ~fresh)
      <4>1. /\ helper.v # Unset /\ fresh /\ wayIdx # NoWay
            /\ unread \/ cardTarget # NoTarget
        BY <1>6, <3>1, <3>3 DEF NudgeInv, TakenInv
      <4>2. Target # NoTarget
        BY <2>1, <4>1 DEF Target, NudgeInv, MapInv
      <4>3. ~in.available
        BY <1>1, <1>3, <2>1, <2>3, <4>1, <4>2
      <4> QED BY <1>1, <1>2, <2>1, <4>3 DEF TakenInv
    <3> QED BY <3>2, <3>3
  <2> QED BY <2>2, <2>3
<1> QED BY <1>5, <1>6 DEF NudgeInv, TakenInv

LEMMA NudgeInductive ==
  ASSUME Fixes \subseteq Ways
  PROVE  /\ Init => NudgeInv
         /\ TypeOK /\ NudgeInv /\ [Next]_vars => NudgeInv'
<1>1. Init => NudgeInv
  BY DEF Init, NudgeInv, MapInv, TakenInv, NoPayload
<1>2. ASSUME TypeOK, NudgeInv, [Next]_vars PROVE NudgeInv'
  <2>1. CASE Tick
    BY <1>2, <2>1, TickKeepsNudge
  <2>2. CASE CardStep
    BY <1>2, <2>2, CardKeepsNudge
  <2>3. CASE CrashSpeedlimitd \/ Expire \/ SettingChanges \/ Engage \/ Disengage \/ UNCHANGED vars
    <3>1. UNCHANGED <<wayIdx, payload, cardTarget, taken, ccPrev, available, helper, unread>>
      BY <2>3 DEF CrashSpeedlimitd, Expire, SettingChanges, Engage, Disengage, vars,
                  speedlimitdVars, socketVars, cardVars
    <3>2. \/ UNCHANGED <<up, fresh>>
          \/ ~up' /\ fresh' = fresh
          \/ ~up' /\ ~fresh'
      BY <2>3 DEF CrashSpeedlimitd, Expire, SettingChanges, Engage, Disengage, vars,
                  speedlimitdVars, socketVars, cardVars
    <3> QED BY <1>2, <3>1, <3>2 DEF NudgeInv, MapInv, TakenInv
  <2> QED BY <1>2, <2>1, <2>2, <2>3 DEF Next
<1> QED BY <1>1, <1>2

\* Where every turn of speedlimitd matches a road, the driver's nudge stands: no target is
\* applied again in an engagement before another one was, whatever roads are passed, and
\* however speedlimitd, the setting, the main switch and the engagement come and go.  What is
\* needed is no more than what the run of NudgeStands takes away, one match.
THEOREM NudgesStand ==
  ASSUME Fixes \subseteq Ways
  PROVE  Spec => NudgeStands
<1>1. TypeOK /\ NudgeInv /\ [Next]_vars
        => [helper'.target \notin {helper.target, NoTarget} => helper'.target # taken]_vars
  <2> SUFFICES ASSUME TypeOK, NudgeInv, [Next]_vars, helper'.target # helper.target,
                      helper'.target # NoTarget, helper'.target = taken
               PROVE  FALSE
    OBVIOUS
  <2>1. CardStep
    BY DEF Next, Tick, CrashSpeedlimitd, Expire, SettingChanges, Engage, Disengage, vars,
           cardVars
  <2>2. PICK in \in CarFrames, driven \in Helper :
          /\ helper' = ApplySpeedLimitTarget(driven, Target, enabled)
          /\ ~in.available /\ ~(enabled /\ ~ccPrev) => driven.v = Unset
    BY <2>1, CardFrame
  <2>3. Target # NoTarget /\ enabled /\ driven.v # Unset
    BY <2>2, AppliedTarget, TargetType DEF TypeOK
  <2>4. fresh /\ ccPrev /\ ~available
    BY <2>3 DEF Target, NudgeInv, TakenInv
  <2>5. ~in.available
    BY <2>3, <2>4 DEF CarFrames, TypeOK
  <2> QED BY <2>2, <2>3, <2>4, <2>5
<1>2. Init => NudgeInv
  BY NudgeInductive
<1>3. TypeOK /\ NudgeInv /\ [Next]_vars => NudgeInv'
  BY NudgeInductive
<1> QED BY <1>1, <1>2, <1>3, TypeCorrect, PTL DEF Spec, NudgeStands

-----------------------------------------------------------------------------
\* A dead speedlimitd

\* The safety half of DeadMapLetsGo: once speedlimitd is dead and its last message has expired,
\* it stays so, the next frame of card has no target, and no target comes back (card.py, cruise.py).
DeadMapSteersNothing ==
  [][~up /\ ~fresh =>
       /\ ~up' /\ ~fresh'
       /\ CardStep => cardTarget' = NoTarget /\ helper'.target = NoTarget
       /\ cardTarget = NoTarget => cardTarget' = NoTarget
       /\ helper.target = NoTarget => helper'.target = NoTarget]_vars

\* Nothing but a frame of card changes the target that is applied.
THEOREM DeadMapIsLetGo == Spec => DeadMapSteersNothing
<1>1. ASSUME TypeOK, [Next]_vars, ~up, ~fresh
      PROVE  /\ ~up' /\ ~fresh'
             /\ CardStep => cardTarget' = NoTarget /\ helper'.target = NoTarget
             /\ cardTarget = NoTarget => cardTarget' = NoTarget
             /\ helper.target = NoTarget => helper'.target = NoTarget
  <2>1. CASE CardStep
    <3>1. Target = NoTarget
      BY <1>1 DEF Target
    <3>2. PICK driven \in Helper : helper' = ApplySpeedLimitTarget(driven, Target, enabled)
      BY <1>1, <2>1, CardFrame
    <3>3. helper'.target = NoTarget
      BY <1>1, <3>1, <3>2, AppliedTarget, TargetType DEF TypeOK
    <3> QED BY <1>1, <2>1, <3>1, <3>3 DEF CardStep, speedlimitdVars
  <2>2. CASE ~CardStep
    BY <1>1, <2>2 DEF Next, Tick, CrashSpeedlimitd, Expire, SettingChanges, Engage, Disengage, vars,
                      speedlimitdVars, socketVars, cardVars
  <2> QED BY <2>1, <2>2
<1>2. TypeOK /\ [Next]_vars
        => [~up /\ ~fresh =>
              /\ ~up' /\ ~fresh'
              /\ CardStep => cardTarget' = NoTarget /\ helper'.target = NoTarget
              /\ cardTarget = NoTarget => cardTarget' = NoTarget
              /\ helper.target = NoTarget => helper'.target = NoTarget]_vars
  BY <1>1
<1> QED BY <1>2, TypeCorrect, PTL DEF Spec, DeadMapSteersNothing
=============================================================================
