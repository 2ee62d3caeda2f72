------------------------------- MODULE Cruise -------------------------------
(***************************************************************************)
(* VCruiseHelper of selfdrive/car/cruise.py for a car whose set speed the  *)
(* program owns (non-PCM cruise): the steps of one card frame as operators *)
(* on the helper's state.  Speeds are whole numbers of a small unit, so    *)
(* that a target need not be a multiple of the button's increment.         *)
(***************************************************************************)
EXTENDS Integers

CONSTANTS
  MinSpeed, MaxSpeed,  \* V_CRUISE_MIN, V_CRUISE_MAX
  Unset,               \* V_CRUISE_UNSET
  Increment,           \* what a short press changes: 1 km/h, or IMPERIAL_INCREMENT
  LongPress,           \* CRUISE_LONG_PRESS, in frames
  LongStep,            \* increments of a long press, 5 in the code
  NoTarget             \* the None of speed_limit_target_kph

ASSUME CruiseAssumption ==
  /\ {MinSpeed, MaxSpeed, Unset, Increment, LongPress, LongStep} \subseteq Nat \ {0}
  /\ MinSpeed < MaxSpeed /\ MaxSpeed < Unset
  /\ LongPress > 1 /\ LongStep > 1
  /\ NoTarget \notin Nat

Buttons == {"decel", "accel"}
SetSpeeds == (MinSpeed..MaxSpeed) \cup {Unset}

\* v is v_cruise_kph, target is speed_limit_target_kph.  A timer counts the frames of a
\* press; what matters of one beyond LongPress is its remainder, so it wraps.
Helper == [v: SetSpeeds, target: Nat \cup {NoTarget},
           timer: [Buttons -> 0..(2 * LongPress)], enabledAtPress: [Buttons -> BOOLEAN]]
NewHelper == [v |-> Unset, target |-> NoTarget, timer |-> [b \in Buttons |-> 0],
              enabledAtPress |-> [b \in Buttons |-> FALSE]]

NoEvent == [button |-> "none", pressed |-> FALSE]
ButtonEvent == [button: Buttons, pressed: BOOLEAN] \cup {NoEvent}

Clip(v) == IF v < MinSpeed THEN MinSpeed ELSE IF v > MaxSpeed THEN MaxSpeed ELSE v

\* The timers at a multiple of a long press; decel comes first in the dictionary.
LongPressed(h) == {b \in Buttons : h.timer[b] > 0 /\ h.timer[b] % LongPress = 0}

\* The button that acts in this frame, if any: the one released after a short press, or
\* else one that is held.
Acting(h, event) ==
  IF event.button \in Buttons /\ ~event.pressed
  THEN IF h.timer[event.button] > LongPress THEN "none" ELSE event.button
  ELSE IF LongPressed(h) = {} THEN "none"
  ELSE IF "decel" \in LongPressed(h) THEN "decel" ELSE "accel"

Moved(v, button, long) ==
  LET step == IF long THEN LongStep * Increment ELSE Increment
      up == button = "accel"
  IN IF long /\ v % step # 0
     THEN step * (IF up THEN v \div step + 1 ELSE v \div step)
     ELSE IF up THEN v + step ELSE v - step

\* _update_v_cruise_non_pcm.  in.standstill: the car stood still at the press or does now;
\* in.floor: the car's speed when the gas is pressed, else zero.
AfterButtons(h, in, enabled) ==
  LET button == Acting(h, in.event)
      long == in.event.button = "none" \/ in.event.pressed
      moved == Moved(h.v, button, long)
      raised == IF button = "decel" /\ moved < in.floor THEN in.floor ELSE moved
  IN IF ~enabled \/ button = "none" \/ (button = "accel" /\ in.standstill)
     THEN h
     ELSE IF ~h.enabledAtPress[button] THEN h
     ELSE [h EXCEPT !.v = Clip(raised)]

\* update_button_timers.
AfterTimers(h, event, enabled) ==
  LET counted == [b \in Buttons |-> IF h.timer[b] = 0 THEN 0
                                    ELSE IF h.timer[b] = 2 * LongPress THEN LongPress + 1
                                    ELSE h.timer[b] + 1]
  IN IF event.button \notin Buttons THEN [h EXCEPT !.timer = counted]
     ELSE [h EXCEPT !.timer = [counted EXCEPT ![event.button] = IF event.pressed THEN 1 ELSE 0],
                    !.enabledAtPress[event.button] = enabled]

\* update_v_cruise: while the car's cruise is unavailable the buttons are not looked at.
UpdateVCruise(h, in, enabled) ==
  IF ~in.available THEN [h EXCEPT !.v = Unset]
  ELSE AfterTimers(AfterButtons(h, in, enabled), in.event, enabled)

\* initialize_v_cruise, in the frame that sees the engagement: resume takes the speed from
\* before this frame; otherwise in.initial is the car's speed, not under the initial one.
InitializeVCruise(h, last, in) ==
  [h EXCEPT !.v = IF in.resume /\ h.v # Unset THEN last ELSE in.initial]

\* apply_speed_limit_target: once per target, which is forgotten while it cannot apply.
MutApplySpeedLimitTarget(h, target, enabled) ==
  IF target = NoTarget THEN [h EXCEPT !.target = NoTarget]
  ELSE IF ~enabled \/ h.v = Unset THEN h
  ELSE IF target = h.target THEN h
  ELSE [h EXCEPT !.target = target, !.v = Clip(target)]
ApplySpeedLimitTarget(h, target, enabled) ==
  IF target = NoTarget \/ ~enabled \/ h.v = Unset THEN [h EXCEPT !.target = NoTarget]
  ELSE IF target = h.target THEN h
  ELSE [h EXCEPT !.target = target, !.v = Clip(target)]

\* The cruise part of Car.state_update.
CruiseFrame(h, in, target, enabled, engages) ==
  LET updated == UpdateVCruise(h, in, enabled)
      initialized == IF engages THEN InitializeVCruise(updated, h.v, in) ELSE updated
  IN ApplySpeedLimitTarget(initialized, target, enabled)
=============================================================================
