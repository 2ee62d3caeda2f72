----------------------------- MODULE LaneChange -----------------------------
(***************************************************************************)
(* Lane changes: the state machine that turns a blinker into a desire of   *)
(* the driving model (DesireHelper), and the nudgeless start on freeways   *)
(* (AutoLaneChange), as modeld runs them on every frame.                   *)
(***************************************************************************)
EXTENDS Integers

CONSTANTS
  AutoStartDelay,      \* frames AutoLaneChange waits in preLaneChange
  LaneChangeStart,     \* frames before the model's probability may end a change
  LaneChangeMax        \* frames after which a change is given up

ASSUME LaneChangeAssumption ==
  /\ {AutoStartDelay, LaneChangeStart, LaneChangeMax} \subseteq Nat \ {0}
  /\ LaneChangeStart <= LaneChangeMax

VARIABLES
  laneChangeState, laneChangeDirection, laneChangeTimer, prevOneBlinker,
  autoTimer,           \* AutoLaneChange's
  signalled,           \* history: frames in a row with one blinker on, on a freeway, the setting on
  blinker, nudged, blocked   \* of the last frame: the blinkers; a nudge and an obstacle on their side

laneVars == <<laneChangeState, laneChangeDirection, laneChangeTimer, prevOneBlinker, autoTimer,
              signalled, blinker, nudged, blocked>>

Sides == {"left", "right"}
Blinkers == Sides \cup {"none", "both"}

LaneInit ==
  /\ laneChangeState = "off" /\ laneChangeDirection = "none" /\ laneChangeTimer = 0
  /\ prevOneBlinker = FALSE /\ autoTimer = 0
  /\ signalled = 0 /\ blinker = "none" /\ nudged = FALSE /\ blocked = FALSE

\* AutoLaneChange.update, with what its parameters were in this frame.
MutAutoTimer(freeway, setting) ==
  IF freeway /\ setting THEN (IF autoTimer < AutoStartDelay THEN autoTimer + 1 ELSE autoTimer) ELSE 0
AutoTimer(freeway, setting) ==
  IF freeway /\ setting /\ laneChangeState = "preLaneChange"
  THEN (IF autoTimer < AutoStartDelay THEN autoTimer + 1 ELSE autoTimer)
  ELSE 0

LaneOff == laneChangeState' = "off" /\ laneChangeDirection' = "none" /\ laneChangeTimer' = 0

\* A blinker that comes on arms a lane change.
Arm(b, slow) ==
  /\ laneChangeState = "off"
  /\ IF b \in Sides /\ ~prevOneBlinker /\ ~slow
     THEN laneChangeState' = "preLaneChange" /\ laneChangeDirection' = b /\ laneChangeTimer' = 0
     ELSE UNCHANGED <<laneChangeState, laneChangeDirection, laneChangeTimer>>

\* It starts on a nudge to its side, or without one, unless something is in the blind spot.
Await(b, slow) ==
  /\ laneChangeState = "preLaneChange"
  /\ IF b \notin Sides \/ slow THEN LaneOff
     ELSE /\ laneChangeDirection' = b
          /\ IF (nudged' \/ autoTimer' = AutoStartDelay) /\ ~blocked'
             THEN laneChangeState' = "laneChangeStarting" /\ laneChangeTimer' = 0
             ELSE UNCHANGED <<laneChangeState, laneChangeTimer>>

\* The model's probability ends it; a blinker that is still on arms the next one.
Changing(b, done) ==
  /\ laneChangeState = "laneChangeStarting"
  /\ IF done /\ laneChangeTimer + 1 >= LaneChangeStart
     THEN IF b \in Sides
          THEN laneChangeState' = "preLaneChange" /\ laneChangeDirection' = b /\ laneChangeTimer' = 0
          ELSE LaneOff
     ELSE laneChangeTimer' = laneChangeTimer + 1 /\ UNCHANGED <<laneChangeState, laneChangeDirection>>

\* A frame of modeld.  The direction of a change is the side whose blinker is on
\* (get_lane_change_direction), for it is taken only while one is.
LaneFrame ==
  \E b \in Blinkers, slow, latActive, freeway, setting, done \in BOOLEAN :
    /\ blinker' = b /\ nudged' \in BOOLEAN /\ blocked' \in BOOLEAN
    /\ autoTimer' = AutoTimer(freeway, setting)
    /\ IF ~latActive \/ laneChangeTimer > LaneChangeMax THEN LaneOff
       ELSE Arm(b, slow) \/ Await(b, slow) \/ Changing(b, done)
    /\ prevOneBlinker' = (b \in Sides /\ latActive)
    /\ signalled' = IF b \in Sides /\ freeway /\ setting
                    THEN (IF signalled < AutoStartDelay THEN signalled + 1 ELSE signalled) ELSE 0

LaneSpec == LaneInit /\ [][LaneFrame]_laneVars

-----------------------------------------------------------------------------
\* Properties

\* The values each variable takes.
LaneTypeOK ==
  /\ laneChangeState \in {"off", "preLaneChange", "laneChangeStarting"}
  /\ laneChangeDirection \in Sides \cup {"none"}
  /\ laneChangeTimer \in 0..(LaneChangeMax + 1)
  /\ prevOneBlinker \in BOOLEAN /\ autoTimer \in 0..AutoStartDelay
  /\ signalled \in 0..AutoStartDelay /\ blinker \in Blinkers
  /\ nudged \in BOOLEAN /\ blocked \in BOOLEAN

\* auto_lane_change.py: a change starts to the side that is signalled and clear, on a nudge,
\* or after the signal has been on for the delay on a freeway, also after earlier changes,
\* pauses of the map and speeds too low.
ChangeIsSignalled ==
  [][laneChangeState' = "laneChangeStarting" /\ laneChangeState # "laneChangeStarting" =>
       /\ blinker' = laneChangeDirection' /\ ~blocked'
       /\ nudged' \/ signalled' = AutoStartDelay]_laneVars
=============================================================================
