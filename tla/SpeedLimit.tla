----------------------------- MODULE SpeedLimit -----------------------------
(***************************************************************************)
(* The posted speed limit on its way to the set speed.                     *)
(*                                                                         *)
(*   speedlimitd  matches the GPS fix against the offline map five times   *)
(*                a second, debounces the road, and publishes its limit;   *)
(*   card         takes the target of the latest payload, drops it when    *)
(*                the payload stops coming or the setting is off, and      *)
(*                applies it to the set speed of VCruiseHelper, which the  *)
(*                driver's buttons move too.                               *)
(*                                                                         *)
(* The payload goes through a conflated socket.  Engaging is selfdrived's  *)
(* and controlsd's doing (module Engagement); card sees carControl.enabled.*)
(* speedlimitd also drives the ExperimentalMode param from the payload;    *)
(* nothing here reads that param.                                          *)
(***************************************************************************)
EXTENDS Cruise

CONSTANTS
  Ways,                \* the roads of the map
  Targets,             \* of each road: the targets its limits give, at any time of day
  NoWay,               \* the None of way_idx and pending_way: no road is near
  NoFix,               \* neither receiver has a fix
  Fixes,               \* what a tick may get: NoFix, NoWay or the road it matches
  Initials,            \* the set speeds an engagement may begin with
  Floors,              \* the car's speeds that matter when the gas is pressed, and zero
  Pressable,           \* the buttons the driver uses
  MaxMisses            \* bound: matches in a row that find no road

ASSUME SpeedLimitAssumption ==
  /\ NoWay \notin Ways /\ NoFix \notin Ways \cup {NoWay}
  /\ Targets \in [Ways -> SUBSET (Nat \ {0})] /\ \A w \in Ways : Targets[w] # {}
  /\ Fixes \subseteq Ways \cup {NoWay, NoFix}
  /\ Initials \subseteq MinSpeed..MaxSpeed /\ Floors \subseteq 0..MaxSpeed
  /\ Pressable \subseteq Buttons
  /\ MaxMisses \in Nat

VARIABLES
  up, wayIdx, pendingWay,          \* speedlimitd and its tracker
  payload, unread, fresh,          \* the socket: its message, unread by card, not timed out
  enabled,                         \* carControl.enabled
  available, held,                 \* the car's main switch in card's last frame, the button
                                   \* under the driver's finger,
  resumed,                         \* whether that frame, if disengaged, had an accel or
                                   \* resume event
  speedLimitCruise, cardTarget,    \* card: its copy of the setting, the target it holds,
  helper, ccPrev,                  \* its VCruiseHelper, and the previous carControl.enabled
  \* history: the last fix and the last match; the target last applied since the
  \* engagement; the matches in a row without a road
  fix, lastMatch, taken, misses

speedlimitdVars == <<up, wayIdx, pendingWay, fix, lastMatch, misses>>
socketVars == <<payload, unread, fresh>>
cardVars == <<available, held, resumed, speedLimitCruise, cardTarget, helper, ccPrev, taken>>
vars == <<speedlimitdVars, socketVars, enabled, cardVars>>

NoPayload == [way |-> NoWay, target |-> NoTarget]
Payload == {NoPayload} \cup {[way |-> w, target |-> t] : w \in Ways, t \in UNION {Targets[w] : w \in Ways}}

Init ==
  /\ up = TRUE /\ wayIdx = NoWay /\ pendingWay = NoWay
  /\ payload = NoPayload /\ unread = FALSE /\ fresh = FALSE
  /\ available = TRUE /\ enabled = FALSE /\ held = "none" /\ resumed = FALSE
  /\ speedLimitCruise \in BOOLEAN /\ cardTarget = NoTarget
  /\ helper = NewHelper /\ ccPrev = FALSE
  /\ fix = NoFix /\ lastMatch = NoWay /\ taken = NoTarget /\ misses = 0

-----------------------------------------------------------------------------
\* speedlimitd

\* SpeedLimitTracker.update: the road it is on, and the one seen once, after a match.
MutAccepted(new) == new
Accepted(new) == IF new = pendingWay THEN new ELSE wayIdx

MutPending(new) == NoWay
Pending(new) == IF new \in {wayIdx, pendingWay} THEN NoWay ELSE new

Track(new) ==
  /\ wayIdx' = Accepted(new) /\ pendingWay' = Pending(new)
  /\ lastMatch' = new
  /\ misses' = IF new = NoWay THEN misses + 1 ELSE 0

\* One turn of the main loop: without a fix the tracker is left as it is and the payload is
\* invalid; else the payload is the limit in force on the road it is on.
Tick ==
  /\ up
  /\ \E f \in Fixes :
       /\ f = NoWay => misses < MaxMisses
       /\ fix' = f
       /\ IF f = NoFix
          THEN payload' = NoPayload /\ UNCHANGED <<wayIdx, pendingWay, lastMatch, misses>>
          ELSE /\ Track(f)
               /\ IF wayIdx' = NoWay THEN payload' = NoPayload
                  ELSE \E t \in Targets[wayIdx'] : payload' = [way |-> wayIdx', target |-> t]
  /\ unread' = TRUE /\ fresh' = TRUE
  /\ UNCHANGED <<up, enabled, cardVars>>

\* speedlimitd dies; the manager does not start it again during the drive.
CrashSpeedlimitd ==
  /\ up /\ up' = FALSE
  /\ UNCHANGED <<wayIdx, pendingWay, fix, lastMatch, misses, socketVars, enabled, cardVars>>

\* Ten periods pass without a payload: card's SubMaster has read the last one by then.
Expire ==
  /\ ~up /\ ~unread /\ fresh /\ fresh' = FALSE
  /\ UNCHANGED <<payload, unread, speedlimitdVars, enabled, cardVars>>

-----------------------------------------------------------------------------
\* card

\* The target of this frame.
MutTarget == IF ~speedLimitCruise THEN NoTarget
             ELSE IF unread THEN payload.target ELSE cardTarget
Target == IF ~speedLimitCruise \/ ~fresh THEN NoTarget
          ELSE IF unread THEN payload.target ELSE cardTarget

\* What a frame of the car may bring: the held button's release or the press of a free one,
\* or the resume button's use.  selfdrived answers the main switch with wrongCarMode: the
\* engagement is over before the driver's hand has turned the switch on again.
ButtonEvents ==
  {NoEvent} \cup IF held = "none" THEN {[button |-> b, pressed |-> TRUE] : b \in Pressable}
                 ELSE {[button |-> held, pressed |-> FALSE]}
CarFrames ==
  [available: {FALSE, available \/ ~enabled}, event: ButtonEvents, standstill: BOOLEAN,
   floor: Floors, resume: {resumed}, initial: Initials]

\* The set speed's part of one frame: Car.state_update, and CC_prev and CS_prev at the end.
CardStep ==
  /\ \E in \in CarFrames, resume \in {FALSE, held = "none"} :
       /\ helper' = CruiseFrame(helper, in, Target, enabled, enabled /\ ~ccPrev)
       /\ held' = IF in.event = NoEvent THEN held
                  ELSE IF in.event.pressed THEN in.event.button ELSE "none"
       /\ available' = in.available
       /\ resumed' = (~enabled /\ (in.event.button = "accel" \/ resume))
  /\ cardTarget' = Target /\ unread' = FALSE
  /\ ccPrev' = enabled
  /\ taken' = IF ~enabled \/ ~speedLimitCruise THEN NoTarget
              ELSE IF helper'.target # NoTarget THEN helper'.target ELSE taken
  /\ UNCHANGED <<enabled, payload, fresh, speedLimitCruise, speedlimitdVars>>

\* card's params thread reads the driver's setting again.
SettingChanges ==
  /\ speedLimitCruise' = ~speedLimitCruise
  /\ UNCHANGED <<available, held, resumed, cardTarget, helper, ccPrev, taken, speedlimitdVars, socketVars, enabled>>

-----------------------------------------------------------------------------
\* The rest of the program

\* carControl.enabled, as card will read it: an engagement answers a carState of card's
\* with the main switch on, and ends for any reason.
Engage ==
  /\ available /\ ~enabled /\ ~ccPrev
  /\ enabled' = TRUE
  /\ UNCHANGED <<speedlimitdVars, socketVars, cardVars>>

Disengage ==
  /\ enabled /\ ccPrev
  /\ enabled' = FALSE
  /\ UNCHANGED <<speedlimitdVars, socketVars, cardVars>>

Next == Tick \/ CrashSpeedlimitd \/ Expire \/ CardStep \/ SettingChanges \/ Engage \/ Disengage

Spec == Init /\ [][Next]_vars

\* Both processes run their loops, and time passes for a dead one.
FairSpec == Spec /\ WF_vars(Tick) /\ WF_vars(Expire) /\ WF_vars(CardStep)

-----------------------------------------------------------------------------
\* Properties

\* The values each variable takes.
TypeOK ==
  /\ {up, unread, fresh, available, enabled, resumed, speedLimitCruise, ccPrev} \subseteq BOOLEAN
  /\ {wayIdx, pendingWay, lastMatch} \subseteq Ways \cup {NoWay}
  /\ fix \in Ways \cup {NoWay, NoFix}
  /\ payload \in Payload
  /\ held \in Buttons \cup {"none"}
  /\ {cardTarget, taken} \subseteq Nat \cup {NoTarget}
  /\ helper \in Helper
  /\ misses \in 0..MaxMisses

\* speedlimitd.py:29: "A road change has to be seen on two consecutive matches before it is
\* published".  Of the change to another road this is so, whatever gaps the GPS has.
TwoSightings ==
  [][wayIdx' # wayIdx /\ wayIdx' # NoWay => lastMatch = wayIdx' /\ lastMatch' = wayIdx']_vars

\* cruise.py:153-154: "the first frame after engaging applies the current road's target
\* instead of waiting for the limit to change", whatever the set speed was before, and
\* whatever target an earlier engagement left behind; unless a timer left running by the
\* main switch off has the resume button bring the unset speed back.
EngageTakesTarget ==
  [][~ccPrev /\ ccPrev' /\ cardTarget' # NoTarget /\ helper'.v # Unset =>
       helper'.v = Clip(cardTarget')]_vars

\* A dead speedlimitd steers nothing: card lets go of its last target, for good.
DeadMapLetsGo == ~up ~> [](cardTarget = NoTarget /\ helper.target = NoTarget)

\* A road the car stays on is adopted, and its target reaches the set speed of an engaged
\* car, whatever was pending or applied before.
Steady(w) ==
  up /\ fix = w /\ speedLimitCruise /\ available /\ enabled /\ helper.v # Unset
RoadReachesCar ==
  \A w \in Ways :
    <>[]Steady(w) => []<>(payload.way = w /\ helper.target = payload.target)

\* cruise.py:143-145: "Applied once per new target so the driver can still nudge the set
\* speed with the buttons; the next road with a different limit takes over again."
NudgeStands ==
  [][helper'.target \notin {helper.target, NoTarget} => helper'.target # taken]_vars
=============================================================================
