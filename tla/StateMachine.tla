---------------------------- MODULE StateMachine ----------------------------
(***************************************************************************)
(* StateMachine.update of selfdrive/selfdrived/state.py as operators on    *)
(* the engagement state, the soft-disable timer and the events of one      *)
(* selfdrived frame.  current_alert_types, which update also builds, only  *)
(* selects alerts and is left out.                                         *)
(*                                                                         *)
(* Here and in the other modules an operator MutX, next to X, is X with a  *)
(* slip a programmer could make; no specification uses it.  Putting it in  *)
(* the place of X shows that a property would notice.                      *)
(***************************************************************************)
EXTENDS Naturals, OnroadEvents

CONSTANT SoftDisableTicks      \* int(SOFT_DISABLE_TIME / DT_CTRL), 300 in the code

ASSUME SoftDisableTicksAssumption == SoftDisableTicks \in Nat \ {0}

States == {"disabled", "preEnabled", "enabled", "softDisabling", "overriding"}
ActiveStates == {"enabled", "softDisabling", "overriding"}
EnabledStates == {"preEnabled"} \cup ActiveStates

\* The timer is decremented at the head of every update, never below zero.
Decremented(timer) == IF timer > 0 THEN timer - 1 ELSE 0

\* Where an engagement request leads when nothing refuses it.
EntryState(events) ==
  IF contains(events, "PRE_ENABLE") THEN "preEnabled"
  ELSE IF Overriding(events) THEN "overriding" ELSE "enabled"

\* The same three tests serve the enabled and the overriding branch.
RunningState(events) ==
  IF contains(events, "SOFT_DISABLE") THEN "softDisabling"
  ELSE IF Overriding(events) THEN "overriding" ELSE "enabled"

\* The soft-disabling branch; timer is the value after the decrement.
SoftDisablingState(timer, events) ==
  IF ~contains(events, "SOFT_DISABLE") THEN "enabled"
  ELSE IF timer > 0 THEN "softDisabling" ELSE "disabled"

\* The engagement state after one update.
NextState(state, timer, events) ==
  IF state = "disabled"
  THEN IF contains(events, "ENABLE") /\ ~contains(events, "NO_ENTRY")
       THEN EntryState(events) ELSE "disabled"
  ELSE IF contains(events, "IMMEDIATE_DISABLE") \/ contains(events, "USER_DISABLE")
  THEN "disabled"
  ELSE IF state = "softDisabling" THEN SoftDisablingState(Decremented(timer), events)
  ELSE IF state = "preEnabled"
  THEN IF contains(events, "PRE_ENABLE") THEN "preEnabled" ELSE "enabled"
  ELSE RunningState(events)

\* The timer after one update: armed on entry to softDisabling only.
MutNextTimer(state, timer, events) ==
  IF NextState(state, timer, events) = "softDisabling" THEN SoftDisableTicks
  ELSE Decremented(timer)
NextTimer(state, timer, events) ==
  IF state \in {"enabled", "overriding"} /\ NextState(state, timer, events) = "softDisabling"
  THEN SoftDisableTicks
  ELSE Decremented(timer)

=============================================================================
