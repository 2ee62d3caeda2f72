---------------------------- MODULE MCEngagement ----------------------------
(***************************************************************************)
(* Instances of Engagement for TLC.                                        *)
(***************************************************************************)
EXTENDS Engagement

\* A car cruising with no pedal pressed; buttons and faults are added to its flags.
Cruising ==
  [canValid |-> TRUE, gasPressed |-> FALSE, brakePressed |-> FALSE, standstill |-> FALSE,
   cruiseEnabled |-> TRUE, blockPcmEnable |-> FALSE, flags |-> {}]

Braking == [Cruising EXCEPT !.brakePressed = TRUE, !.standstill = TRUE]
Gas == [Cruising EXCEPT !.gasPressed = TRUE]
Steering == [Cruising EXCEPT !.flags = {"steerOverride"}]
CruiseOff == [Cruising EXCEPT !.cruiseEnabled = FALSE]
\* The foot on the brake while the cruise is still off: engaging from here is preEnabled.
Waiting == [Braking EXCEPT !.cruiseEnabled = FALSE]
Hot == [Cruising EXCEPT !.flags = {"doorOpen"}]
CanLost == [Cruising EXCEPT !.canValid = FALSE]
Button == [Cruising EXCEPT !.flags = {"buttonEnable"}]

\* A car whose cruise engages the system.
PcmCarStates == {Cruising, CruiseOff, Waiting, Braking, Gas, Steering, Hot, CanLost}
\* A car with an engage button.
ButtonCarStates == {Button, [Braking EXCEPT !.flags = {"buttonEnable"}]}

OneCar == {Button}
Quiet == [before |-> {}, hardware |-> {}, late |-> {}]
QuietSystem == {Quiet}
\* The one soft-disabling fault that refuses no request, alone and with an event that only
\* refuses; a refusal alone; a fault raised after the catch-all.
FaultySystem ==
  {Quiet,
   [Quiet EXCEPT !.hardware = {"bigModelFailed"}],
   [Quiet EXCEPT !.before = {"tooDistracted"}, !.hardware = {"bigModelFailed"}],
   [Quiet EXCEPT !.before = {"tooDistracted", "bigModelFailed"}],
   [Quiet EXCEPT !.late = {"sensorDataInvalid"}]}
=============================================================================
