---------------------------- MODULE MCSpeedLimit ----------------------------
(***************************************************************************)
(* Instances of SpeedLimit for TLC.                                        *)
(***************************************************************************)
EXTENDS SpeedLimit

CONSTANTS street, freeway

TwoWays == {street, freeway}
OneWay == {street}

\* A street, and a freeway whose target is above the highest set speed.
TwoTargets == [w \in Ways |-> IF w = street THEN {3} ELSE {8}]
OneTarget == [w \in Ways |-> {3}]

AnyFix == Ways \cup {NoWay, NoFix}
GpsHolds == Ways \cup {NoWay}
=============================================================================
