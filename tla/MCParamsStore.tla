--------------------------- MODULE MCParamsStore ---------------------------
(***************************************************************************)
(* Instances of ParamsStore for TLC.                                       *)
(***************************************************************************)
EXTENDS ParamsStore, TLC

CONSTANTS c1, c2, k1, k2, v1

TwoClients == {c1, c2}
TwoKeys == {k1, k2}
OneValue == {v1}
=============================================================================
