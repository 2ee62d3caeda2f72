----------------------------- MODULE MCFootage -----------------------------
(***************************************************************************)
(* Instances of Footage for TLC.                                           *)
(***************************************************************************)
EXTENDS Footage

\* The second segment of a route is a large one.
MixedSize == [s \in Segments |-> IF s[2] = 1 THEN 2 ELSE 1]
=============================================================================
