---------------------------- MODULE MC_OracleDkg ----------------------------
(* Instances of OracleDkg for TLC. *)
EXTENDS OracleDkg

TwoOracles == {0, 1}
NoFaulty == {}
SecondIsFaulty == {1}
=============================================================================
