-------------------------- MODULE MC_OracleSigning --------------------------
(* Instances of OracleSigning for TLC. *)
EXTENDS OracleSigning

TwoOracles == {0, 1}
ThreeOracles == {0, 1, 2}
NoFaulty == {}
FirstIsFaulty == {0}
AnyOfTwo == SUBSET TwoOracles
AnyOfThree == SUBSET ThreeOracles
=============================================================================
