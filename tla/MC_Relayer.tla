---------------------------- MODULE MC_Relayer ----------------------------
(* An instance of Relayer for TLC: 0 - 1 - 2 - 3 and, beside 2 - 3, the       *)
(* longer branch 4 - 5 - 6.  A pegout is in a block of either branch.         *)
EXTENDS Relayer, TLC

CONSTANTS p, q

Fork == 0 .. 6
ForkParent == [b \in 1 .. 6 |-> IF b = 4 THEN 1 ELSE b - 1]
ForkIncludes == [b \in Fork |-> CASE b \in {2, 5} -> {p} [] b = 4 -> {q} [] OTHER -> {}]
=============================================================================
