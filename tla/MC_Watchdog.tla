---------------------------- MODULE MC_Watchdog ----------------------------
(* Instances of Watchdog for TLC.                                            *)
EXTENDS Watchdog, TLC

CONSTANT a

OnlyA == a :> 2
=============================================================================
