---------------------------- MODULE MC_Keystore ----------------------------
(* Instances of Keystore for TLC.                                            *)
EXTENDS Keystore
=============================================================================
