-------------------------- MODULE MC_IndexerEvents --------------------------
(* Instances of IndexerEvents for TLC: the teleport contract with a burn and   *)
(* two reinits, which may be without an address, the coordinator with one      *)
(* completed DKG.                                                              *)
EXTENDS IndexerEvents, TLC

CONSTANTS teleport, coordinator, burn, reinit, again, key, addr1, addr2

AllEvents == {burn, reinit, again, key}
PegoutEventsOf == {burn, reinit, again}
TwoContracts == {teleport, coordinator}

FourAndOne == (teleport :> <<burn, None, reinit, again>>) @@ (coordinator :> <<key>>)

TwoWithout == (burn :> addr1) @@ (reinit :> NoAddr) @@ (again :> NoAddr)
=============================================================================
