--------------------------- MODULE MC_IndexerMint ---------------------------
(* An instance of IndexerMint for TLC.  It has two deposits at a time: d1 with *)
(* d2, which is small, and all that may happen to keys and deposits; or d1     *)
(* with d3, to share batches, and with a lost message.                         *)
EXTENDS IndexerMint

CONSTANTS d1, d2, d3

Batched == paid'[d3] # 0
Bounded ==
  /\ Batched => paid'[d2] = 0 /\ epoch' = 1 /\ evicted' = {} /\ spent' \subseteq active'
  /\ losses' > 0 => Batched
  /\ restarts' + losses' + Cardinality(evicted') <= 1

MCSpec == Init /\ [][Next /\ Bounded]_vars /\ Fairness
=============================================================================
