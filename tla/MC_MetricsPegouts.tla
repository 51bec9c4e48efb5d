-------------------------- MODULE MC_MetricsPegouts --------------------------
(* An instance of MetricsPegouts for TLC: q spends the change of p, r of none. *)
(* A behaviour is one of three scenes: the pegout manager with p and q and     *)
(* with its faults, after r is done; all three of them and a lost answer; or   *)
(* p and q without faults of the manager, but with the alerts and theirs.      *)
EXTENDS MetricsPegouts, TLC

CONSTANTS p, q, r

Chained == [x \in Pegouts |-> IF x = q THEN p ELSE None]
TwoAndOne == (p :> {13, 21}) @@ (q :> {5}) @@ (r :> {7})

VARIABLE scene
MCVars == <<allVars, scene>>

Untouched(x) == sigs'[x] = None /\ status'[x] = None
NoFaults == losses' + evictions' + restarts' = 0

\* Rows are only written of pegouts the oracles are done with, and none grows old.
AllSigned == old' = {} /\ \A x \in Pegouts : status'[x] # None => Signed(x)

Bounded ==
  CASE scene = "faults"  -> /\ r \notin old'
                            /\ (Untouched(p) /\ Untouched(q) /\ NoFaults) \/ hash'[r] = "block"
    [] scene = "batches" -> AllSigned /\ evictions' + restarts' = 0
    [] scene = "alerts"  -> AllSigned /\ NoFaults /\ Untouched(r)

MCInit ==
  /\ AlertInit
  /\ scene \in {"faults", "batches", "alerts"}
  /\ scene # "faults" => refused = {}

MCNext ==
  /\ IF scene = "alerts" THEN AlertNext ELSE Indexer
  /\ Bounded
  /\ UNCHANGED scene

MCSpec == MCInit /\ [][MCNext]_MCVars
=============================================================================
