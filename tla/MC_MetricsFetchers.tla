------------------------- MODULE MC_MetricsFetchers -------------------------
(* An instance of MetricsFetchers for TLC: a fetcher with two payloads in a  *)
(* round that uses the writer's channel, one that writes itself.             *)
EXTENDS MetricsFetchers, TLC

DkgsAndBalance == ("dkg" :> <<"dkg", "prev">>) @@ ("balance" :> <<"balance">>)
Alone == {{f} : f \in Fetchers}
=============================================================================
