----------------------------- MODULE MCSubstrates -----------------------------
(* The instance of Substrates TLC checks: three candidates with a profile and one
   without, every table over small prices, capacities and latencies. *)
EXTENDS Substrates

MCCandidates == <<"docker", "unknown", "sprites", "box">>
MCTables == [{"docker", "sprites", "box"} ->
               [usdPerHour : 0..1, capacity : 0..1, wakeLatencyMs : 0..1]]
MCWeights == [price : 0..2, capacity : 0..1, latency : 0..1]
================================================================================
