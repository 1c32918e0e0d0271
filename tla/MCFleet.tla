------------------------------- MODULE MCFleet -------------------------------
(* The instance of Fleet TLC checks. *)
EXTENDS Fleet, TLC

Symmetric == Permutations(Computers) \cup Permutations(Requests)
================================================================================
