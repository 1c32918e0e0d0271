------------------------------- MODULE MCReview -------------------------------
(* The instance of Review TLC checks. *)
EXTENDS Review, TLC

Symmetric == Permutations(Runs) \cup Permutations(Requests)
================================================================================
