---------------------------- MODULE JournalPromise ----------------------------
(***************************************************************************)
(* What the journal of a run promises (docs/spec.md 4.2: the journal in    *)
(* the control plane is the truth), without sockets, buffers or acks.      *)
(* Until a hole has been recorded, the durable journal is a prefix of what *)
(* the run produced, and it only grows.  A continuation of the run in a    *)
(* later generation may forget output, but none that is durable.           *)
(***************************************************************************)
EXTENDS Naturals, SequencesExt

CONSTANT Bytes

VARIABLES
    produced,  \* the output of the run, as its latest life continues it
    durable,   \* the journal the control plane holds
    holed      \* the control plane has recorded that output is missing

vars == <<produced, durable, holed>>

Init == produced = <<>> /\ durable = <<>> /\ holed = FALSE

Produce ==
    /\ \E b \in Bytes : produced' = Append(produced, b)
    /\ UNCHANGED <<durable, holed>>

Persist ==
    /\ IsStrictPrefix(durable, durable')
    /\ ~holed => IsPrefix(durable', produced)
    /\ UNCHANGED <<produced, holed>>

Resume ==
    /\ \E kept \in 0..Len(produced) :
         /\ ~holed => kept >= Len(durable)
         /\ produced' = SubSeq(produced, 1, kept)
    /\ UNCHANGED <<durable, holed>>

RecordHole ==
    /\ ~holed /\ holed' = TRUE
    /\ UNCHANGED <<produced, durable>>

Next == Produce \/ Persist \/ Resume \/ RecordHole

Spec == Init /\ [][Next]_vars
===============================================================================
