------------------------------ MODULE FakeDriver ------------------------------
(***************************************************************************)
(* substrate.ts: the driver of an entry that injects none.  It keeps only   *)
(* which of the handles it issued were evicted; the life of one object.     *)
(***************************************************************************)
EXTENDS Naturals

CONSTANT MaxIssued   \* instances the fake hands out

VARIABLES inst,   \* evictedHandles
          mem,    \* [seq: #seq, handle: the caller's handle or 0]
          op, at, out

vars == <<inst, mem, op, at, out>>

TypeOK == /\ inst \subseteq 1..MaxIssued /\ at \in {"-", "call"}
          /\ mem \in [seq : 0..MaxIssued, handle : 0..MaxIssued]

Init == /\ inst = {} /\ mem = [seq |-> 0, handle |-> 0]
        /\ op = "idle" /\ at = "-" /\ out = "none"

isLive == mem.handle # 0 /\ mem.handle \notin inst
Resource == IF isLive THEN "awake" ELSE "gone"

Return(v) == op' = "idle" /\ at' = "-" /\ out' = v

call(o) == /\ op = "idle" /\ op' = o /\ at' = "call" /\ out' = "none"
           /\ IF o = "materialize" THEN mem.seq < MaxIssued ELSE mem.handle # 0
           /\ UNCHANGED <<inst, mem>>

materialize == /\ op = "materialize" /\ Return("ok")
               /\ mem' = [seq |-> mem.seq + 1, handle |-> mem.seq + 1]
               /\ inst' = inst \ {mem.seq + 1}

destroy == op = "destroy" /\ Return("ok") /\ inst' = inst \cup {mem.handle} /\ UNCHANGED mem

(* What no longer exists cannot be slept, woken or run in; the live is left live. *)
onLive == /\ op \in {"sleep", "wake", "exec"} /\ UNCHANGED <<inst, mem>>
          /\ Return(IF isLive THEN "ok" ELSE "error")

exposePort == op = "exposePort" /\ Return("ok") /\ UNCHANGED <<inst, mem>>

instanceStatus == /\ op = "instanceStatus" /\ UNCHANGED <<inst, mem>>
                  /\ Return(IF isLive THEN "alive" ELSE "gone")

(* A test evicts the instance behind a handle. *)
evict == mem.handle # 0 /\ inst' = inst \cup {mem.handle} /\ UNCHANGED <<mem, op, at, out>>

Step == materialize \/ destroy \/ onLive \/ exposePort \/ instanceStatus

Ops == {"materialize", "destroy", "sleep", "wake", "exec", "exposePort", "instanceStatus"}

Next == (\E o \in Ops : call(o)) \/ Step \/ evict
================================================================================
