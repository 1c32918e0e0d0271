--------------------------- MODULE SubstrateProvider ---------------------------
(***************************************************************************)
(* What a substrate driver promises its caller (substrates/provider.ts):   *)
(* one resource behind a handle, which the platform may change at any      *)
(* time, and one call at a time.  A call may fail; one that resolves has    *)
(* seen, at some moment between its start and its end, the state it         *)
(* promises.  Every driver module is shown to implement this one.           *)
(***************************************************************************)

VARIABLES warms,      \* the driver's supportsWarm declaration
          suspends,   \* the platform suspends by itself: sleep issues nothing
          resource,   \* "gone", "warm" (kept, no process), "up" (a machine
                      \* without its supervisor) or "awake"
          op,         \* the call under way, or "idle"
          seen,       \* the values resource had since the call began
          excused,    \* the platform outlasted the driver's budget in this call
          out         \* how the last call ended

vars == <<warms, suspends, resource, op, seen, excused, out>>

Resources == {"gone", "warm", "up", "awake"}
Ops == {"materialize", "destroy", "sleep", "wake", "exec", "exposePort",
        "holdAwake", "instanceStatus"}

(* What call o may answer when the resource was in state r. *)
Answers(o, r) ==
  CASE o \in {"materialize", "wake"} -> IF r = "awake" THEN {"ok"} ELSE {}
    [] o = "exec" -> IF r \in {"up", "awake"} THEN {"ok"} ELSE {}
    [] o = "destroy" -> IF r = "gone" THEN {"ok"} ELSE {}
    [] o = "sleep" -> IF suspends \/ r = (IF warms THEN "warm" ELSE "gone")
                        THEN {"ok"} ELSE {}
    [] o = "instanceStatus" -> {"unknown", IF r = "gone" THEN "gone" ELSE "alive"}
    [] OTHER -> {"ok"}

(* Calls a caller need not guard: a refusal is swallowed by the driver. *)
NeverThrows == {"holdAwake", "instanceStatus"}

Init == /\ warms \in BOOLEAN /\ suspends \in BOOLEAN /\ resource \in Resources
        /\ op = "idle" /\ seen = {} /\ excused = FALSE /\ out = "none"

Begin == /\ op = "idle" /\ op' \in Ops
         /\ out' = "none" /\ seen' = {resource} /\ excused' = FALSE /\ UNCHANGED resource

Excuse == excused' \in BOOLEAN /\ (excused => excused')

Change == /\ op # "idle" /\ resource' \in Resources
          /\ seen' = seen \cup {resource'} /\ Excuse /\ UNCHANGED <<op, out>>

(* The last platform call of an operation and its answer are one step. *)
Resolve == /\ op # "idle" /\ op' = "idle" /\ resource' \in Resources
           /\ \E r \in seen \cup {resource'} :
                 out' \in Answers(op, r) \/ (excused' /\ out' = "ok")
           /\ seen' = {} /\ Excuse

Reject == /\ op # "idle" /\ op \notin NeverThrows /\ op' = "idle" /\ out' = "error"
          /\ resource' \in Resources /\ seen' = {} /\ Excuse

(* A call the driver refuses before any request. *)
Refuse == /\ op = "idle" /\ op' = "idle" /\ out' = "error" /\ excused' = FALSE
          /\ UNCHANGED <<resource, seen>>

(* Between calls the platform may do anything but bring back what is gone. *)
Drift == /\ op = "idle" /\ resource' \in Resources
         /\ resource = "gone" => resource' = "gone"
         /\ UNCHANGED <<op, seen, excused, out>>

(* The host of the driver restarts: the call under way is answered by nobody. *)
Forget == op' = "idle" /\ seen' = {} /\ out' = "none" /\ UNCHANGED <<resource, excused>>

Next == /\ Begin \/ Change \/ Resolve \/ Reject \/ Refuse \/ Drift \/ Forget
        /\ UNCHANGED <<warms, suspends>>

Spec == Init /\ [][Next]_vars
================================================================================
