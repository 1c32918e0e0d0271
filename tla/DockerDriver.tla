----------------------------- MODULE DockerDriver -----------------------------
(***************************************************************************)
(* substrates/docker.ts: a container of a local daemon.  Each daemon call  *)
(* is one step and may fail; the driver adds no timeout and no cleanup.     *)
(***************************************************************************)
EXTENDS Naturals

VARIABLES inst,   \* the container: "none", "created", "running", "paused", "exited"
          mem,    \* [image: present on the host, handle: the caller has one]
          op, at, out

vars == <<inst, mem, op, at, out>>

TypeOK == /\ inst \in {"none", "created", "running", "paused", "exited"}
          /\ mem \in [image : BOOLEAN, handle : BOOLEAN]
          /\ at \in {"-", "image", "create", "start", "remove", "pause", "unpause",
                     "exec", "inspect", "status"}

Init == /\ inst = "none" /\ op = "idle" /\ at = "-" /\ out = "none"
        /\ mem \in [image : BOOLEAN, handle : {FALSE}]

Resource == CASE inst = "none" -> "gone" [] inst = "running" -> "awake" [] OTHER -> "warm"

Return(v) == op' = "idle" /\ at' = "-" /\ out' = v
Goto(step) == at' = step /\ UNCHANGED <<op, out>>

FirstStep == [materialize |-> "image", destroy |-> "remove", sleep |-> "pause",
              wake |-> "unpause", exec |-> "exec", exposePort |-> "inspect",
              instanceStatus |-> "status"]

call(o) == /\ op = "idle" /\ mem.handle = (o # "materialize")
           /\ op' = o /\ at' = FirstStep[o] /\ out' = "none" /\ UNCHANGED <<inst, mem>>

(* Pull the image if the daemon does not have it. *)
ensureImage == /\ at = "image" /\ UNCHANGED inst
               /\ \/ mem' = [mem EXCEPT !.image = TRUE] /\ Goto("create")
                  \/ UNCHANGED mem /\ Return("error")

(* Create, then start.  A container whose start fails stays, and with no handle
   returned nobody removes it. *)
materialize ==
  \/ /\ at = "create" /\ UNCHANGED mem
     /\ \/ mem.image /\ inst' = "created" /\ Goto("start")
        \/ UNCHANGED inst /\ Return("error")
  \/ /\ at = "start"
     /\ \/ inst = "created" /\ inst' = "running" /\ mem' = [mem EXCEPT !.handle = TRUE] /\ Return("ok")
        \/ UNCHANGED <<inst, mem>> /\ Return("error")

(* A forced removal; a container already gone is success. *)
destroy == /\ at = "remove"
           /\ \/ inst' = "none" /\ mem' = [mem EXCEPT !.handle = FALSE] /\ Return("ok")
              \/ inst' \in {inst, "none"} /\ UNCHANGED mem /\ Return("error")

(* Pausing the paused is a success only where the daemon says 304. *)
sleep == /\ at = "pause" /\ UNCHANGED mem
         /\ \/ inst \in {"running", "paused"} /\ inst' = "paused" /\ Return("ok")
            \/ Return("error") /\ inst' \in {inst, IF inst = "running" THEN "paused" ELSE inst}

wake == /\ at = "unpause" /\ UNCHANGED mem
        /\ \/ inst \in {"running", "paused"} /\ inst' = "running" /\ Return("ok")
           \/ Return("error") /\ inst' \in {inst, IF inst = "paused" THEN "running" ELSE inst}

exec == /\ at = "exec" /\ UNCHANGED <<inst, mem>>
        /\ (inst = "running" /\ Return("ok")) \/ Return("error")

(* Only a port the container was created with has a binding, and only while up. *)
exposePort == /\ at = "inspect" /\ UNCHANGED <<inst, mem>>
              /\ (inst \in {"running", "paused"} /\ Return("ok")) \/ Return("error")

(* Any container that exists is alive; only a 404 is gone. *)
instanceStatus == /\ at = "status" /\ UNCHANGED <<inst, mem>>
                  /\ \/ Return("unknown")
                     \/ inst = "none" /\ Return("gone")
                     \/ inst # "none" /\ Return("alive")

(* The daemon's side: the process exits, the container is removed by hand. *)
platform == /\ inst # "none" /\ UNCHANGED <<mem, op, at, out>>
            /\ \/ inst = "running" /\ inst' = "exited"
               \/ inst' = "none"

Step == ensureImage \/ materialize \/ destroy \/ sleep \/ wake \/ exec \/ exposePort
        \/ instanceStatus

Next == (\E o \in DOMAIN FirstStep : call(o)) \/ Step \/ platform
================================================================================
