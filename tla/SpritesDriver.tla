----------------------------- MODULE SpritesDriver -----------------------------
(***************************************************************************)
(* substrates/sprites.ts: a sandbox that suspends when idle and wakes on    *)
(* activity, so sleep is no request and wake is a command.                  *)
(***************************************************************************)
EXTENDS Naturals, Sequences

CONSTANT MaxFrames   \* frames of an exec answer

VARIABLES inst,   \* the sprite: "none", "suspended" or "active"
          mem,    \* [handle: the caller has one]
          op, at, out

vars == <<inst, mem, op, at, out>>

TypeOK == /\ inst \in {"none", "suspended", "active"} /\ mem \in [handle : BOOLEAN]
          /\ at \in {"-", "post", "delete", "nothing", "exec", "get"}

Init == /\ inst = "none" /\ op = "idle" /\ at = "-" /\ out = "none"
        /\ mem = [handle |-> FALSE]

Resource == CASE inst = "none" -> "gone" [] inst = "active" -> "awake" [] OTHER -> "warm"

Return(v) == op' = "idle" /\ at' = "-" /\ out' = v

FirstStep == [materialize |-> "post", destroy |-> "delete", sleep |-> "nothing",
              wake |-> "exec", exec |-> "exec", exposePort |-> "get"]

call(o) == /\ op = "idle" /\ mem.handle = (o # "materialize")
           /\ op' = o /\ at' = FirstStep[o] /\ out' = "none" /\ UNCHANGED <<inst, mem>>

(* The name is the computer's: a sprite that exists already refuses the create. *)
materialize == /\ at = "post"
               /\ \/ inst = "none" /\ inst' = "active" /\ mem' = [handle |-> TRUE] /\ Return("ok")
                  \/ UNCHANGED mem /\ Return("error")
                     /\ inst' \in {inst, IF inst = "none" THEN "active" ELSE inst}

destroy == /\ at = "delete"
           /\ \/ inst' = "none" /\ mem' = [handle |-> FALSE] /\ Return("ok")
              \/ inst' \in {inst, "none"} /\ UNCHANGED mem /\ Return("error")

sleep == at = "nothing" /\ Return("ok") /\ UNCHANGED <<inst, mem>>

(* An exec answer is frames: output, an exit code of one byte, or damage.  The
   code is that of the last exit frame, and an answer without one is an error. *)
Frames == {"output", "exit", "damaged"}
parseExecFrames(f) ==
  IF (\E i \in DOMAIN f : f[i] = "damaged") \/ (\A i \in DOMAIN f : f[i] # "exit")
    THEN "error" ELSE "ok"

(* The request itself wakes the sprite; a wake is the command `true`. *)
exec == /\ at = "exec" /\ UNCHANGED mem
        /\ \/ /\ inst # "none" /\ inst' = "active"
              /\ \E f \in UNION {[1..n -> Frames] : n \in 0..MaxFrames} : Return(parseExecFrames(f))
           \/ UNCHANGED inst /\ Return("error")

exposePort == /\ at = "get" /\ UNCHANGED <<inst, mem>>
              /\ (inst # "none" /\ Return("ok")) \/ Return("error")

platform == /\ UNCHANGED <<mem, op, at, out>>
            /\ \/ inst = "active" /\ inst' = "suspended"
               \/ inst # "none" /\ inst' = "none"

Step == materialize \/ destroy \/ sleep \/ exec \/ exposePort

Next == (\E o \in DOMAIN FirstStep : call(o)) \/ Step \/ platform
================================================================================
