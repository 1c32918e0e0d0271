--------------------------- MODULE CloudflareDriver ---------------------------
(***************************************************************************)
(* substrates/cloudflare.ts: the one container slot of a Durable Object.   *)
(* start() answers nothing, `running` may stay true for minutes after the   *)
(* instance went, and a destroy may outlast the driver's budget, so the     *)
(* driver believes only a command that ran.                                 *)
(***************************************************************************)
EXTENDS Naturals

CONSTANTS MaxGen,       \* generations the caller mints
          MaxAttempts   \* start attempts before the budget is spent

VARIABLES inst,   \* the slot: [gen: 0 for none, up: a command can run]
          mem,    \* [flag: container.running, startup: the generation whose options
                  \*  are in provider memory (0: none), handle: the generation of the
                  \*  caller's handle (0: none), gen: the last generation minted,
                  \*  tries: start attempts of this call, late: a destroy of this
                  \*  call outlasted its budget, draining: it is still to land]
          op, at, out

vars == <<inst, mem, op, at, out>>

TypeOK == /\ inst \in [gen : 0..MaxGen, up : BOOLEAN]
          /\ mem \in [flag : BOOLEAN, startup : 0..MaxGen, handle : 0..MaxGen,
                      gen : 0..MaxGen, tries : 0..MaxAttempts, late : BOOLEAN,
                      draining : BOOLEAN]
          /\ at \in {"-", "replace", "start", "probe", "destroy", "exec", "port", "hold",
                     "flag", "confirm"}

None == [gen |-> 0, up |-> FALSE]

Init == /\ inst = None /\ op = "idle" /\ at = "-" /\ out = "none"
        /\ mem = [flag |-> FALSE, startup |-> 0, handle |-> 0, gen |-> 0, tries |-> 0,
                  late |-> FALSE, draining |-> FALSE]

Resource == CASE inst.gen = 0 -> "gone" [] inst.up -> "awake" [] OTHER -> "warm"

Return(v) == op' = "idle" /\ at' = "-" /\ out' = v
Goto(step) == at' = step /\ UNCHANGED <<op, out>>

FirstStep == [destroy |-> "destroy", sleep |-> "destroy", wake |-> "start",
              exec |-> "exec", exposePort |-> "port", instanceStatus |-> "flag",
              holdAwake |-> "hold"]

(* Mutant: what still runs in the slot is not destroyed first. *)
callMaterializeOver ==
  /\ op = "idle" /\ mem.gen < MaxGen
  /\ mem' = [mem EXCEPT !.gen = @ + 1, !.tries = 0, !.late = FALSE]
  /\ op' = "materialize" /\ out' = "none" /\ at' = "start" /\ UNCHANGED inst

(* The caller mints a generation before it materializes.  An instance that still
   runs is the previous one's, and is destroyed first. *)
callMaterialize ==
  /\ op = "idle" /\ mem.gen < MaxGen
  /\ mem' = [mem EXCEPT !.gen = @ + 1, !.tries = 0, !.late = FALSE]
  /\ op' = "materialize" /\ out' = "none" /\ UNCHANGED inst
  /\ at' = IF mem.flag THEN "replace" ELSE "start"

(* A wake needs the startup options this activation recorded. *)
call(o) ==
  /\ op = "idle" /\ mem.handle # 0
  /\ mem' = [mem EXCEPT !.tries = 0, !.late = FALSE] /\ UNCHANGED inst
  /\ IF o = "wake" /\ mem.startup = 0
       THEN Return("error")
       ELSE op' = o /\ at' = FirstStep[o] /\ out' = "none"

--------------------------------------------------------------------------------
(* destroy, where "no instance", "not running" and the driver's own timeout all
   count as done.  After a timeout the platform's destroy may still land. *)
destroyQuietly(done, failed) ==
  \/ inst' = None /\ mem' = [mem EXCEPT !.draining = FALSE] /\ done
  \/ mem' = [mem EXCEPT !.late = TRUE, !.draining = TRUE] /\ UNCHANGED inst /\ done
  \/ UNCHANGED <<inst, mem>> /\ failed

replace == at = "replace" /\ destroyQuietly(Goto("start"), Return("error"))

(* sleep is destroy: there is no WARM here. *)
destroy == at = "destroy" /\ destroyQuietly(Return("ok"), Return("error"))

(* The generation the start under way is for. *)
Wanted == IF op = "wake" THEN mem.startup ELSE mem.gen

(* start() throws "already running" on a slot the platform still counts as up, and
   that is ignored; accepted, the instance comes up later or never. *)
start ==
  /\ at = "start" /\ Goto("probe")
  /\ \/ /\ inst.gen = 0 /\ ~mem.flag
        /\ inst' = [gen |-> Wanted, up |-> FALSE]
        /\ mem' = [mem EXCEPT !.flag = TRUE, !.tries = @ + 1]
     \/ /\ UNCHANGED inst /\ mem' = [mem EXCEPT !.tries = @ + 1]

(* A command is bounded and runs only where an instance is up. *)
execRaw == inst.up

(* Mutant: the wait for the first command has no budget. *)
probeForever ==
  /\ at = "probe" /\ UNCHANGED inst
  /\ \/ /\ execRaw /\ Return("ok")
        /\ mem' = [mem EXCEPT !.startup = mem.gen, !.handle = mem.gen, !.tries = 0]
     \/ mem' = [mem EXCEPT !.tries = 0] /\ Goto("start")

(* The first command that runs ends the wait; otherwise again, until the budget is
   spent. *)
probe ==
  /\ at = "probe" /\ UNCHANGED inst
  /\ \/ /\ execRaw /\ Return("ok")
        /\ mem' = IF op = "wake" THEN mem
                  ELSE [mem EXCEPT !.startup = mem.gen, !.handle = mem.gen]
     \/ /\ UNCHANGED mem
        /\ IF mem.tries = MaxAttempts THEN Return("error") ELSE Goto("start")

--------------------------------------------------------------------------------
(* exec refuses unless the instance runs -- it never starts one. *)
exec == /\ at = "exec" /\ UNCHANGED <<inst, mem>>
        /\ \/ mem.flag /\ execRaw /\ Return("ok")
           \/ Return("error")

exposePort == /\ at = "port" /\ UNCHANGED <<inst, mem>>
              /\ Return(IF mem.flag THEN "ok" ELSE "error")

(* A false flag is gone; a true one is confirmed by a command, and only the
   platform's refusal for want of an instance is gone. *)
instanceStatus ==
  /\ UNCHANGED <<inst, mem>>
  /\ \/ at = "flag" /\ (IF mem.flag THEN Goto("confirm") ELSE Return("gone"))
     \/ /\ at = "confirm"
        /\ \/ execRaw /\ Return("alive")
           \/ inst.gen = 0 /\ Return("gone")
           \/ Return("unknown")

holdAwake == at = "hold" /\ Return("ok") /\ UNCHANGED <<inst, mem>>

--------------------------------------------------------------------------------
(* The platform: an accepted start comes up, a late destroy lands, an instance
   stops or is evicted, the flag catches up.  A flag is false only with no
   instance, and may be true for long with none. *)
platform ==
  /\ UNCHANGED <<op, at, out>>
  /\ \/ inst.gen # 0 /\ ~inst.up /\ inst' = [inst EXCEPT !.up = TRUE] /\ UNCHANGED mem
     \/ mem.draining /\ inst' = None /\ mem' = [mem EXCEPT !.draining = FALSE]
     \/ inst.gen # 0 /\ inst' = None /\ UNCHANGED mem
     \/ inst.gen = 0 /\ mem.flag /\ mem' = [mem EXCEPT !.flag = FALSE] /\ UNCHANGED inst

(* The activation ends; what was in memory, and the call under way, are lost. *)
restart == /\ op # "idle" \/ mem.startup # 0
           /\ op' = "idle" /\ at' = "-" /\ out' = "none" /\ UNCHANGED inst
           /\ mem' = [mem EXCEPT !.startup = 0]

Step == replace \/ destroy \/ start \/ probe \/ exec \/ exposePort \/ instanceStatus
        \/ holdAwake

Next == callMaterialize \/ (\E o \in DOMAIN FirstStep : call(o)) \/ Step \/ platform \/ restart

--------------------------------------------------------------------------------
(* The step that resolves a materialize: what is in the slot is the generation it
   was asked for. *)
StartsTheNew == (op = "materialize" /\ out' = "ok") => inst'.gen \in {0, mem.gen}
================================================================================
