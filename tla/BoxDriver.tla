------------------------------- MODULE BoxDriver -------------------------------
(***************************************************************************)
(* substrates/box.ts: a machine behind an HTTP API whose transitions are   *)
(* asynchronous, so every lifecycle call is a request followed by a poll    *)
(* with a deadline.  Any request may go unanswered, and one that changes    *)
(* the box may have been served all the same.                               *)
(***************************************************************************)
EXTENDS Naturals

CONSTANTS MaxPolls,   \* polls before a deadline passes
          HasTtl      \* the deployment configures ttlSeconds

VARIABLES inst,   \* the platform's state of the box
          mem,    \* [bootstrap: kept in provider memory, handle: the caller has one,
                  \*  marid: the supervisor runs, polls: polls of this wait,
                  \*  lost: a request of this call went unserved or unanswered]
          op, at, \* the call under way and the step it is at
          out     \* how the last call ended

vars == <<inst, mem, op, at, out>>

BoxStates == {"none", "pending", "ready", "archiving", "archived", "error"}

TypeOK == /\ inst \in BoxStates
          /\ mem \in [bootstrap : BOOLEAN, handle : BOOLEAN, marid : BOOLEAN,
                      polls : 0..MaxPolls, lost : BOOLEAN]
          /\ at \in {"-", "create", "poll", "bootstrap", "cleanup", "stop", "settle",
                     "resume", "command", "host", "host url", "get", "patch"}

Init == /\ inst = "none" /\ op = "idle" /\ at = "-" /\ out = "none"
        /\ mem = [bootstrap |-> FALSE, handle |-> FALSE, marid |-> FALSE,
                  polls |-> 0, lost |-> FALSE]

(* What the box is to the caller: an archived one is WARM. *)
Resource == CASE inst = "none" -> "gone"
              [] inst = "ready" -> IF mem.marid THEN "awake" ELSE "up"
              [] OTHER -> "warm"

--------------------------------------------------------------------------------
Return(v) == op' = "idle" /\ at' = "-" /\ out' = v
Goto(step) == at' = step /\ UNCHANGED <<op, out>>
Lost(m) == [m EXCEPT !.lost = TRUE]

(* A request that would leave the box in state `served` and ends in an error, its
   budget spent or its answer a refusal: it may have been served all the same. *)
requestFails(served) == inst' \in {inst, served} /\ mem' = Lost(mem)

(* Mutant: the failure is reported and the box left as it is. *)
FailAtOnce == Return("error") /\ mem' = [mem EXCEPT !.bootstrap = FALSE]

(* A box whose supervisor never started must not be left billing: a materialize
   that fails stops it before the error is reported.  Any other call just fails. *)
Fail == IF op = "materialize"
          THEN /\ mem' = [mem EXCEPT !.bootstrap = FALSE] /\ Goto("cleanup")
          ELSE /\ Return("error") /\ UNCHANGED mem

FirstStep == [materialize |-> "create", destroy |-> "stop", sleep |-> "stop",
              wake |-> "resume", exec |-> "command", exposePort |-> "host",
              instanceStatus |-> "get", holdAwake |-> "patch"]

(* A call begins.  materialize is for a caller without a handle, the others for
   one that has it; a wake without the bootstrap state is refused before any
   request, and the archived box stays as it is. *)
call(o) ==
  /\ op = "idle" /\ mem.handle = (o # "materialize")
  /\ mem' = [mem EXCEPT !.lost = FALSE, !.polls = 0] /\ UNCHANGED inst
  /\ IF o = "wake" /\ ~mem.bootstrap
       THEN op' = "idle" /\ at' = "-" /\ out' = "error"
       ELSE op' = o /\ at' = FirstStep[o] /\ out' = "none"

(* POST /boxes: created, refused, or unanswered -- the box of a lost answer has
   an id nobody knows, and is not this one. *)
create ==
  /\ at = "create"
  /\ \/ /\ inst' = "pending" /\ Goto("poll")
        /\ mem' = [mem EXCEPT !.bootstrap = TRUE, !.marid = FALSE]
     \/ Return("error") /\ UNCHANGED <<inst, mem>>

(* Mutant: the wait has no deadline. *)
pollForever ==
  /\ at = "poll" /\ UNCHANGED inst
  /\ \/ inst = "ready" /\ Goto("bootstrap") /\ mem' = [mem EXCEPT !.polls = 0]
     \/ inst = "pending" /\ mem' = [mem EXCEPT !.polls = @ + 1] /\ Goto("poll")
     \/ inst \notin {"ready", "pending"} /\ Fail

(* GET until the machine accepts commands: pending states go on until the
   deadline, a state that will not progress ends the wait at once. *)
pollUntilRunning ==
  /\ at = "poll" /\ UNCHANGED inst
  /\ \/ inst = "ready" /\ Goto("bootstrap") /\ mem' = [mem EXCEPT !.polls = 0]
     \/ /\ inst = "pending" /\ mem.polls < MaxPolls
        /\ mem' = [mem EXCEPT !.polls = @ + 1] /\ Goto("poll")
     \/ (inst \notin {"ready", "pending"} \/ mem.polls = MaxPolls) /\ Fail
     \/ Fail     \* the GET itself failed

(* A command runs on a machine that is up, and its transport may be down. *)
command(done) == (inst = "ready" /\ done) \/ (Return("error") /\ UNCHANGED mem)

(* The transport of a machine just up may still be restoring: that refusal alone is
   tried again, until the same deadline. *)
commandWhenReady(done) ==
  \/ inst = "ready" /\ done
  \/ mem.polls < MaxPolls /\ mem' = [mem EXCEPT !.polls = @ + 1] /\ Goto(at)
  \/ Fail

(* Install marid and start it as a service that has to stay up. *)
bootstrap ==
  /\ at = "bootstrap" /\ UNCHANGED inst
  /\ commandWhenReady(Return("ok") /\ mem' = [mem EXCEPT !.marid = TRUE, !.handle = TRUE])

--------------------------------------------------------------------------------
(* POST /stop counts as done when the box is gone, or answers 409 and is then
   seen archiving or archived -- or cannot be read. *)
StopServed == IF inst \in {"pending", "ready", "error"} THEN "archiving" ELSE inst

stopDone == \/ inst' = StopServed /\ mem' = mem
            \/ /\ inst \notin {"none", "ready"}   \* 409, and the peek unreadable
               /\ UNCHANGED inst /\ mem' = Lost(mem)
stopFails == requestFails(StopServed)             \* unanswered, or 409 and still up

stopBox == /\ at = "stop"
           /\ \/ stopDone /\ Goto("settle")
              \/ stopFails /\ Return("error")

stopQuietly == /\ at = "cleanup" /\ (stopDone \/ stopFails) /\ Return("error")

(* Mutant: an archived box counts as destroyed. *)
pollUntilArchivedIsEnough ==
  /\ at = "settle" /\ UNCHANGED inst
  /\ \/ inst \in {"archived", "none"} /\ Return("ok") /\ UNCHANGED mem
     \/ Return("error") /\ UNCHANGED mem

(* sleep resolves on an archived box.  destroy never does: the snapshot is kept,
   and only a 404 is destruction. *)
pollUntilArchived ==
  /\ at = "settle" /\ UNCHANGED inst
  /\ \/ /\ inst = "archived"
        /\ IF op = "sleep" THEN Return("ok") /\ UNCHANGED mem
           ELSE Return("error") /\ mem' = [mem EXCEPT !.bootstrap = FALSE]
     \/ /\ inst = "none"
        /\ IF op = "sleep" THEN Return("error") /\ UNCHANGED mem
           ELSE Return("ok") /\ mem' = [mem EXCEPT !.bootstrap = FALSE, !.handle = FALSE]
     \/ /\ inst \in {"pending", "ready", "archiving"} /\ mem.polls < MaxPolls
        /\ mem' = [mem EXCEPT !.polls = @ + 1] /\ Goto("settle")
     \/ Return("error") /\ UNCHANGED mem     \* error state, deadline or failed GET

(* POST /resume.  A 409 -- up already, or still archiving -- is left to the poll,
   which waits for neither "archiving" nor "archived". *)
resume ==
  /\ at = "resume"
  /\ \/ inst = "archived" /\ inst' = "pending" /\ Goto("poll") /\ UNCHANGED mem
     \/ inst \in {"pending", "ready", "archiving"} /\ Goto("poll") /\ UNCHANGED <<inst, mem>>
     \/ requestFails(IF inst = "archived" THEN "pending" ELSE inst) /\ Return("error")

exec == at = "command" /\ UNCHANGED inst /\ command(Return("ok") /\ UNCHANGED mem)

(* Two commands: register the route, then read its URL. *)
exposePort ==
  /\ UNCHANGED inst
  /\ \/ at = "host" /\ command(Goto("host url") /\ UNCHANGED mem)
     \/ at = "host url" /\ command(Return("ok") /\ UNCHANGED mem)

(* A box in "error" is not vouched for: unknown, as is every failed read. *)
instanceStatus ==
  /\ at = "get" /\ UNCHANGED <<inst, mem>>
  /\ \/ Return("unknown")
     \/ inst = "none" /\ Return("gone")
     \/ inst \notin {"none", "error"} /\ Return("alive")

holdAwake == at = "patch" /\ Return("ok") /\ UNCHANGED <<inst, mem>>

--------------------------------------------------------------------------------
(* The platform: asynchronous transitions, its own TTL, deletion.  A machine that
   stops loses its processes, and a resumed one has no launcher until bootstrap. *)
platform ==
  /\ UNCHANGED <<op, at, out>>
  /\ \/ inst = "pending" /\ inst' \in {"ready", "error"} /\ UNCHANGED mem
     \/ /\ inst = "archiving" /\ inst' = "archived"
        /\ mem' = [mem EXCEPT !.marid = FALSE]
     \/ HasTtl /\ inst = "ready" /\ inst' = "archiving" /\ UNCHANGED mem
     \/ /\ inst # "none" /\ inst' = "none"
        /\ mem' = [mem EXCEPT !.marid = FALSE]

(* The provider's activation ends: what it kept in memory is lost. *)
restart == /\ mem.bootstrap \/ op # "idle"
           /\ op' = "idle" /\ at' = "-" /\ out' = "none" /\ UNCHANGED inst
           /\ mem' = [mem EXCEPT !.bootstrap = FALSE, !.polls = 0]

Step == create \/ pollUntilRunning \/ bootstrap \/ stopBox \/ stopQuietly
        \/ pollUntilArchived \/ resume \/ exec \/ exposePort \/ instanceStatus \/ holdAwake

Next == (\E o \in DOMAIN FirstStep : call(o)) \/ Step \/ platform \/ restart

(* The step that reports a failed materialize: the machine is down or on its way
   down, unless the platform did not serve the stop. *)
StopsWhatFailed ==
  (op = "materialize" /\ op' = "idle" /\ out' = "error" /\ at # "create")
    => inst' \in {"none", "archiving", "archived"} \/ mem'.lost
================================================================================
