-------------------------------- MODULE Fleet --------------------------------
(***************************************************************************)
(* app.ts over db/fleet.ts: the routes of one account's fleet.  A request    *)
(* is a sequence of awaited calls - a D1 statement, a call on a computer's   *)
(* Durable Object, a store operation - and two requests interleave between   *)
(* them; a request may also be cut anywhere, when its isolate goes away.     *)
(* The Durable Object is reduced to what these routes read of it.            *)
(***************************************************************************)
EXTENDS Naturals, FiniteSets

CONSTANTS Computers, \* the ids randomUUID may mint
          Requests,  \* slots of requests in flight
          Caps,      \* what LIMIT_MAX_COMPUTERS may come to, 0 for unlimited
          MaxFaults, \* refusals, failures and cuts in a behaviour
          None

VARIABLES row,     \* D1: id -> its row's head, or "no row"
          minted,  \* ids newComputerId has returned
          lineage, \* D1: pairs <<child, parent>>
          secrets, \* D1: ids with a vault entry
          meta,    \* id -> the Durable Object's state, head, handle, wake in flight
          inst,    \* ids with an instance on the substrate
          objects, \* ids with journal, run, state or heat objects in the store
          req,     \* slot -> the request in it
          excused, \* history: ids whose creation or delete was overlapped or cut
          faults,
          cap      \* planLimits(env).maxComputers of this deployment

vars == <<row, minted, lineage, secrets, meta, inst, objects, req, excused, faults, cap>>

NoRow == "no row"
Manifests == {"base", "snapshot"}

ASSUME FleetAssumption == /\ Caps \subseteq Nat /\ MaxFaults \in Nat /\ IsFiniteSet(Computers)
                          /\ None \notin Manifests \cup {NoRow}

Idle == [op |-> "idle"]
Busy(r) == req[r].op # "idle"
Rows == {c \in Computers : row[c] # NoRow}
Owned(c) == row[c] # NoRow   \* getOwnedComputer
InFlight(c) == meta[c].waking \/ \E r \in Requests : Busy(r) /\ req[r].c = c
Deleting(c) == \E r \in Requests : req[r].op = "delete" /\ req[r].c = c
Creating(c) == \E r \in Requests : req[r].op \in {"create", "fork"} /\ req[r].c = c

(* What the file routes browse: the Durable Object's head, else the row's. *)
FileHead(c) == IF meta[c].head # None THEN meta[c].head ELSE row[c]

canCreateComputer == cap = 0 \/ Cardinality(Rows) < cap

Fault == faults < MaxFaults /\ faults' = faults + 1
d1 == <<row, lineage, secrets, cap>>

--------------------------------------------------------------------------------
Init == /\ row = [c \in Computers |-> NoRow] /\ minted = {} /\ lineage = {} /\ secrets = {}
        /\ meta = [c \in Computers |->
                     [state |-> "cold", head |-> None, handle |-> FALSE, waking |-> FALSE]]
        /\ inst = {} /\ objects = {} /\ excused = {} /\ faults = 0
        /\ req = [r \in Requests |-> Idle] /\ cap \in Caps

Goes(r, at) == req' = [req EXCEPT ![r].at = at]
Answered(r) == req' = [req EXCEPT ![r] = Idle]

(* Past its ownership check a request is in flight.  A creation or a delete that
   another request of the same computer overlaps is recorded. *)
Arrives(r, op, c, at) ==
  /\ ~Busy(r) /\ req' = [req EXCEPT ![r] = [op |-> op, c |-> c, at |-> at]]
  /\ excused' = IF \/ op = "delete" /\ InFlight(c)
                   \/ Deleting(c) \/ Creating(c)
                THEN excused \cup {c} ELSE excused

(* POST /api/computers and POST .../fork up to the insert: the gate, the head
   the computer starts from, and its id. *)
Mint(r, op, head, src) ==
  \E c \in Computers \ minted :
    /\ ~Busy(r) /\ canCreateComputer /\ minted' = minted \cup {c}
    /\ req' = [req EXCEPT ![r] = [op |-> op, c |-> c, at |-> "insert",
                                  head |-> head, src |-> src]]
    /\ UNCHANGED <<d1, meta, inst, objects, excused, faults>>

create(r) == Mint(r, "create", "base", None)

fork(r) == \E src \in Rows : Mint(r, "fork", FileHead(src), src)

(* Mutant: the insert trusts the count the gate read. *)
insertComputerUnguarded(r) ==
  /\ req[r].op \in {"create", "fork"} /\ req[r].at = "insert"
  /\ row' = [row EXCEPT ![req[r].c] = req[r].head]
  /\ Goes(r, IF req[r].op = "fork" THEN "lineage" ELSE "init")
  /\ UNCHANGED <<cap, minted, lineage, secrets, meta, inst, objects, excused, faults>>

(* One statement counts and inserts; a full account gets 403 and no row. *)
insertComputer(r) ==
  /\ req[r].op \in {"create", "fork"} /\ req[r].at = "insert"
  /\ \/ /\ canCreateComputer
        /\ row' = [row EXCEPT ![req[r].c] = req[r].head]
        /\ Goes(r, IF req[r].op = "fork" THEN "lineage" ELSE "init")
     \/ /\ ~canCreateComputer /\ UNCHANGED row /\ Answered(r)
  /\ UNCHANGED <<cap, minted, lineage, secrets, meta, inst, objects, excused, faults>>

insertLineage(r) ==
  /\ req[r].op = "fork" /\ req[r].at = "lineage"
  /\ lineage' = lineage \cup {<<req[r].c, req[r].src>>} /\ Goes(r, "init")
  /\ excused' = IF row[req[r].src] = NoRow \/ Deleting(req[r].src)
                THEN excused \cup {req[r].src} ELSE excused
  /\ UNCHANGED <<cap, row, minted, secrets, meta, inst, objects, faults>>

(* Mutant: the fork's Durable Object is bound but not seeded. *)
initUnseeded(r) ==
  /\ req[r].op \in {"create", "fork"} /\ req[r].at = "init"
  /\ meta' = [meta EXCEPT ![req[r].c].state = "cold"]
  /\ Answered(r) /\ UNCHANGED <<d1, minted, inst, objects, excused, faults>>

initFromManifest(r) ==
  /\ req[r].op \in {"create", "fork"} /\ req[r].at = "init"
  /\ meta' = [meta EXCEPT ![req[r].c].head = req[r].head, ![req[r].c].state = "cold"]
  /\ Answered(r) /\ UNCHANGED <<d1, minted, inst, objects, excused, faults>>

--------------------------------------------------------------------------------
(* DELETE /api/computers/:id: the substrate, then the store, then the rows. *)
delete(r) == /\ \E c \in Rows : Arrives(r, "delete", c, "teardown")
             /\ UNCHANGED <<d1, minted, meta, inst, objects, faults>>

Wiped(c) == meta' = [meta EXCEPT ![c].handle = FALSE]

deletePermanently(r) ==
  LET c == req[r].c IN
  /\ req[r].op = "delete" /\ req[r].at = "teardown"
  /\ IF meta[c].handle THEN Goes(r, "destroying") /\ UNCHANGED meta
     ELSE Goes(r, "store") /\ Wiped(c)
  /\ UNCHANGED <<d1, minted, inst, objects, excused, faults>>

(* Mutant: a destroy that failed counts as a teardown. *)
destroyedAnyway(r) ==
  LET c == req[r].c IN
  /\ req[r].op = "delete" /\ req[r].at = "destroying"
  /\ \/ inst' = inst \ {c} /\ UNCHANGED faults
     \/ UNCHANGED inst /\ Fault
  /\ Wiped(c) /\ Goes(r, "store")
  /\ UNCHANGED <<d1, minted, objects, excused>>

destroyed(r) ==
  LET c == req[r].c IN
  /\ req[r].op = "delete" /\ req[r].at = "destroying"
  /\ \/ inst' = inst \ {c} /\ Wiped(c) /\ Goes(r, "store") /\ UNCHANGED faults
     \/ inst' \in {inst, inst \ {c}} /\ Fault /\ Answered(r) /\ UNCHANGED meta
  /\ UNCHANGED <<d1, minted, objects, excused>>

deleteComputerStoreData(r) ==
  /\ req[r].op = "delete" /\ req[r].at = "store"
  /\ \/ objects' = objects \ {req[r].c} /\ Goes(r, "rows") /\ UNCHANGED faults
     \/ objects' \in {objects, objects \ {req[r].c}} /\ Fault /\ Answered(r)
  /\ UNCHANGED <<d1, minted, meta, inst, excused>>

deleteComputer(r) ==
  LET c == req[r].c IN
  /\ req[r].op = "delete" /\ req[r].at = "rows"
  /\ row' = [row EXCEPT ![c] = NoRow] /\ secrets' = secrets \ {c}
  /\ lineage' = {e \in lineage : e[1] # c /\ e[2] # c}
  /\ Answered(r) /\ UNCHANGED <<cap, minted, meta, inst, objects, excused, faults>>

--------------------------------------------------------------------------------
(* The routes that can start a wake: POST .../wake, POST .../runs, the two file
   writes and a preview host's request pass ownership and the compute gate
   (Metering), then call the object. *)
Passes(r) == /\ \E c \in Rows : Arrives(r, "wake", c, "granted")
             /\ UNCHANGED <<d1, minted, meta, inst, objects, faults>>

wakeRoute(r) == Passes(r)
runRoute(r) == Passes(r)
writeRoute(r) == Passes(r)
tryWakeProxy(r) == Passes(r)

Wakes(c) == ~(meta[c].state = "awake" /\ meta[c].handle)

wake(r) ==
  LET c == req[r].c IN
  /\ req[r].op = "wake" /\ req[r].at = "granted" /\ Answered(r)
  /\ meta' = IF Wakes(c) THEN [meta EXCEPT ![c].waking = TRUE] ELSE meta
  /\ UNCHANGED <<d1, minted, inst, objects, excused, faults>>

(* The substrate answers the wake in flight, with 202 or 503 if it refused. *)
answered(c) ==
  /\ meta[c].waking
  /\ \/ /\ inst' = inst \cup {c} /\ UNCHANGED faults
        /\ meta' = [meta EXCEPT ![c].waking = FALSE, ![c].handle = TRUE, ![c].state = "awake"]
     \/ /\ Fault /\ UNCHANGED inst
        /\ meta' = [meta EXCEPT ![c].waking = FALSE]
  /\ UNCHANGED <<d1, minted, objects, req, excused>>

(* POST .../sleep with deep, and the tier policy: COLD destroys the instance as
   well as it can and forgets it.  (WARM keeps the handle, and is AWAKE here.) *)
sleep(c) ==
  /\ Owned(c) /\ meta[c].handle /\ ~meta[c].waking /\ ~Deleting(c)
  /\ meta' = [meta EXCEPT ![c].state = "cold", ![c].handle = FALSE]
  /\ \/ inst' = inst \ {c} /\ UNCHANGED <<excused, faults>>
     \/ UNCHANGED inst /\ Fault /\ excused' = excused \cup {c}
  /\ UNCHANGED <<d1, minted, objects, req>>

(* The computer's supervisor writes its journal and runs, and a snapshot moves
   the head; the row mirrors it, best effort. *)
work(c) ==
  /\ c \in inst /\ objects' = objects \cup {c}
  /\ \/ UNCHANGED <<row, meta, faults>>
     \/ /\ meta[c].handle /\ meta[c].state = "awake" /\ ~meta[c].waking
        /\ meta' = [meta EXCEPT ![c].head = "snapshot"]
        /\ \/ row' = [row EXCEPT ![c] = IF @ = NoRow THEN NoRow ELSE "snapshot"] /\ UNCHANGED faults
           \/ UNCHANGED row /\ Fault
  /\ UNCHANGED <<cap, minted, lineage, secrets, inst, req, excused>>

(* PUT and DELETE .../secrets/:name. *)
secretRoute(r) ==
  /\ \E c \in Rows : Arrives(r, "secret", c, "checked")
  /\ UNCHANGED <<d1, minted, meta, inst, objects, faults>>

setSecret(r) ==
  /\ req[r].op = "secret" /\ Answered(r)
  /\ secrets' \in {secrets \cup {req[r].c}, secrets \ {req[r].c}}
  /\ UNCHANGED <<cap, row, lineage, minted, meta, inst, objects, excused, faults>>

(* The isolate that serves a request goes away between two of its awaits. *)
cut(r) == /\ Busy(r) /\ Fault /\ Answered(r)
          /\ excused' = IF req[r].op \in {"create", "fork"} THEN excused \cup {req[r].c}
                        ELSE excused
          /\ UNCHANGED <<d1, minted, meta, inst, objects>>

RequestStep(r) == \/ insertComputer(r) \/ insertLineage(r) \/ initFromManifest(r)
                  \/ deletePermanently(r) \/ destroyed(r) \/ deleteComputerStoreData(r)
                  \/ deleteComputer(r) \/ wake(r) \/ setSecret(r)

Next == \/ \E r \in Requests : \/ create(r) \/ fork(r) \/ delete(r) \/ wakeRoute(r) \/ runRoute(r)
                               \/ writeRoute(r) \/ tryWakeProxy(r) \/ secretRoute(r) \/ RequestStep(r) \/ cut(r)
        \/ \E c \in Computers : answered(c) \/ sleep(c) \/ work(c)

Spec == Init /\ [][Next]_vars

--------------------------------------------------------------------------------
TypeOK ==
  /\ row \in [Computers -> Manifests \cup {None, NoRow}]
  /\ minted \subseteq Computers /\ secrets \subseteq Computers
  /\ lineage \subseteq Computers \X Computers
  /\ meta \in [Computers -> [state : {"cold", "awake"}, head : Manifests \cup {None},
                             handle : BOOLEAN, waking : BOOLEAN]]
  /\ inst \subseteq Computers /\ objects \subseteq Computers /\ excused \subseteq Computers
  /\ faults \in 0..MaxFaults /\ cap \in Caps

(* However creates, forks and deletes interleave between the gate's count and the
   insert, an account never holds more computers than its plan allows
   (insertComputerWithinLimit). *)
UnderCap == cap # 0 => Cardinality(Rows) <= cap

LeftBehind(c) == c \in inst \cup objects \cup secrets \/ \E e \in lineage : c \in {e[1], e[2]}
Gone(c) == c \in minted /\ row[c] = NoRow /\ ~InFlight(c)

(* A computer whose row is gone has left nothing: no instance, no object, no vault
   entry, no lineage, whatever failed and was retried on the way.  The exceptions
   are the ids the history names: a request that overlapped the creation or the
   delete, and an instance a cold sleep could not destroy and forgot. *)
LeftOnlyByOverlap == \A c \in Computers \ excused : Gone(c) => ~LeftBehind(c)

(* The delete route's promise without the exceptions (db/fleet.ts: "so delete
   cannot leave vault values or lineage behind"; deletePermanently: the row is not
   removed unless the substrate confirms destruction). *)
NothingLeftBehind == \A c \in Computers : Gone(c) => ~LeftBehind(c)

(* What the file browser shows of a sleeping computer is what its next wake
   restores: the fallback to the row's head is only ever taken while its creation
   is in flight, or when that creation was cut or overlapped. *)
BrowsedIsRestored ==
  \A c \in Computers \ excused : Owned(c) /\ ~InFlight(c) => FileHead(c) = meta[c].head
================================================================================
