-------------------------------- MODULE Review --------------------------------
(***************************************************************************)
(* Review of runs: ComputerDO's keepRun and revertRun against the reports of *)
(* the supervisor that owns the disk.  A manifest is the set of runs whose    *)
(* changes it holds.  A request yields at its fleet row, so reports, other    *)
(* requests, a sleep and a restart of the object all happen inside it.        *)
(***************************************************************************)
EXTENDS Naturals, Sequences, FiniteSets

CONSTANTS Runs, Requests, None,
          MaxSnapshots, \* snapshots that are no run's, in a behaviour
          MaxFaults,    \* restarts, drops, failures
          MaxEpoch      \* generations

ASSUME NoneAssumption == None \notin Runs /\ \A m \in SUBSET Runs : m # None
ASSUME BoundAssumption == MaxSnapshots \in Nat /\ MaxFaults \in Nat /\ MaxEpoch \in Nat

VARIABLES head,   \* meta.head
          stored, \* what the object's storage holds of it
          epoch,
          run,    \* the runs table: status, preManifest, postManifest, disposition
          req,    \* slot -> a keep or revert in flight
          machine,\* "none", "up", or "closing" once prepare_for_cold is served
          conn,   \* its supervisor is attached
          disk,   \* what the machine's filesystem holds
          base,   \* marid: run -> the manifest it started from
          taken,  \* marid: snapshots taken and not yet reported
          wire,   \* to the object: reports, in order
          orders, \* to marid: restore_to_manifest, in order
          restoring, \* marid: restores begun and not done
          snapshots, faults

meta == <<head, stored, epoch>>
marid == <<machine, conn, disk, base, taken, restoring>>
counts == <<snapshots, faults>>
vars == <<meta, run, req, marid, wire, orders, counts>>

Manifests == SUBSET Runs
Fault == faults < MaxFaults /\ faults' = faults + 1
Over(r) == run[r].status \in {"completed", "interrupted"}
Alive == machine = "up"
Free(q) == req[q].op = "idle"
Idle == [op |-> "idle", run |-> None]

--------------------------------------------------------------------------------
Init == /\ head = {} /\ stored = {} /\ epoch = 0 /\ disk = {} /\ machine = "none" /\ conn = FALSE
        /\ run = [r \in Runs |-> [status |-> "queued", pre |-> None, post |-> None,
                                  disp |-> "pending"]]
        /\ req = [q \in Requests |-> Idle] /\ base = [r \in Runs |-> None]
        /\ taken = {} /\ restoring = {} /\ wire = <<>> /\ orders = <<>>
        /\ snapshots = 0 /\ faults = 0

(* Mutant: the head moves in memory only. *)
setHeadUnsaved(m) == head' = m /\ UNCHANGED stored

setHead(m) == head' = m /\ stored' = m

markDisposition(r, d) == run' = [run EXCEPT ![r].disp = d]

(* POST .../keep, up to its first await: the verdict is only recorded after it. *)
keepRun(q, r) ==
  /\ Free(q) /\ run[r].disp = "pending" /\ run[r].post # None
  /\ IF head = run[r].post
     THEN markDisposition(r, "kept") /\ UNCHANGED <<head, stored, req>>
     ELSE /\ setHead(run[r].post) /\ req' = [req EXCEPT ![q] = [op |-> "keep", run |-> r]]
          /\ UNCHANGED run
  /\ UNCHANGED <<epoch, marid, wire, orders, counts>>

(* POST .../revert, up to its first await, for a run that is over. *)
revertRun(q, r) ==
  /\ Free(q) /\ run[r].disp = "pending" /\ run[r].pre # None /\ Over(r)
  /\ setHead(run[r].pre) /\ req' = [req EXCEPT ![q] = [op |-> "revert", run |-> r]]
  /\ UNCHANGED <<epoch, run, marid, wire, orders, counts>>

(* The fleet row is written: the disk is told, if a supervisor is attached, and
   the verdict is recorded. *)
reviewed(q) ==
  /\ ~Free(q) /\ req' = [req EXCEPT ![q] = Idle]
  /\ IF req[q].op = "keep" THEN markDisposition(req[q].run, "kept") /\ UNCHANGED orders
     ELSE /\ markDisposition(req[q].run, "reverted")
          /\ orders' = IF conn THEN Append(orders, run[req[q].run].pre) ELSE orders
  /\ UNCHANGED <<meta, marid, wire, counts>>

--------------------------------------------------------------------------------
(* The object takes the next report of the supervisor it accepted. *)
onHeadAdvance(m) == m.kind = "advance" /\ setHead(m.of) /\ UNCHANGED run

onRunStarted(m) ==
  /\ m.kind = "started" /\ UNCHANGED <<head, stored>>
  /\ run' = [run EXCEPT ![m.run].pre = m.of,
               ![m.run].status = IF @ = "completed" THEN @ ELSE "running"]

onRunCompleted(m) ==
  /\ m.kind = "completed" /\ UNCHANGED <<head, stored>>
  /\ run' = [run EXCEPT ![m.run].status = "completed", ![m.run].post = m.of]

onSupervisorMessage ==
  /\ conn /\ wire # <<>> /\ wire' = Tail(wire)
  /\ onHeadAdvance(Head(wire)) \/ onRunStarted(Head(wire)) \/ onRunCompleted(Head(wire))
  /\ UNCHANGED <<epoch, req, marid, orders, counts>>

(* COLD: runs the machine took with it are over, and a final manifest is the head. *)
finalizeCold(final) ==
  /\ head' = final /\ stored' = final
  /\ run' = [r \in Runs |-> IF run[r].status = "running"
                            THEN [run[r] EXCEPT !.status = "interrupted"] ELSE run[r]]
  /\ machine' = "none" /\ conn' = FALSE /\ disk' = {} /\ taken' = {} /\ restoring' = {}
  /\ base' = [r \in Runs |-> None]
  /\ wire' = <<>> /\ orders' = <<>> /\ UNCHANGED <<epoch, req>>

(* prepare_for_cold: marid stops its runs and reads no further order; its reports
   and its final manifest are the last the object hears. *)
beginCold == /\ Alive /\ conn /\ taken = {} /\ machine' = "closing"
             /\ UNCHANGED <<meta, run, req, conn, disk, base, taken, restoring, wire, orders, counts>>

onSnapshotWritten == /\ machine = "closing" /\ conn /\ taken = {} /\ wire = <<>>
                     /\ finalizeCold(disk) /\ UNCHANGED counts

(* The machine is lost, or never answered prepare_for_cold. *)
lost == machine # "none" /\ Fault /\ finalizeCold(head) /\ UNCHANGED snapshots

(* A wake restores the head into a fresh machine, which attaches. *)
wake == /\ machine = "none" /\ epoch < MaxEpoch /\ epoch' = epoch + 1
        /\ machine' = "up" /\ conn' = TRUE /\ disk' = head
        /\ UNCHANGED <<head, stored, run, req, base, taken, restoring, wire, orders, counts>>

(* The object restarts: its storage and tables stand, its requests are gone, and
   the supervisor has to attach again. *)
restart == /\ Fault /\ head' = stored /\ req' = [q \in Requests |-> Idle] /\ conn' = FALSE
           /\ orders' = <<>>
           /\ UNCHANGED <<stored, epoch, run, machine, disk, base, taken, restoring, wire, snapshots>>

drop == /\ conn /\ Fault /\ conn' = FALSE /\ orders' = <<>>
        /\ UNCHANGED <<meta, run, req, machine, disk, base, taken, restoring, wire, snapshots>>

onHello == /\ Alive /\ ~conn /\ conn' = TRUE
           /\ UNCHANGED <<meta, run, req, machine, disk, base, taken, restoring, wire, orders, counts>>

--------------------------------------------------------------------------------
(* marid.  A snapshot reads the tree, restores under way included, and reports later. *)
Snapshot(kind, r) ==
  \E m \in {disk} \cup restoring : taken' = taken \cup {[kind |-> kind, run |-> r, of |-> m]}

snapshotNow == /\ Alive /\ snapshots < MaxSnapshots /\ snapshots' = snapshots + 1
               /\ Snapshot("plain", None)
               /\ UNCHANGED <<meta, run, req, machine, conn, disk, base, restoring, wire, orders, faults>>

startRun(r) == /\ Alive /\ conn /\ run[r].status = "queued" /\ base[r] = None
               /\ \A t \in taken : t.run # r
               /\ Snapshot("pre", r)
               /\ UNCHANGED <<meta, run, req, machine, conn, disk, base, restoring, wire, orders, counts>>

exit(r) == /\ machine # "none" /\ base[r] # None /\ run[r].status \in {"queued", "running"}
           /\ \A t \in taken : t.run # r
           /\ \A i \in 1..Len(wire) : ~(wire[i].kind = "completed" /\ wire[i].run = r)
           /\ Snapshot("post", r)
           /\ UNCHANGED <<meta, run, req, machine, conn, disk, base, restoring, wire, orders, counts>>

Report(kind, r, m) == [kind |-> kind, run |-> r, of |-> m]

(* A snapshot is in the store: its reports go out, and a run whose baseline it is
   starts to change the disk.  A post-run snapshot may have failed. *)
written(t) ==
  /\ machine # "none" /\ t \in taken /\ taken' = taken \ {t}
  /\ \/ /\ t.kind = "plain" /\ wire' = Append(wire, Report("advance", None, t.of))
        /\ UNCHANGED <<base, disk, faults>>
     \/ /\ t.kind = "pre" /\ base' = [base EXCEPT ![t.run] = t.of] /\ disk' = disk \cup {t.run}
        /\ wire' = wire \o <<Report("advance", None, t.of), Report("started", t.run, t.of)>>
        /\ UNCHANGED faults
     \/ /\ t.kind = "post" /\ UNCHANGED <<base, disk, faults>>
        /\ wire' = wire \o <<Report("completed", t.run, t.of), Report("advance", None, t.of)>>
     \/ /\ t.kind = "post" /\ Fault /\ UNCHANGED <<base, disk>>
        /\ wire' = Append(wire, Report("completed", t.run, base[t.run]))
  /\ UNCHANGED <<meta, run, req, machine, conn, restoring, orders, snapshots>>

restoreToManifest == /\ Alive /\ conn /\ orders # <<>> /\ orders' = Tail(orders)
                     /\ restoring' = restoring \cup {Head(orders)}
                     /\ UNCHANGED <<meta, run, req, machine, conn, disk, base, taken, wire, counts>>

(* revert_to_manifest prunes and restores; it may fail, which is only logged. *)
reverted(m) == /\ Alive /\ m \in restoring /\ restoring' = restoring \ {m}
               /\ \/ disk' = m /\ UNCHANGED faults
                  \/ disk' \in {disk, disk \cup m} /\ Fault
               /\ UNCHANGED <<meta, run, req, machine, conn, base, taken, wire, orders, snapshots>>

Next == \/ \E q \in Requests : reviewed(q) \/ \E r \in Runs : keepRun(q, r) \/ revertRun(q, r)
        \/ onSupervisorMessage \/ beginCold \/ onSnapshotWritten \/ lost \/ wake
        \/ restart \/ drop \/ onHello
        \/ snapshotNow \/ \E r \in Runs : startRun(r) \/ exit(r)
        \/ (\E t \in taken : written(t)) \/ restoreToManifest \/ \E m \in restoring : reverted(m)

Spec == Init /\ [][Next]_vars

--------------------------------------------------------------------------------
Rows == [status : {"queued", "running", "completed", "interrupted"},
         pre : {None} \cup Manifests, post : {None} \cup Manifests,
         disp : {"pending", "kept", "reverted"}]

TypeOK ==
  /\ {head, stored, disk} \subseteq Manifests /\ epoch \in 0..MaxEpoch /\ run \in [Runs -> Rows]
  /\ req \in [Requests -> [op : {"idle", "keep", "revert"}, run : {None} \cup Runs]]
  /\ machine \in {"none", "up", "closing"} /\ conn \in BOOLEAN
  /\ base \in [Runs -> {None} \cup Manifests] /\ restoring \subseteq Manifests

(* What may still bring a run's changes to the head by itself: the disk, a snapshot,
   a report that moves the head or a baseline, a restore, a revert in flight. *)
Carried(r) == \/ r \in disk \/ \E m \in restoring : r \in m
              \/ \E t \in taken : r \in t.of
              \/ \E i \in 1..Len(wire) : wire[i].kind # "completed" /\ r \in wire[i].of
              \/ \E i \in 1..Len(orders) : r \in orders[i]
              \/ \E q \in Requests : req[q].op = "revert" /\ r \in run[req[q].run].pre

Gone(r) == run[r].disp # "pending" /\ r \notin head /\ ~Carried(r)

Verdict(s) == \E q \in Requests : keepRun(q, s) \/ revertRun(q, s)

(* Once a run is decided on and its changes are off the head and off everything on
   its way there, they stay off: no restart, loss, sleep, wake, restore or late
   report brings them back, only a verdict on a run that was started on top of them. *)
RevertedStays ==
  [][\A r \in Runs : Gone(r) => Gone(r)' \/ \E s \in Runs \ {r} : Verdict(s)]_vars

(* "Keep a run's changes: the head STAYS at the post-run manifest"; it moves only
   if the advance to it never landed (computer-do.ts:2096, 2116). A keep takes no
   other run's changes out of the head. *)
KeepOnlyAdds ==
  [][\A q \in Requests, r \in Runs : keepRun(q, r) => head \subseteq head']_vars

================================================================================
