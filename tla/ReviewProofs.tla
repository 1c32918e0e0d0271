----------------------------- MODULE ReviewProofs -----------------------------
(***************************************************************************)
(* For any number of runs, requests, snapshots, faults and generations: the *)
(* changes of a run that was decided on, once they are off the head and off *)
(* everything on its way there, come back only by another run's verdict.    *)
(***************************************************************************)
EXTENDS Review, TLAPS

-----------------------------------------------------------------------------
(* What is in the store, on the wire and on the way to the supervisor.      *)

Taken == [kind : {"plain"}, run : {None}, of : Manifests]
           \cup [kind : {"pre", "post"}, run : Runs, of : Manifests]
Reports == [kind : {"advance"}, run : {None}, of : Manifests]
             \cup [kind : {"started", "completed"}, run : Runs, of : Manifests]

Typed == /\ TypeOK
         /\ taken \subseteq Taken
         /\ wire \in Seq(Reports)
         /\ orders \in Seq(Manifests)

(* A baseline is taken of a run that has none, a result of one that has; a  *)
(* run is in one snapshot at a time, and what is reported of it is of a run *)
(* that has its baseline.                                                   *)
InTurn == /\ \A t \in taken : /\ t.kind = "pre" => base[t.run] = None /\ run[t.run].status = "queued"
                              /\ t.kind = "post" => base[t.run] # None
          /\ \A t, u \in taken : t.kind # "plain" /\ t.run = u.run => t = u
          /\ \A i \in 1..Len(wire) : wire[i].kind # "advance" => base[wire[i].run] # None

(* A run the machine took with it leaves nothing behind, and only a run     *)
(* that is over has been decided on.                                        *)
Ended == /\ \A r \in Runs : /\ run[r].status = "interrupted" => base[r] = None
                            /\ run[r].post # None => Over(r)
                            /\ run[r].disp # "pending" => Over(r)
         /\ \A q \in Requests : /\ req[q].op # "idle" => req[q].run \in Runs /\ Over(req[q].run)
                                /\ req[q].op = "revert" => run[req[q].run].pre # None

RInv == Typed /\ InTurn /\ Ended /\ stored = head

-----------------------------------------------------------------------------
(* The wire and the orders, a message at a time.                            *)

LEMMA OnTheWire ==
    ASSUME wire \in Seq(Reports)
    PROVE  /\ Len(wire) \in Nat
           /\ \A i \in 1..Len(wire) : wire[i] \in Reports
           /\ wire # <<>> => /\ Head(wire) \in Reports /\ Head(wire) = wire[1] /\ 1 \in 1..Len(wire)
                             /\ Tail(wire) \in Seq(Reports) /\ Len(Tail(wire)) = Len(wire) - 1
                             /\ \A i \in 1..Len(Tail(wire)) : Tail(wire)[i] = wire[i + 1] /\ i + 1 \in 1..Len(wire)
  OBVIOUS

LEMMA Appended ==
    ASSUME NEW S, NEW s \in Seq(S), NEW x \in S
    PROVE  /\ Append(s, x) \in Seq(S) /\ Len(Append(s, x)) = Len(s) + 1
           /\ \A i \in 1..Len(Append(s, x)) : \/ i \in 1..Len(s) /\ Append(s, x)[i] = s[i]
                                              \/ i = Len(s) + 1 /\ Append(s, x)[i] = x
  OBVIOUS

LEMMA AppendedTwo ==
    ASSUME NEW S, NEW s \in Seq(S), NEW x \in S, NEW y \in S
    PROVE  /\ s \o <<x, y>> \in Seq(S)
           /\ \A i \in 1..Len(s \o <<x, y>>) : \/ i \in 1..Len(s) /\ (s \o <<x, y>>)[i] = s[i]
                                               \/ (s \o <<x, y>>)[i] \in {x, y}
  OBVIOUS

-----------------------------------------------------------------------------
(* Every step keeps the types.                                              *)

LEMMA InitRInv == Init => RInv
  <1> SUFFICES ASSUME Init PROVE RInv
    OBVIOUS
  <1> USE DEF Init, Manifests
  <1>1. run \in [Runs -> Rows]
    BY DEF Rows
  <1>4. wire \in Seq(Reports) /\ orders \in Seq(SUBSET Runs) /\ Len(wire) = 0 /\ taken = {}
    OBVIOUS
  <1>7. {} \in Manifests /\ epoch \in 0..MaxEpoch
    BY BoundAssumption
  <1>5. TypeOK
    BY <1>1, <1>7 DEF TypeOK, Idle
  <1>6. Typed
    BY <1>4, <1>5 DEF Typed
  <1>2. InTurn
    BY <1>4 DEF InTurn
  <1>3. Ended
    BY DEF Ended, Idle
  <1> QED
    BY <1>6, <1>2, <1>3 DEF RInv

LEMMA RowsChange ==
    ASSUME NEW T \in [Runs -> Rows], NEW r \in Runs
    PROVE  /\ \A d \in {"pending", "kept", "reverted"} : [T EXCEPT ![r].disp = d] \in [Runs -> Rows]
           /\ \A n \in Manifests : /\ [T EXCEPT ![r].pre = n] \in [Runs -> Rows]
                                   /\ [T EXCEPT ![r].post = n] \in [Runs -> Rows]
           /\ \A v \in {"queued", "running", "completed", "interrupted"} :
                [T EXCEPT ![r].status = v] \in [Runs -> Rows]
  <1>1. \A x \in Rows : [T EXCEPT ![r] = x] \in [Runs -> Rows]
    OBVIOUS
  <1>2. T[r] \in Rows
    OBVIOUS
  <1>3. \A d \in {"pending", "kept", "reverted"} : [T[r] EXCEPT !.disp = d] \in Rows
    BY <1>2 DEF Rows
  <1>4. \A n \in Manifests : [T[r] EXCEPT !.pre = n] \in Rows /\ [T[r] EXCEPT !.post = n] \in Rows
    BY <1>2 DEF Rows
  <1>5. \A v \in {"queued", "running", "completed", "interrupted"} : [T[r] EXCEPT !.status = v] \in Rows
    BY <1>2 DEF Rows
  <1> QED
    BY <1>1, <1>3, <1>4, <1>5

LEMMA RunTyped ==
    ASSUME TypeOK
    PROVE  \A r \in Runs : /\ run[r] = [status |-> run[r].status, pre |-> run[r].pre,
                                        post |-> run[r].post, disp |-> run[r].disp]
                           /\ run[r].status \in {"queued", "running", "completed", "interrupted"}
                           /\ run[r].pre \in Manifests \cup {None}
                           /\ run[r].post \in Manifests \cup {None}
                           /\ run[r].disp \in {"pending", "kept", "reverted"}
  BY DEF TypeOK, Rows

LEMMA TypedStep == RInv /\ [Next]_vars => Typed'
  <1> SUFFICES ASSUME RInv, [Next]_vars PROVE Typed'
    OBVIOUS
  <1>0. /\ Typed /\ TypeOK /\ run \in [Runs -> Rows] /\ head \in Manifests /\ stored = head
        /\ taken \subseteq Taken /\ wire \in Seq(Reports) /\ orders \in Seq(Manifests)
    BY DEF RInv, Typed, TypeOK
  <1> DEFINE Else == /\ epoch' \in 0..MaxEpoch /\ disk' \in Manifests
                     /\ machine' \in {"none", "up", "closing"} /\ conn' \in BOOLEAN
                     /\ base' \in [Runs -> {None} \cup Manifests]
                     /\ restoring' \subseteq Manifests /\ taken' \subseteq Taken
             Asked == req' \in [Requests -> [op : {"idle", "keep", "revert"}, run : {None} \cup Runs]]
             Kept == run' \in [Runs -> Rows] /\ head' \in Manifests /\ stored' \in Manifests
             Sent == wire' \in Seq(Reports) /\ orders' \in Seq(Manifests)
  <1>a. Else /\ Asked /\ Kept /\ Sent => Typed'
    BY DEF Typed, TypeOK
  <1>b. UNCHANGED <<epoch, marid>> => Else
    BY <1>0 DEF TypeOK, marid
  <1>c. UNCHANGED req => Asked
    BY <1>0 DEF TypeOK
  <1>d. UNCHANGED <<run, head, stored>> => Kept
    BY <1>0
  <1>e. UNCHANGED <<wire, orders>> => Sent
    BY <1>0
  <1>f. ASSUME NEW kind, NEW r, Snapshot(kind, r), disk \in Manifests, restoring \subseteq Manifests,
               \/ kind = "plain" /\ r = None
               \/ kind \in {"pre", "post"} /\ r \in Runs
        PROVE  taken' \subseteq Taken
    BY <1>0, <1>f DEF Snapshot, Taken
  <1>1. ASSUME NEW q \in Requests, reviewed(q) PROVE Typed'
    <2>1. /\ req[q].run \in Runs
          /\ req[q].op = "revert" => run[req[q].run].pre \in Manifests
      BY <1>0, <1>1, RunTyped DEF reviewed, RInv, Ended, Free, TypeOK
    <2>6. /\ [run EXCEPT ![req[q].run].disp = "kept"] \in [Runs -> Rows]
          /\ [run EXCEPT ![req[q].run].disp = "reverted"] \in [Runs -> Rows]
      BY <1>0, <2>1, RowsChange
    <2>7. UNCHANGED <<head, stored, wire>>
      BY <1>1 DEF reviewed, meta
    <2>2. Kept
      <3>1. run' \in [Runs -> Rows]
        BY <1>1, <2>6 DEF reviewed, markDisposition
      <3> QED
        BY <1>0, <2>7, <3>1
    <2>3. Sent
      <3>1. CASE req[q].op = "keep"
        BY <1>0, <1>1, <2>7, <3>1 DEF reviewed
      <3>2. CASE req[q].op = "revert"
        <4>1. Append(orders, run[req[q].run].pre) \in Seq(Manifests)
          BY <1>0, <2>1, <3>2
        <4> QED
          BY <1>0, <1>1, <2>7, <3>2, <4>1 DEF reviewed
      <3> QED
        BY <1>0, <1>1, <3>1, <3>2 DEF reviewed, Free, TypeOK
    <2>4. Asked
      BY <1>0, <1>1 DEF reviewed, TypeOK, Idle
    <2>5. Else
      BY <1>1, <1>b DEF reviewed, meta
    <2> QED
      BY <1>a, <2>2, <2>3, <2>4, <2>5
  <1>2. ASSUME NEW q \in Requests, NEW r \in Runs, keepRun(q, r) PROVE Typed'
    <2>1. run[r].post \in Manifests
      BY <1>0, <1>2, RunTyped DEF keepRun
    <2>5. [run EXCEPT ![r].disp = "kept"] \in [Runs -> Rows]
      BY <1>0, RowsChange
    <2>2. Kept
      BY <1>0, <1>2, <2>1, <2>5 DEF keepRun, setHead, markDisposition
    <2>3. Asked
      BY <1>0, <1>2 DEF keepRun, TypeOK
    <2>4. Else /\ Sent
      BY <1>2, <1>b, <1>e DEF keepRun
    <2> QED
      BY <1>a, <2>2, <2>3, <2>4
  <1>3. ASSUME NEW q \in Requests, NEW r \in Runs, revertRun(q, r) PROVE Typed'
    <2>1. run[r].pre \in Manifests
      BY <1>0, <1>3, RunTyped DEF revertRun
    <2>2. Kept
      BY <1>0, <1>3, <2>1 DEF revertRun, setHead
    <2>3. Asked
      BY <1>0, <1>3 DEF revertRun, TypeOK
    <2>4. Else /\ Sent
      BY <1>3, <1>b, <1>e DEF revertRun
    <2> QED
      BY <1>a, <2>2, <2>3, <2>4
  <1>4. CASE onSupervisorMessage
    <2>1. Head(wire) \in Reports /\ Tail(wire) \in Seq(Reports)
      BY <1>0, <1>4, OnTheWire DEF onSupervisorMessage
    <2>2. Head(wire).of \in Manifests /\ (Head(wire).kind # "advance" => Head(wire).run \in Runs)
      BY <2>1 DEF Reports
    <2>3. ASSUME onHeadAdvance(Head(wire)) PROVE Kept
      BY <1>0, <2>2, <2>3 DEF onHeadAdvance, setHead
    <2>4. ASSUME onRunStarted(Head(wire)) PROVE Kept
      <3> DEFINE R == Head(wire).run
                 v == IF run[R].status = "completed" THEN run[R].status ELSE "running"
                 P == [run EXCEPT ![R].pre = Head(wire).of]
      <3>1. R \in Runs /\ run' = [P EXCEPT ![R].status = v] /\ UNCHANGED <<head, stored>>
        BY <1>0, <2>2, <2>4 DEF onRunStarted, Rows
      <3>2. P \in [Runs -> Rows] /\ v \in {"queued", "running", "completed", "interrupted"}
        BY <1>0, <2>2, <3>1, RowsChange, RunTyped
      <3> HIDE DEF P, v, R
      <3> QED
        BY <1>0, <3>1, <3>2, RowsChange
    <2>5. ASSUME onRunCompleted(Head(wire)) PROVE Kept
      <3> DEFINE R == Head(wire).run
                 P == [run EXCEPT ![R].status = "completed"]
      <3>1. R \in Runs /\ run' = [P EXCEPT ![R].post = Head(wire).of] /\ UNCHANGED <<head, stored>>
        BY <1>0, <2>2, <2>5 DEF onRunCompleted, Rows
      <3>2. P \in [Runs -> Rows]
        BY <1>0, <3>1, RowsChange
      <3> HIDE DEF P, R
      <3> QED
        BY <1>0, <2>2, <3>1, <3>2, RowsChange
    <2>6. Kept
      BY <1>4, <2>3, <2>4, <2>5 DEF onSupervisorMessage
    <2> QED
      BY <1>0, <1>4, <1>a, <1>b, <1>c, <2>1, <2>6 DEF onSupervisorMessage
  <1>5. CASE onSnapshotWritten \/ lost
    <2>1. head' \in Manifests /\ finalizeCold(head')
      BY <1>0, <1>5 DEF onSnapshotWritten, lost, finalizeCold, TypeOK
    <2>2. \A r \in Runs : [run[r] EXCEPT !.status = "interrupted"] \in Rows
      BY <1>0 DEF Rows
    <2>3. Kept
      BY <1>0, <2>1, <2>2 DEF finalizeCold
    <2>4. Else /\ Sent
      <3>1. /\ epoch' = epoch /\ disk' = {} /\ machine' = "none" /\ conn' = FALSE /\ taken' = {}
            /\ restoring' = {} /\ base' = [r \in Runs |-> None] /\ wire' = <<>> /\ orders' = <<>>
        BY <2>1 DEF finalizeCold
      <3>2. wire' \in Seq(Reports) /\ orders' \in Seq(Manifests)
        BY <3>1
      <3>3. {} \in Manifests
        BY DEF Manifests
      <3>4. Else
        BY <1>0, <3>1, <3>3 DEF TypeOK
      <3> QED
        BY <3>2, <3>4
    <2> QED
      BY <1>a, <1>c, <2>1, <2>3, <2>4 DEF finalizeCold
  <1>6. CASE beginCold \/ drop \/ onHello
    <2>1. Else
      BY <1>0, <1>6 DEF beginCold, drop, onHello, TypeOK, meta
    <2>2. Sent
      <3>1. wire' = wire /\ orders' \in {orders, <<>>}
        BY <1>6 DEF beginCold, drop, onHello
      <3>2. <<>> \in Seq(Manifests)
        OBVIOUS
      <3> QED
        BY <1>0, <3>1, <3>2
    <2> QED
      BY <1>6, <1>a, <1>c, <1>d, <2>1, <2>2 DEF beginCold, drop, onHello, meta
  <1>7. CASE wake
    <2>1. Else
      BY <1>0, <1>7, BoundAssumption DEF wake, TypeOK
    <2> QED
      BY <1>7, <1>a, <1>c, <1>d, <1>e, <2>1 DEF wake
  <1>8. CASE restart
    <2>1. Else
      BY <1>0, <1>8 DEF restart, TypeOK
    <2>2. Asked
      BY <1>0, <1>8 DEF restart, Idle
    <2>3. orders' = <<>> /\ wire' = wire /\ head' = stored /\ stored' = stored /\ run' = run
      BY <1>8 DEF restart
    <2>4. Kept /\ Sent
      BY <1>0, <2>3
    <2> QED
      BY <1>a, <2>1, <2>2, <2>4
  <1>9. CASE snapshotNow
    <2>1. Else
      BY <1>0, <1>9, <1>f DEF snapshotNow, TypeOK, meta
    <2> QED
      BY <1>9, <1>a, <1>c, <1>d, <1>e, <2>1 DEF snapshotNow, meta
  <1>10. ASSUME NEW r \in Runs, startRun(r) \/ exit(r) PROVE Typed'
    <2>1. Else
      BY <1>0, <1>10, <1>f DEF startRun, exit, TypeOK, meta
    <2> QED
      BY <1>10, <1>a, <1>c, <1>d, <1>e, <2>1 DEF startRun, exit, meta
  <1>11. ASSUME NEW t \in taken, written(t) PROVE Typed'
    <2>1. t \in Taken /\ t.of \in Manifests /\ (t.kind # "plain" => t.run \in Runs)
      BY <1>0 DEF Taken
    <2>2. t.kind = "post" => base[t.run] \in Manifests
      BY <1>0, <2>1 DEF RInv, InTurn, TypeOK
    <2>3. /\ Report("advance", None, t.of) \in Reports
          /\ t.kind # "plain" => /\ Report("started", t.run, t.of) \in Reports
                                 /\ Report("completed", t.run, t.of) \in Reports
          /\ t.kind = "post" => Report("completed", t.run, base[t.run]) \in Reports
      BY <2>1, <2>2 DEF Report, Reports
    <2>4. wire' \in Seq(Reports)
      <3>1. CASE t.kind = "plain"
        <4> DEFINE A == Report("advance", None, t.of)
        <4>1. A \in Reports /\ wire' = Append(wire, A)
          BY <1>11, <2>3, <3>1 DEF written
        <4> HIDE DEF A
        <4> QED
          BY <1>0, <4>1, Appended
      <3>2. CASE t.kind = "pre"
        <4> DEFINE A == Report("advance", None, t.of)  B == Report("started", t.run, t.of)
        <4>1. A \in Reports /\ B \in Reports /\ wire' = wire \o <<A, B>>
          BY <1>11, <2>3, <3>2 DEF written
        <4> HIDE DEF A, B
        <4> QED
          BY <1>0, <4>1, AppendedTwo
      <3>3. CASE t.kind = "post"
        <4> DEFINE A == Report("advance", None, t.of)  B == Report("completed", t.run, t.of)
                   C == Report("completed", t.run, base[t.run])
        <4>1. /\ A \in Reports /\ B \in Reports /\ C \in Reports
              /\ wire' = wire \o <<B, A>> \/ wire' = Append(wire, C)
          BY <1>11, <2>3, <3>3 DEF written
        <4> HIDE DEF A, B, C
        <4>2. wire \o <<B, A>> \in Seq(Reports)
          BY <1>0, <4>1, AppendedTwo
        <4>3. Append(wire, C) \in Seq(Reports)
          BY <1>0, <4>1, Appended
        <4> QED
          BY <4>1, <4>2, <4>3
      <3> QED
        BY <1>11, <3>1, <3>2, <3>3 DEF written
    <2>5. disk' \in Manifests /\ base' \in [Runs -> {None} \cup Manifests]
      BY <1>0, <1>11, <2>1 DEF written, TypeOK, Manifests
    <2>6. Else
      BY <1>0, <1>11, <2>5 DEF written, TypeOK, meta
    <2> QED
      BY <1>0, <1>11, <1>a, <1>c, <1>d, <2>4, <2>6 DEF written, meta
  <1>12. CASE restoreToManifest
    <2>1. Head(orders) \in Manifests /\ Tail(orders) \in Seq(Manifests)
      BY <1>0, <1>12 DEF restoreToManifest
    <2>2. Else
      BY <1>0, <1>12, <2>1 DEF restoreToManifest, TypeOK, meta
    <2> QED
      BY <1>0, <1>12, <1>a, <1>c, <1>d, <2>1, <2>2 DEF restoreToManifest, meta
  <1>13. ASSUME NEW n \in restoring, reverted(n) PROVE Typed'
    <2>1. disk' \in Manifests
      BY <1>0, <1>13 DEF reverted, TypeOK, Manifests
    <2>2. Else
      BY <1>0, <1>13, <2>1 DEF reverted, TypeOK, meta
    <2> QED
      BY <1>13, <1>a, <1>c, <1>d, <1>e, <2>2 DEF reverted, meta
  <1>14. CASE UNCHANGED vars
    BY <1>14, <1>a, <1>b, <1>c, <1>d, <1>e DEF vars, meta, marid
  <1> QED
    BY <1>1, <1>2, <1>3, <1>4, <1>5, <1>6, <1>7, <1>8, <1>9, <1>10, <1>11, <1>12, <1>13, <1>14 DEF Next

-----------------------------------------------------------------------------
(* Every step keeps the turns of a run, and what is over stays over.        *)

LEMMA TakenAre ==
    ASSUME RInv
    PROVE  /\ \A t \in taken : /\ t.kind \in {"plain", "pre", "post"}
                               /\ t.kind = "plain" => t.run = None
                               /\ t.kind # "plain" => t.run \in Runs
           /\ \A i \in 1..Len(wire) :
                /\ wire[i].kind \in {"advance", "started", "completed"}
                /\ wire[i].kind # "advance" => wire[i].run \in Runs
           /\ Len(wire) \in Nat /\ None \notin Runs
  <1>1. taken \subseteq Taken /\ wire \in Seq(Reports)
    BY DEF RInv, Typed
  <1>2. \A i \in 1..Len(wire) : wire[i] \in Reports
    BY <1>1
  <1> QED
    BY <1>1, <1>2, NoneAssumption DEF Taken, Reports

(* The statuses a report gives.                                             *)
LEMMA StatusMoves ==
    ASSUME RInv, [Next]_vars
    PROVE  \A r \in Runs :
             \/ run'[r].status = run[r].status
             \/ /\ wire # <<>> /\ Head(wire).kind \in {"started", "completed"} /\ Head(wire).run = r
                /\ base[r] # None
                /\ run'[r].status \in {"running", "completed"}
                /\ run[r].status = "completed" => run'[r].status = "completed"
                /\ UNCHANGED <<taken, base, req>>
             \/ /\ run'[r].status = "interrupted" /\ run[r].status = "running"
                /\ taken' = {} /\ wire' = <<>> /\ base' = [s \in Runs |-> None] /\ UNCHANGED req
  <1>0. run \in [Runs -> Rows] /\ wire \in Seq(Reports)
    BY DEF RInv, Typed, TypeOK
  <1> SUFFICES ASSUME NEW r \in Runs
               PROVE  \/ run'[r].status = run[r].status
                      \/ /\ wire # <<>> /\ Head(wire).kind \in {"started", "completed"} /\ Head(wire).run = r
                         /\ base[r] # None
                         /\ run'[r].status \in {"running", "completed"}
                         /\ run[r].status = "completed" => run'[r].status = "completed"
                         /\ UNCHANGED <<taken, base, req>>
                      \/ /\ run'[r].status = "interrupted" /\ run[r].status = "running"
                         /\ taken' = {} /\ wire' = <<>> /\ base' = [s \in Runs |-> None] /\ UNCHANGED req
    OBVIOUS
  <1>1. CASE onSupervisorMessage
    <2>1. Head(wire) \in Reports /\ Head(wire) = wire[1] /\ 1 \in 1..Len(wire)
      BY <1>0, <1>1, OnTheWire DEF onSupervisorMessage
    <2>2. Head(wire).kind # "advance" => Head(wire).run \in Runs /\ base[Head(wire).run] # None
      BY <2>1 DEF RInv, InTurn, Reports
    <2>3. UNCHANGED <<taken, base, req>> /\ wire # <<>>
      BY <1>1 DEF onSupervisorMessage, marid
    <2>4. CASE onHeadAdvance(Head(wire))
      BY <2>4 DEF onHeadAdvance
    <2>5. CASE onRunStarted(Head(wire))
      <3>1. Head(wire).kind = "started"
        BY <2>5 DEF onRunStarted
      <3>2. CASE Head(wire).run = r
        BY <1>0, <2>2, <2>3, <2>5, <3>1, <3>2 DEF onRunStarted, Rows
      <3>3. CASE Head(wire).run # r
        BY <1>0, <2>2, <2>5, <3>1, <3>3 DEF onRunStarted
      <3> QED
        BY <3>2, <3>3
    <2>6. CASE onRunCompleted(Head(wire))
      <3>1. Head(wire).kind = "completed"
        BY <2>6 DEF onRunCompleted
      <3>2. CASE Head(wire).run = r
        BY <1>0, <2>2, <2>3, <2>6, <3>1, <3>2 DEF onRunCompleted, Rows
      <3>3. CASE Head(wire).run # r
        BY <1>0, <2>2, <2>6, <3>1, <3>3 DEF onRunCompleted
      <3> QED
        BY <3>2, <3>3
    <2> QED
      BY <1>1, <2>4, <2>5, <2>6 DEF onSupervisorMessage
  <1>2. CASE onSnapshotWritten \/ lost
    <2>1. finalizeCold(head')
      BY <1>2 DEF onSnapshotWritten, lost, finalizeCold
    <2> QED
      BY <1>0, <2>1 DEF finalizeCold, Rows
  <1>3. ASSUME NEW d, NEW s, markDisposition(s, d) PROVE run'[r].status = run[r].status
    BY <1>0, <1>3 DEF markDisposition, Rows
  <1>4. ASSUME NEW q \in Requests, reviewed(q) PROVE run'[r].status = run[r].status
    BY <1>4, <1>3 DEF reviewed
  <1>5. ASSUME NEW q \in Requests, NEW s \in Runs, keepRun(q, s) PROVE run'[r].status = run[r].status
    BY <1>5, <1>3 DEF keepRun
  <1>6. ASSUME NEW q \in Requests, NEW s \in Runs, revertRun(q, s) PROVE run' = run
    BY <1>6 DEF revertRun
  <1>7. CASE beginCold \/ wake \/ restart \/ drop \/ onHello \/ snapshotNow \/ restoreToManifest
    BY <1>7 DEF beginCold, wake, restart, drop, onHello, snapshotNow, restoreToManifest
  <1>8. ASSUME NEW s \in Runs, startRun(s) \/ exit(s) PROVE run' = run
    BY <1>8 DEF startRun, exit
  <1>9. ASSUME NEW t \in taken, written(t) PROVE run' = run
    BY <1>9 DEF written
  <1>10. ASSUME NEW n \in restoring, reverted(n) PROVE run' = run
    BY <1>10 DEF reverted
  <1>11. CASE UNCHANGED vars
    BY <1>11 DEF vars
  <1> QED
    BY <1>1, <1>2, <1>4, <1>5, <1>6, <1>7, <1>8, <1>9, <1>10, <1>11 DEF Next

LEMMA InTurnStep == RInv /\ [Next]_vars => InTurn'
  <1> SUFFICES ASSUME RInv, [Next]_vars PROVE InTurn'
    OBVIOUS
  <1>0. InTurn /\ run \in [Runs -> Rows] /\ base \in [Runs -> {None} \cup Manifests] /\ wire \in Seq(Reports)
    BY DEF RInv, Typed, TypeOK
  <1>t. \A t \in taken : /\ t.kind \in {"plain", "pre", "post"}
                         /\ t.kind = "plain" => t.run = None
                         /\ t.kind # "plain" => t.run \in Runs /\ t.run # None
    BY TakenAre
  <1>k. ASSUME UNCHANGED <<taken, base>>
        PROVE  \A t \in taken : t.kind = "pre" => run'[t.run].status = "queued"
    <2> SUFFICES ASSUME NEW t \in taken, t.kind = "pre" PROVE run'[t.run].status = "queued"
      OBVIOUS
    <2>1. t.run \in Runs /\ base[t.run] = None /\ run[t.run].status = "queued" /\ taken' # {}
      BY <1>0, <1>k, <1>t DEF InTurn
    <2> QED
      BY <2>1, StatusMoves
  <1>m. ASSUME UNCHANGED <<taken, base, wire>> PROVE InTurn'
    BY <1>0, <1>m, <1>k DEF InTurn
  <1>1. ASSUME NEW q \in Requests, reviewed(q) PROVE InTurn'
    BY <1>1, <1>m DEF reviewed, marid
  <1>2. ASSUME NEW q \in Requests, NEW r \in Runs, keepRun(q, r) \/ revertRun(q, r) PROVE InTurn'
    BY <1>2, <1>m DEF keepRun, revertRun, marid
  <1>3. CASE onSupervisorMessage
    <2>1. /\ UNCHANGED <<taken, base>> /\ wire' = Tail(wire) /\ Len(wire') = Len(wire) - 1
          /\ Len(wire) \in Nat
          /\ \A i \in 1..Len(wire') : wire'[i] = wire[i + 1] /\ i + 1 \in 1..Len(wire)
      BY <1>0, <1>3, OnTheWire DEF onSupervisorMessage, marid
    <2>2. \A i \in 1..Len(wire') : wire'[i].kind # "advance" => base'[wire'[i].run] # None
      BY <1>0, <2>1 DEF InTurn
    <2> QED
      BY <1>0, <2>1, <2>2, <1>k DEF InTurn
  <1>4. CASE onSnapshotWritten \/ lost
    <2>1. finalizeCold(head')
      BY <1>4 DEF onSnapshotWritten, lost, finalizeCold
    <2>2. taken' = {} /\ wire' = <<>> /\ Len(wire') = 0
      BY <2>1 DEF finalizeCold
    <2> QED
      BY <2>2 DEF InTurn
  <1>5. CASE beginCold \/ wake \/ restart \/ drop \/ onHello \/ restoreToManifest
    BY <1>5, <1>m DEF beginCold, wake, restart, drop, onHello, restoreToManifest
  <1>6. CASE snapshotNow
    <2>1. PICK n : taken' = taken \cup {[kind |-> "plain", run |-> None, of |-> n]}
      BY <1>6 DEF snapshotNow, Snapshot
    <2>2. UNCHANGED <<run, base, wire>>
      BY <1>6 DEF snapshotNow, meta
    <2>3. /\ \A t \in taken' : t \in taken \/ (t.kind = "plain" /\ t.run = None)
          /\ \A t \in taken : t.kind # "plain" => t.run # None
      BY <2>1, <1>t
    <2> QED
      BY <1>0, <2>2, <2>3 DEF InTurn
  <1>7. ASSUME NEW r \in Runs, startRun(r) PROVE InTurn'
    <2>1. PICK n : taken' = taken \cup {[kind |-> "pre", run |-> r, of |-> n]}
      BY <1>7 DEF startRun, Snapshot
    <2>2. UNCHANGED <<run, base, wire>>
      BY <1>7 DEF startRun, meta
    <2>3. run[r].status = "queued" /\ base[r] = None /\ \A t \in taken : t.run # r
      BY <1>7 DEF startRun
    <2> QED
      BY <1>0, <2>1, <2>2, <2>3, TakenAre DEF InTurn
  <1>8. ASSUME NEW r \in Runs, exit(r) PROVE InTurn'
    <2>1. PICK n : taken' = taken \cup {[kind |-> "post", run |-> r, of |-> n]}
      BY <1>8 DEF exit, Snapshot
    <2>2. UNCHANGED <<run, base, wire>>
      BY <1>8 DEF exit, meta
    <2>3. base[r] # None /\ \A t \in taken : t.run # r
      BY <1>8 DEF exit
    <2> QED
      BY <1>0, <2>1, <2>2, <2>3, TakenAre DEF InTurn
  <1>9. ASSUME NEW t \in taken, written(t) PROVE InTurn'
    <2>1. taken' = taken \ {t} /\ run' = run
      BY <1>9 DEF written
    <2>2. t \in Taken
      BY DEF RInv, Typed
    <2>3. CASE t.kind = "plain"
      <3>1. base' = base /\ wire' = Append(wire, Report("advance", None, t.of))
        BY <1>9, <2>3 DEF written
      <3>2. \A i \in 1..Len(wire') : \/ i \in 1..Len(wire) /\ wire'[i] = wire[i]
                                     \/ wire'[i].kind = "advance"
        BY <1>0, <3>1 DEF Report
      <3> QED
        BY <1>0, <2>1, <3>1, <3>2 DEF InTurn
    <2>4. CASE t.kind = "pre"
      <3>1. t.run \in Runs /\ t.of \in Manifests /\ t.of # None /\ base[t.run] = None
        BY <1>0, <2>2, <2>4, NoneAssumption DEF Taken, Manifests, InTurn
      <3> DEFINE A == Report("advance", None, t.of)  B == Report("started", t.run, t.of)
      <3>2. base' = [base EXCEPT ![t.run] = t.of] /\ wire' = wire \o <<A, B>>
        BY <1>9, <2>4 DEF written
      <3>3. A \in Reports /\ B \in Reports /\ A.kind = "advance" /\ B.run = t.run
        BY <3>1 DEF Report, Reports
      <3> HIDE DEF A, B
      <3>4. \A i \in 1..Len(wire') : \/ i \in 1..Len(wire) /\ wire'[i] = wire[i]
                                     \/ wire'[i] \in {A, B}
        BY <1>0, <3>2, <3>3, AppendedTwo
      <3>5. \A s \in Runs : base'[s] = IF s = t.run THEN t.of ELSE base[s]
        BY <1>0, <3>1, <3>2
      <3>8. \A u \in taken : t.run = u.run => t = u
        BY <1>0, <2>4 DEF InTurn
      <3>6. \A u \in taken' : u \in taken /\ u # t /\ (u.kind # "plain" => u.run \in Runs /\ u.run # t.run)
        BY <2>1, <3>8, <1>t
      <3>7. \A i \in 1..Len(wire') : wire'[i].kind # "advance" => base'[wire'[i].run] # None
        BY <1>0, <3>1, <3>3, <3>4, <3>5, TakenAre DEF InTurn
      <3> QED
        BY <1>0, <2>1, <3>5, <3>6, <3>7, TakenAre DEF InTurn
    <2>5. CASE t.kind = "post"
      <3>1. t.run \in Runs /\ t.of \in Manifests /\ base[t.run] # None /\ base[t.run] \in Manifests
        BY <1>0, <2>2, <2>5 DEF Taken, InTurn
      <3> DEFINE A == Report("advance", None, t.of)  B == Report("completed", t.run, t.of)
                 C == Report("completed", t.run, base[t.run])
      <3>2. base' = base /\ (wire' = wire \o <<B, A>> \/ wire' = Append(wire, C))
        BY <1>9, <2>5 DEF written
      <3>3. /\ A \in Reports /\ B \in Reports /\ C \in Reports
            /\ A.kind = "advance" /\ B.run = t.run /\ C.run = t.run
        BY <3>1 DEF Report, Reports
      <3> HIDE DEF A, B, C
      <3>4. wire' = wire \o <<B, A>> =>
              \A i \in 1..Len(wire') : \/ i \in 1..Len(wire) /\ wire'[i] = wire[i]
                                       \/ wire'[i] \in {A, B, C}
        BY <1>0, <3>3, AppendedTwo
      <3>5. wire' = Append(wire, C) =>
              \A i \in 1..Len(wire') : \/ i \in 1..Len(wire) /\ wire'[i] = wire[i]
                                       \/ wire'[i] \in {A, B, C}
        BY <1>0, <3>3, Appended
      <3>6. \A i \in 1..Len(wire') : \/ i \in 1..Len(wire) /\ wire'[i] = wire[i]
                                     \/ wire'[i] \in {A, B, C}
        BY <3>2, <3>4, <3>5
      <3> QED
        BY <1>0, <2>1, <3>1, <3>2, <3>3, <3>6 DEF InTurn
    <2> QED
      BY <2>2, <2>3, <2>4, <2>5 DEF Taken
  <1>10. ASSUME NEW n \in restoring, reverted(n) PROVE InTurn'
    BY <1>10, <1>m DEF reverted
  <1>11. CASE UNCHANGED vars
    BY <1>11, <1>m DEF vars, marid
  <1> QED
    BY <1>1, <1>2, <1>3, <1>4, <1>5, <1>6, <1>7, <1>8, <1>9, <1>10, <1>11 DEF Next

LEMMA EndedStep == RInv /\ [Next]_vars => Ended'
  <1> SUFFICES ASSUME RInv, [Next]_vars PROVE Ended'
    OBVIOUS
  <1>0. /\ Ended /\ run \in [Runs -> Rows] /\ base \in [Runs -> {None} \cup Manifests]
        /\ wire \in Seq(Reports) /\ req \in [Requests -> [op : {"idle", "keep", "revert"}, run : {None} \cup Runs]]
    BY DEF RInv, Typed, TypeOK
  <1>o. \A r \in Runs : Over(r) => Over(r)'
    BY StatusMoves, <1>0 DEF Over, Ended
  <1>m. ASSUME UNCHANGED <<run, req>>, \A r \in Runs : base[r] = None => base'[r] = None \/ run[r].status = "queued"
        PROVE  Ended'
    BY <1>0, <1>m DEF Ended, Over
  <1>1. ASSUME NEW q \in Requests, reviewed(q) PROVE Ended'
    <2>1. PICK d \in {"kept", "reverted"} : run' = [run EXCEPT ![req[q].run].disp = d]
      BY <1>1 DEF reviewed, markDisposition
    <2>2. req[q].run \in Runs /\ Over(req[q].run)
      BY <1>0, <1>1 DEF reviewed, Ended, Free
    <2>3. \A r \in Runs : /\ run'[r].status = run[r].status /\ run'[r].post = run[r].post
                          /\ run'[r].pre = run[r].pre
                          /\ r # req[q].run => run'[r].disp = run[r].disp
      BY <1>0, <2>1, <2>2 DEF Rows
    <2>4. base' = base /\ req' = [req EXCEPT ![q] = Idle]
      BY <1>1 DEF reviewed, marid
    <2>5. \A p \in Requests : req'[p].op = "idle" \/ req'[p] = req[p]
      BY <1>0, <2>4 DEF Idle
    <2>6. \A r \in Runs : Over(r)' <=> Over(r)
      BY <2>3 DEF Over
    <2>7. \A r \in Runs : run'[r].disp # "pending" => Over(r)
      BY <1>0, <2>2, <2>3 DEF Ended
    <2> QED
      BY <1>0, <2>3, <2>4, <2>5, <2>6, <2>7 DEF Ended
  <1>2. ASSUME NEW q \in Requests, NEW r \in Runs, keepRun(q, r) PROVE Ended'
    <2>1. run[r].post # None /\ Over(r) /\ base' = base
      BY <1>0, <1>2 DEF keepRun, Ended, marid
    <2>2. CASE UNCHANGED run
      <3>1. req' = [req EXCEPT ![q] = [op |-> "keep", run |-> r]] \/ req' = req
        BY <1>2 DEF keepRun
      <3>2. \A p \in Requests : req'[p] = req[p] \/ (req'[p].op = "keep" /\ req'[p].run = r)
        BY <1>0, <3>1
      <3> QED
        BY <1>0, <2>1, <2>2, <3>2 DEF Ended, Over
    <2>3. CASE run' = [run EXCEPT ![r].disp = "kept"] /\ req' = req
      <3>1. \A s \in Runs : /\ run'[s].status = run[s].status /\ run'[s].post = run[s].post
                            /\ run'[s].pre = run[s].pre
                            /\ s # r => run'[s].disp = run[s].disp
        BY <1>0, <2>3 DEF Rows
      <3> QED
        BY <1>0, <2>1, <2>3, <3>1 DEF Ended, Over
    <2> QED
      BY <1>2, <2>2, <2>3 DEF keepRun, markDisposition
  <1>3. ASSUME NEW q \in Requests, NEW r \in Runs, revertRun(q, r) PROVE Ended'
    <2>1. run[r].pre # None /\ Over(r) /\ base' = base /\ run' = run
      BY <1>3 DEF revertRun, marid
    <2>2. \A p \in Requests : req'[p] = req[p] \/ (req'[p].op = "revert" /\ req'[p].run = r)
      BY <1>0, <1>3 DEF revertRun
    <2> QED
      BY <1>0, <2>1, <2>2 DEF Ended, Over
  <1>4. CASE onSupervisorMessage
    <2>1. /\ Head(wire) \in Reports /\ UNCHANGED <<base, req>>
          /\ Head(wire).kind # "advance" => Head(wire).run \in Runs /\ base[Head(wire).run] # None
      BY <1>0, <1>4, OnTheWire DEF onSupervisorMessage, marid, Reports, RInv, InTurn
    <2>2. Head(wire).of # None
      BY <2>1, NoneAssumption DEF Reports, Manifests
    <2>3. CASE onHeadAdvance(Head(wire))
      BY <1>m, <2>1, <2>3 DEF onHeadAdvance
    <2>4. CASE onRunStarted(Head(wire))
      <3>1. Head(wire).run \in Runs /\ base[Head(wire).run] # None
        BY <2>1, <2>4 DEF onRunStarted
      <3>2. \A s \in Runs : /\ run'[s].post = run[s].post /\ run'[s].disp = run[s].disp
                            /\ s # Head(wire).run => run'[s] = run[s]
                            /\ s = Head(wire).run => run'[s].pre # None /\ run'[s].status # "interrupted"
        BY <1>0, <2>2, <2>4, <3>1 DEF onRunStarted, Rows, Ended
      <3> QED
        BY <1>0, <1>o, <2>1, <3>2 DEF Ended
    <2>5. CASE onRunCompleted(Head(wire))
      <3>1. Head(wire).run \in Runs /\ base[Head(wire).run] # None
        BY <2>1, <2>5 DEF onRunCompleted
      <3>2. \A s \in Runs : /\ run'[s].pre = run[s].pre /\ run'[s].disp = run[s].disp
                            /\ s # Head(wire).run => run'[s] = run[s]
                            /\ s = Head(wire).run => run'[s].status = "completed"
        BY <1>0, <2>5, <3>1 DEF onRunCompleted, Rows
      <3> QED
        BY <1>0, <1>o, <2>1, <3>2 DEF Ended, Over
    <2> QED
      BY <1>4, <2>3, <2>4, <2>5 DEF onSupervisorMessage
  <1>5. CASE onSnapshotWritten \/ lost
    <2>1. finalizeCold(head')
      BY <1>5 DEF onSnapshotWritten, lost, finalizeCold
    <2>2. /\ req' = req /\ \A r \in Runs : base'[r] = None
          /\ \A r \in Runs : run'[r].pre = run[r].pre /\ run'[r].post = run[r].post /\ run'[r].disp = run[r].disp
      BY <1>0, <2>1 DEF finalizeCold, Rows
    <2> QED
      BY <1>0, <1>o, <2>2 DEF Ended
  <1>6. CASE beginCold \/ wake \/ drop \/ onHello \/ restoreToManifest \/ snapshotNow
    BY <1>6, <1>m DEF beginCold, wake, drop, onHello, restoreToManifest, snapshotNow
  <1>7. CASE restart
    BY <1>0, <1>7 DEF restart, Ended, Over, Idle
  <1>8. ASSUME NEW r \in Runs, startRun(r) \/ exit(r) PROVE Ended'
    BY <1>8, <1>m DEF startRun, exit
  <1>9. ASSUME NEW t \in taken, written(t) PROVE Ended'
    <2>1. UNCHANGED <<run, req>> /\ t.kind \in {"plain", "pre", "post"}
      BY <1>9, TakenAre DEF written
    <2>2. t.kind # "pre" => base' = base
      BY <1>9, <2>1 DEF written
    <2>3. t.kind = "pre" => base' = [base EXCEPT ![t.run] = t.of] /\ run[t.run].status = "queued"
      BY <1>9 DEF written, RInv, InTurn
    <2> QED
      BY <1>0, <1>m, <2>1, <2>2, <2>3
  <1>10. ASSUME NEW n \in restoring, reverted(n) PROVE Ended'
    BY <1>10, <1>m DEF reverted
  <1>11. CASE UNCHANGED vars
    BY <1>11, <1>m DEF vars, marid
  <1> QED
    BY <1>1, <1>2, <1>3, <1>4, <1>5, <1>6, <1>7, <1>8, <1>9, <1>10, <1>11 DEF Next

LEMMA StoredStep == RInv /\ [Next]_vars => (stored = head)'
  <1> SUFFICES ASSUME RInv, [Next]_vars PROVE stored' = head'
    OBVIOUS
  <1>1. stored = head
    BY DEF RInv
  <1>2. UNCHANGED <<head, stored>> \/ stored' = head'
    BY DEF Next, reviewed, keepRun, revertRun, setHead, onSupervisorMessage, onHeadAdvance, onRunStarted,
           onRunCompleted, onSnapshotWritten, lost, finalizeCold, beginCold, wake, restart, drop, onHello,
           snapshotNow, startRun, exit, written, restoreToManifest, reverted, vars, meta
  <1> QED
    BY <1>1, <1>2

LEMMA RInvStep == RInv /\ [Next]_vars => RInv'
  BY TypedStep, InTurnStep, EndedStep, StoredStep DEF RInv

-----------------------------------------------------------------------------
(* What is off the head and off everything on its way there stays off.      *)

LEMMA GoneStep ==
    ASSUME RInv, [Next]_vars, NEW r \in Runs, Gone(r), ~\E s \in Runs \ {r} : Verdict(s)
    PROVE  Gone(r)'
  <1>0. /\ run \in [Runs -> Rows] /\ wire \in Seq(Reports) /\ orders \in Seq(Manifests)
        /\ req \in [Requests -> [op : {"idle", "keep", "revert"}, run : {None} \cup Runs]]
        /\ stored = head
    BY DEF RInv, Typed, TypeOK
  <1> DEFINE OnWire == \E i \in 1..Len(wire) : wire[i].kind # "completed" /\ r \in wire[i].of
             InOrders == \E i \in 1..Len(orders) : r \in orders[i]
             InTaken == \E t \in taken : r \in t.of
             Asked == \E q \in Requests : req[q].op = "revert" /\ r \in run[req[q].run].pre
             Away == r \notin head /\ r \notin disk /\ ~\E m \in restoring : r \in m
  <1>1. run[r].disp # "pending" /\ Away /\ ~OnWire /\ ~InOrders /\ ~InTaken /\ ~Asked
    BY DEF Gone, Carried
  <1>2. Over(r)
    BY <1>1 DEF RInv, Ended
  <1>3. run'[r].disp # "pending" /\ Away' /\ ~OnWire' /\ ~InOrders' /\ ~InTaken' /\ ~Asked' => Gone(r)'
    BY DEF Gone, Carried
  <1>a. UNCHANGED <<run, req>> => run'[r].disp # "pending" /\ ~Asked'
    BY <1>1
  <1>b. UNCHANGED <<head, disk, restoring>> => Away'
    BY <1>1
  <1>c. UNCHANGED wire => ~OnWire'
    BY <1>1
  <1>d. orders' \in {orders, <<>>} => ~InOrders'
    BY <1>1
  <1>e. UNCHANGED taken => ~InTaken'
    BY <1>1
  <1>4. ASSUME NEW q \in Requests, reviewed(q) PROVE Gone(r)'
    <2>1. PICK d \in {"kept", "reverted"} : run' = [run EXCEPT ![req[q].run].disp = d]
      BY <1>4 DEF reviewed, markDisposition
    <2>2. req[q].run \in Runs /\ req[q].op # "idle"
      BY <1>4 DEF reviewed, RInv, Ended, Free
    <2>3. \A s \in Runs : run'[s].pre = run[s].pre /\ run'[s].disp \in {run[s].disp, "kept", "reverted"}
      BY <1>0, <2>1, <2>2 DEF Rows
    <2>4. \A p \in Requests : req'[p].op = "idle" \/ req'[p] = req[p]
      BY <1>0, <1>4 DEF reviewed, Idle
    <2>5. run'[r].disp # "pending"
      BY <1>1, <2>3
    <2>6. ~Asked'
      BY <1>1, <2>3, <2>4 DEF RInv, Ended
    <2>7. ~InOrders'
      <3>1. CASE req[q].op = "keep" \/ ~conn
        BY <1>4, <1>d, <2>2, <3>1 DEF reviewed
      <3>2. CASE req[q].op = "revert"
        <4>1. run[req[q].run].pre \in Manifests /\ r \notin run[req[q].run].pre
          BY <1>0, <1>1, <2>2, <3>2 DEF RInv, Ended, Rows
        <4>2. orders' = orders \/ orders' = Append(orders, run[req[q].run].pre)
          BY <1>4, <3>2 DEF reviewed
        <4> QED
          BY <1>0, <1>1, <4>1, <4>2, Appended
      <3> QED
        BY <1>0, <2>2, <3>1, <3>2
    <2>8. UNCHANGED <<head, disk, restoring, wire, taken>>
      BY <1>4 DEF reviewed, meta, marid
    <2> QED
      BY <1>3, <1>b, <1>c, <1>e, <2>5, <2>6, <2>7, <2>8
  <1>5. ASSUME NEW q \in Requests, NEW s \in Runs PROVE ~keepRun(q, s) /\ ~revertRun(q, s)
    <2>1. CASE s = r
      BY <1>1, <2>1 DEF keepRun, revertRun
    <2>2. CASE s # r
      BY <2>2 DEF Verdict
    <2> QED
      BY <2>1, <2>2
  <1>6. CASE onSupervisorMessage
    <2>1. /\ wire # <<>> /\ wire' = Tail(wire) /\ Head(wire) \in Reports /\ Head(wire) = wire[1]
          /\ 1 \in 1..Len(wire) /\ UNCHANGED <<disk, restoring, taken, orders, req>>
          /\ \A i \in 1..Len(Tail(wire)) : Tail(wire)[i] = wire[i + 1] /\ i + 1 \in 1..Len(wire)
      BY <1>0, <1>6, OnTheWire DEF onSupervisorMessage, marid
    <2>2. Head(wire).kind # "completed" => r \notin Head(wire).of
      BY <1>1, <2>1
    <2>3. ~OnWire'
      BY <1>1, <2>1
    <2>4. Head(wire).kind # "advance" => Head(wire).run \in Runs
      BY <2>1 DEF Reports
    <2>5. Away' /\ run'[r].disp # "pending" /\ ~Asked'
      <3>1. CASE onHeadAdvance(Head(wire))
        BY <1>1, <1>a, <2>1, <2>2, <3>1 DEF onHeadAdvance, setHead
      <3>2. CASE onRunStarted(Head(wire))
        <4>1. Head(wire).run \in Runs /\ r \notin Head(wire).of /\ UNCHANGED head
          BY <2>2, <2>4, <3>2 DEF onRunStarted
        <4>2. \A s \in Runs : /\ run'[s].disp = run[s].disp
                              /\ run'[s].pre \in {run[s].pre, Head(wire).of}
          BY <1>0, <3>2, <4>1 DEF onRunStarted, Rows
        <4> QED
          BY <1>1, <1>b, <2>1, <4>1, <4>2 DEF RInv, Ended
      <3>3. CASE onRunCompleted(Head(wire))
        <4>1. Head(wire).run \in Runs /\ UNCHANGED head
          BY <2>4, <3>3 DEF onRunCompleted
        <4>2. \A s \in Runs : run'[s].disp = run[s].disp /\ run'[s].pre = run[s].pre
          BY <1>0, <3>3, <4>1 DEF onRunCompleted, Rows
        <4> QED
          BY <1>1, <1>b, <2>1, <4>1, <4>2 DEF RInv, Ended
      <3> QED
        BY <1>6, <3>1, <3>2, <3>3 DEF onSupervisorMessage
    <2> QED
      BY <1>3, <1>d, <1>e, <2>1, <2>3, <2>5
  <1>7. CASE onSnapshotWritten \/ lost
    <2>1. finalizeCold(head') /\ head' \in {head, disk}
      BY <1>7 DEF onSnapshotWritten, lost, finalizeCold
    <2>2. /\ disk' = {} /\ restoring' = {} /\ taken' = {} /\ wire' = <<>> /\ orders' = <<>> /\ req' = req
          /\ Len(wire') = 0
      BY <2>1 DEF finalizeCold
    <2>3. \A s \in Runs : run'[s].disp = run[s].disp /\ run'[s].pre = run[s].pre
      BY <1>0, <2>1 DEF finalizeCold, Rows
    <2>4. run'[r].disp # "pending" /\ ~Asked'
      BY <1>1, <2>2, <2>3 DEF RInv, Ended
    <2>5. Away' /\ ~OnWire' /\ ~InOrders' /\ ~InTaken'
      BY <1>1, <2>1, <2>2
    <2> QED
      BY <1>3, <2>4, <2>5
  <1>8. CASE beginCold \/ drop \/ onHello
    <2>1. UNCHANGED <<run, req, head, disk, restoring, wire, taken>> /\ orders' \in {orders, <<>>}
      BY <1>8 DEF beginCold, drop, onHello, meta
    <2> QED
      BY <1>3, <1>a, <1>b, <1>c, <1>d, <1>e, <2>1
  <1>9. CASE wake
    <2>1. UNCHANGED <<run, req, head, restoring, wire, taken, orders>> /\ disk' = head
      BY <1>9 DEF wake
    <2>2. Away'
      BY <1>1, <2>1
    <2> QED
      BY <1>3, <1>a, <1>c, <1>d, <1>e, <2>1, <2>2
  <1>10. CASE restart
    <2>1. /\ UNCHANGED <<run, disk, restoring, wire, taken>> /\ orders' = <<>> /\ head' = head
          /\ \A q \in Requests : req'[q].op = "idle"
      BY <1>0, <1>10 DEF restart, Idle
    <2>2. run'[r].disp # "pending" /\ ~Asked'
      BY <1>1, <2>1
    <2> QED
      BY <1>3, <1>b, <1>c, <1>d, <1>e, <2>1, <2>2
  <1>11. ASSUME NEW kind, NEW s, Snapshot(kind, s), UNCHANGED <<run, req, head, disk, restoring, wire, orders>>
         PROVE  Gone(r)'
    <2>1. PICK n \in {disk} \cup restoring : taken' = taken \cup {[kind |-> kind, run |-> s, of |-> n]}
      BY <1>11 DEF Snapshot
    <2>2. r \notin n
      BY <1>1
    <2>3. ~InTaken'
      BY <1>1, <2>1, <2>2
    <2> QED
      BY <1>3, <1>11, <1>a, <1>b, <1>c, <1>d, <2>3
  <1>12. CASE snapshotNow
    BY <1>12, <1>11 DEF snapshotNow, meta
  <1>13. ASSUME NEW s \in Runs, startRun(s) \/ exit(s) PROVE Gone(r)'
    BY <1>13, <1>11 DEF startRun, exit, meta
  <1>14. ASSUME NEW t \in taken, written(t) PROVE Gone(r)'
    <2>1. /\ UNCHANGED <<run, req, head, restoring, orders>> /\ taken' = taken \ {t}
      BY <1>14 DEF written, meta
    <2>2. t \in Taken /\ r \notin t.of /\ t.kind \in {"plain", "pre", "post"}
      BY <1>1, TakenAre DEF RInv, Typed
    <2>3. disk' = disk \/ (t.kind = "pre" /\ disk' = disk \cup {t.run})
      BY <1>14 DEF written
    <2>4. t.kind = "pre" => t.run # r
      BY <1>2 DEF RInv, InTurn, Over
    <2>5. Away'
      BY <1>1, <2>1, <2>3, <2>4
    <2>6. ~InTaken'
      BY <1>1, <2>1
    <2>7. ~OnWire'
      <3> DEFINE A == Report("advance", None, t.of)  B == Report("started", t.run, t.of)
                 C == Report("completed", t.run, t.of)  D == Report("completed", t.run, base[t.run])
      <3>1. /\ A.of = t.of /\ B.of = t.of /\ C.kind = "completed" /\ D.kind = "completed"
        BY DEF Report
      <3>2. \/ wire' = Append(wire, A) \/ wire' = wire \o <<A, B>>
            \/ wire' = wire \o <<C, A>> \/ wire' = Append(wire, D)
        BY <1>14 DEF written
      <3> HIDE DEF A, B, C, D
      <3> DEFINE W == Reports \cup {A, B, C, D}
      <3>3. wire \in Seq(W)
        BY <1>0
      <3>4. \A i \in 1..Len(wire') : \/ i \in 1..Len(wire) /\ wire'[i] = wire[i]
                                     \/ wire'[i] \in {A, B, C, D}
        <4> HIDE DEF W
        <4>1. A \in W /\ B \in W /\ C \in W /\ D \in W
          BY DEF W
        <4>2. CASE wire' = Append(wire, A) \/ wire' = Append(wire, D)
          BY <3>3, <4>1, <4>2, Appended
        <4>3. CASE wire' = wire \o <<A, B>>
          BY <3>3, <4>1, <4>3, AppendedTwo
        <4>4. CASE wire' = wire \o <<C, A>>
          BY <3>3, <4>1, <4>4, AppendedTwo
        <4> QED
          BY <3>2, <4>2, <4>3, <4>4
      <3> QED
        BY <1>1, <2>2, <3>1, <3>4
    <2> QED
      BY <1>3, <1>a, <1>d, <2>1, <2>5, <2>6, <2>7
  <1>15. CASE restoreToManifest
    <2>1. /\ UNCHANGED <<run, req, head, disk, wire, taken>> /\ orders # <<>> /\ orders' = Tail(orders)
          /\ restoring' = restoring \cup {Head(orders)}
      BY <1>15 DEF restoreToManifest, meta
    <2>2. /\ Head(orders) = orders[1] /\ 1 \in 1..Len(orders)
          /\ \A i \in 1..Len(Tail(orders)) : Tail(orders)[i] = orders[i + 1] /\ i + 1 \in 1..Len(orders)
      BY <1>0, <2>1
    <2>3. Away' /\ ~InOrders'
      BY <1>1, <2>1, <2>2
    <2> QED
      BY <1>3, <1>a, <1>c, <1>e, <2>1, <2>3
  <1>16. ASSUME NEW n \in restoring, reverted(n) PROVE Gone(r)'
    <2>1. UNCHANGED <<run, req, head, wire, taken, orders>> /\ restoring' = restoring \ {n}
      BY <1>16 DEF reverted, meta
    <2>2. disk' \in {n, disk, disk \cup n}
      BY <1>16 DEF reverted
    <2>3. Away'
      BY <1>1, <2>1, <2>2
    <2> QED
      BY <1>3, <1>a, <1>c, <1>d, <1>e, <2>1, <2>3
  <1>17. CASE UNCHANGED vars
    BY <1>17, <1>3, <1>a, <1>b, <1>c, <1>d, <1>e DEF vars, meta, marid
  <1> QED
    BY <1>4, <1>5, <1>6, <1>7, <1>8, <1>9, <1>10, <1>12, <1>13, <1>14, <1>15, <1>16, <1>17 DEF Next

(* A run that was decided on and whose changes are off the head and off     *)
(* everything on its way there stays so: neither a restart, a loss, a       *)
(* sleep, a wake nor a late report or restore brings them back, only a keep *)
(* or revert of another run (revertRun, keepRun, #onHeadAdvance, #onRun...).*)
THEOREM RevertedStaysEver == Spec => RevertedStays
  <1>1. Init => RInv
    BY InitRInv
  <1>2. RInv /\ [Next]_vars => RInv'
    BY RInvStep
  <1>3. RInv /\ [Next]_vars =>
          [\A r \in Runs : Gone(r) => Gone(r)' \/ \E s \in Runs \ {r} : Verdict(s)]_vars
    BY GoneStep
  <1> QED
    BY <1>1, <1>2, <1>3, PTL DEF Spec, RevertedStays
===============================================================================
