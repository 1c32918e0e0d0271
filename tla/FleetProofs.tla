----------------------------- MODULE FleetProofs -----------------------------
(***************************************************************************)
(* What the fleet's routes promise for any number of computers, requests   *)
(* and faults: the plan's cap, what a delete leaves behind, and what the   *)
(* file browser shows of a computer that sleeps.                           *)
(***************************************************************************)
EXTENDS Fleet, FiniteSetTheorems, TLAPS

-----------------------------------------------------------------------------
(* The requests in flight, by what they carry.                             *)
Creation == [op : {"create", "fork"}, c : Computers, at : {"insert", "lineage", "init"},
             head : Manifests, src : Computers \cup {None}]
Deletion == [op : {"delete"}, c : Computers, at : {"teardown", "destroying", "store", "rows"}]
Visit == [op : {"wake", "secret"}, c : Computers, at : {"granted", "checked"}]

MetaType == [Computers -> [state : {"cold", "awake"}, head : Manifests \cup {None},
                           handle : BOOLEAN, waking : BOOLEAN]]

Typed == /\ row \in [Computers -> Manifests \cup {NoRow}]
         /\ meta \in MetaType
         /\ req \in [Requests -> {Idle} \cup Creation \cup Deletion \cup Visit]
         /\ minted \subseteq Computers /\ inst \subseteq Computers
         /\ objects \subseteq Computers /\ secrets \subseteq Computers
         /\ lineage \subseteq Computers \X (Computers \cup {None})

(* A computer anything refers to has been minted. *)
Minted == /\ \A c \in Computers : row[c] # NoRow => c \in minted
          /\ \A r \in Requests : Busy(r) => req[r].c \in minted

(* Nothing outside its row is a computer's. *)
Clean(c) == /\ c \notin inst /\ c \notin objects /\ c \notin secrets
            /\ \A e \in lineage : e[1] # c /\ e[2] # c
            /\ ~meta[c].handle /\ ~meta[c].waking

(* A computer without a row is clean, and only its own insert is on its way. *)
RowlessIsClean(c) ==
  row[c] = NoRow => /\ Clean(c)
                    /\ \A r \in Requests : Busy(r) /\ req[r].c = c => req[r].at = "insert"

(* An instance is one the object knows of. *)
Known(c) == c \in inst => meta[c].handle

(* A delete is alone with its computer, and has left each store it is past. *)
DeleteAlone(c) ==
  \A r \in Requests : req[r].op = "delete" /\ req[r].c = c =>
     /\ \A q \in Requests \ {r} : Busy(q) => req[q].c # c
     /\ ~meta[c].waking
     /\ req[r].at \in {"store", "rows"} => c \notin inst /\ ~meta[c].handle
     /\ req[r].at = "rows" => c \notin objects

(* A row's object has a head, or its creation is about to give it one. *)
Seeded(c) ==
  row[c] # NoRow => \/ meta[c].head # None
                    \/ \E r \in Requests : /\ req[r].op \in {"create", "fork"} /\ req[r].c = c
                                           /\ req[r].at \in {"lineage", "init"}

Sound(c) == RowlessIsClean(c) /\ Known(c) /\ DeleteAlone(c) /\ Seeded(c)
FInv == Typed /\ Minted /\ \A c \in Computers \ excused : Sound(c)

LEMMA InitFInv == Init => FInv
  <1> SUFFICES ASSUME Init PROVE FInv
    OBVIOUS
  <1>1. \A c \in Computers : /\ row[c] = NoRow
                             /\ meta[c] = [state |-> "cold", head |-> None, handle |-> FALSE,
                                           waking |-> FALSE]
    BY DEF Init
  <1>2. \A r \in Requests : req[r] = Idle /\ req[r].op = "idle"
    BY DEF Init, Idle
  <1>3. Typed
    <2>1. row \in [Computers -> Manifests \cup {NoRow}]
      BY DEF Init
    <2>2. meta \in MetaType
      BY DEF Init, MetaType
    <2>3. req \in [Requests -> {Idle} \cup Creation \cup Deletion \cup Visit]
      BY DEF Init
    <2> QED
      BY <2>1, <2>2, <2>3 DEF Init, Typed
  <1>4. Minted
    BY <1>1, <1>2 DEF Minted, Busy
  <1>5. ASSUME NEW c \in Computers
        PROVE  Sound(c)
    BY <1>1, <1>2 DEF Init, Sound, RowlessIsClean, Known, DeleteAlone, Seeded, Clean, Busy
  <1> QED
    BY <1>3, <1>4, <1>5 DEF FInv

(* What a request in flight carries, by its operation.                     *)
LEMMA RequestKinds ==
    ASSUME Typed, NEW r \in Requests
    PROVE  /\ req[r].op \in {"create", "fork"} => req[r] \in Creation
           /\ req[r].op = "delete" => req[r] \in Deletion
           /\ req[r].op \in {"wake", "secret"} => req[r] \in Visit
           /\ Busy(r) => req[r].c \in Computers /\ req[r] # Idle
           /\ Busy(r) => req[r] \in Creation \cup Deletion \cup Visit
  BY DEF Typed, MetaType, Creation, Deletion, Visit, Idle, Busy

(* A request that goes on to its next await keeps what it carries.         *)
LEMMA GoesOn ==
    ASSUME Typed, NEW r \in Requests, NEW at, Goes(r, at),
           \/ req[r] \in Creation /\ at \in {"lineage", "init"}
           \/ req[r] \in Deletion /\ at \in {"destroying", "store", "rows"}
    PROVE  /\ req' \in [Requests -> {Idle} \cup Creation \cup Deletion \cup Visit]
           /\ req'[r].op = req[r].op /\ req'[r].c = req[r].c /\ req'[r].at = at
           /\ \A q \in Requests \ {r} : req'[q] = req[q]
  <1>1. req' = [req EXCEPT ![r] = [req[r] EXCEPT !.at = at]]
    BY DEF Goes
  <1>2. CASE req[r] \in Creation /\ at \in {"lineage", "init"}
    <2>1. [req[r] EXCEPT !.at = at] \in Creation
      BY <1>2 DEF Creation
    <2> QED
      BY <1>1, <1>2, <2>1 DEF Typed, MetaType, Creation
  <1>3. CASE req[r] \in Deletion /\ at \in {"destroying", "store", "rows"}
    <2>1. [req[r] EXCEPT !.at = at] \in Deletion
      BY <1>3 DEF Deletion
    <2> QED
      BY <1>1, <1>3, <2>1 DEF Typed, MetaType, Deletion
  <1> QED
    BY <1>2, <1>3

LEMMA AnsweredRests ==
    ASSUME Typed, NEW r \in Requests, Answered(r)
    PROVE  /\ req' \in [Requests -> {Idle} \cup Creation \cup Deletion \cup Visit]
           /\ ~Busy(r)' /\ req'[r].op = "idle"
           /\ \A q \in Requests \ {r} : req'[q] = req[q]
  BY DEF Typed, MetaType, Answered, Busy, Idle

(* Setting one field of one object keeps the type.                         *)
LEMMA MetaTyped ==
    ASSUME Typed, NEW x \in Computers, NEW w \in BOOLEAN, NEW h \in BOOLEAN
    PROVE  /\ [meta EXCEPT ![x].handle = h] \in MetaType
           /\ [meta EXCEPT ![x].waking = w] \in MetaType
           /\ [meta EXCEPT ![x].waking = w, ![x].handle = h, ![x].state = "awake"] \in MetaType
  <1>1. /\ [meta[x] EXCEPT !.handle = h] \in [state : {"cold", "awake"}, head : Manifests \cup {None},
                                              handle : BOOLEAN, waking : BOOLEAN]
        /\ [meta[x] EXCEPT !.waking = w] \in [state : {"cold", "awake"}, head : Manifests \cup {None},
                                              handle : BOOLEAN, waking : BOOLEAN]
    BY DEF Typed, MetaType
  <1> QED
    BY <1>1 DEF Typed, MetaType

LEMMA WakeKeeps ==
    ASSUME FInv, NEW r \in Requests, wake(r)
    PROVE  FInv'
  <1>1. Typed'
    BY DEF FInv, Typed, MetaType, wake, Answered, d1
  <1>2. Minted'
    BY DEF FInv, Typed, MetaType, Minted, wake, Answered, d1, Busy, Idle
  <1>3. ASSUME NEW c \in Computers \ excused'
        PROVE  Sound(c)'
    <2>1. Sound(c) /\ excused' = excused
      BY <1>3 DEF FInv, wake
    <2>2. RowlessIsClean(c)'
      BY <1>1, <2>1 DEF FInv, Typed, MetaType, Sound, RowlessIsClean, Clean, wake, Answered, d1, Busy, Idle, Creation, Deletion, Visit
    <2>3. Known(c)'
      BY <1>1, <2>1 DEF FInv, Typed, MetaType, Sound, Known, wake, Answered, d1
    <2>4. DeleteAlone(c)'
      BY <1>1, <2>1 DEF FInv, Typed, MetaType, Sound, DeleteAlone, wake, Answered, d1, Busy, Idle
    <2>5. Seeded(c)'
      BY <1>1, <2>1 DEF FInv, Typed, MetaType, Sound, Seeded, wake, Answered, d1, Busy, Idle
    <2> QED
      BY <2>2, <2>3, <2>4, <2>5 DEF Sound
  <1> QED
    BY <1>1, <1>2, <1>3 DEF FInv

LEMMA InsertKeeps ==
    ASSUME FInv, NEW r \in Requests, insertComputer(r)
    PROVE  FInv'
  <1>1. Typed'
    BY DEF FInv, Typed, MetaType, insertComputer, Answered, Goes, canCreateComputer, d1, Creation, Deletion, Visit, Idle
  <1>2. Minted'
    <2>1. req[r].c \in minted /\ req[r] \in Creation /\ Busy(r)
      BY RequestKinds DEF FInv, Minted, insertComputer, Busy
    <2>2. /\ \A q \in Requests \ {r} : req'[q] = req[q]
          /\ Busy(r)' => req'[r].c = req[r].c
      BY <2>1, GoesOn, AnsweredRests DEF FInv, insertComputer
    <2>3. \A x \in Computers : row'[x] = row[x] \/ x = req[r].c
      BY DEF FInv, Typed, insertComputer
    <2> QED
      BY <2>1, <2>2, <2>3 DEF FInv, Minted, insertComputer, Busy
  <1>m. /\ \A q \in Requests \ {r} : req'[q] = req[q]
        /\ Busy(r)' => req'[r].op = req[r].op /\ req'[r].c = req[r].c /\ row'[req[r].c] # NoRow
        /\ \A x \in Computers : row'[x] = NoRow => row[x] = NoRow
        /\ req[r].op \in {"create", "fork"} /\ UNCHANGED <<meta, inst, objects, secrets, lineage>>
    <2>1. req[r] \in Creation /\ req[r].head # NoRow
      BY RequestKinds DEF FInv, insertComputer, Creation, Manifests, NoRow
    <2>2. CASE canCreateComputer
      <3>1. /\ row' = [row EXCEPT ![req[r].c] = req[r].head]
            /\ Goes(r, IF req[r].op = "fork" THEN "lineage" ELSE "init")
            /\ UNCHANGED <<meta, inst, objects, secrets, lineage>>
        BY <2>2 DEF insertComputer
      <3>2. req[r].c \in Computers
        BY <2>1 DEF Creation
      <3>3. \A x \in Computers : row'[x] = IF x = req[r].c THEN req[r].head ELSE row[x]
        BY <3>1 DEF FInv, Typed
      <3>4. /\ req'[r].op = req[r].op /\ req'[r].c = req[r].c
            /\ \A q \in Requests \ {r} : req'[q] = req[q]
        BY <3>1, <2>1, GoesOn DEF FInv
      <3> QED
        BY <3>1, <3>2, <3>3, <3>4, <2>1 DEF insertComputer
    <2>3. CASE ~canCreateComputer
      BY <2>3, AnsweredRests DEF FInv, insertComputer
    <2> QED
      BY <2>2, <2>3
  <1>3. ASSUME NEW c \in Computers \ excused'
        PROVE  Sound(c)'
    <2>1. Sound(c)
      BY <1>3 DEF FInv, insertComputer, Answered, Goes, canCreateComputer
    <2>2. RowlessIsClean(c)'
      BY <1>m, <2>1 DEF FInv, Sound, RowlessIsClean, Clean, Busy
    <2>3. Known(c)'
      BY <1>1, <2>1 DEF FInv, Typed, MetaType, Sound, Known, insertComputer, Answered, Goes, canCreateComputer, d1
    <2>4. DeleteAlone(c)'
      BY <1>m, <2>1 DEF Sound, DeleteAlone, Busy
    <2>5. Seeded(c)'
      BY <1>1, <2>1 DEF FInv, Typed, MetaType, Sound, Seeded, insertComputer, Answered, Goes, canCreateComputer, d1, Busy, Idle,
         Creation, Deletion, Visit
    <2> QED
      BY <2>2, <2>3, <2>4, <2>5 DEF Sound
  <1> QED
    BY <1>1, <1>2, <1>3 DEF FInv

LEMMA LineageKeeps ==
    ASSUME FInv, NEW r \in Requests, insertLineage(r)
    PROVE  FInv'
  <1>1. Typed'
    <2>1. req[r] \in Creation
      BY RequestKinds DEF FInv, insertLineage
    <2>2. <<req[r].c, req[r].src>> \in Computers \X (Computers \cup {None})
      BY <2>1 DEF insertLineage, Creation
    <2> QED
      BY <2>1, <2>2, GoesOn DEF FInv, Typed, MetaType, insertLineage, d1
  <1>2. Minted'
    BY <1>1 DEF FInv, Typed, MetaType, Minted, insertLineage, Goes, Deleting, d1, Busy, Idle, Creation, Deletion, Visit
  <1>3. ASSUME NEW c \in Computers \ excused'
        PROVE  Sound(c)'
    <2>1. Sound(c)
      BY <1>3 DEF FInv, insertLineage, Goes, Deleting
    <2>2. RowlessIsClean(c)'
      BY <1>1, <2>1 DEF FInv, Typed, MetaType, Sound, RowlessIsClean, Clean, insertLineage, Goes, Deleting, d1, Busy, Idle,
         Creation, Deletion, Visit
    <2>3. Known(c)'
      BY <1>1, <2>1 DEF FInv, Typed, MetaType, Sound, Known, insertLineage, Goes, Deleting, d1
    <2>4. DeleteAlone(c)'
      BY <1>1, <2>1 DEF FInv, Typed, MetaType, Sound, DeleteAlone, insertLineage, Goes, Deleting, d1, Busy, Idle,
         Creation, Deletion, Visit
    <2>5. Seeded(c)'
      BY <1>1, <2>1 DEF FInv, Typed, MetaType, Sound, Seeded, insertLineage, Goes, Deleting, d1, Busy, Idle,
         Creation, Deletion, Visit
    <2> QED
      BY <2>2, <2>3, <2>4, <2>5 DEF Sound
  <1> QED
    BY <1>1, <1>2, <1>3 DEF FInv

LEMMA InitHeadKeeps ==
    ASSUME FInv, NEW r \in Requests, initFromManifest(r)
    PROVE  FInv'
  <1>1. Typed'
    BY DEF FInv, Typed, MetaType, initFromManifest, Answered, d1, Creation, Deletion, Visit, Idle
  <1>2. Minted'
    BY <1>1 DEF FInv, Typed, MetaType, Minted, initFromManifest, Answered, d1, Busy, Idle, Creation, Deletion, Visit
  <1>3. ASSUME NEW c \in Computers \ excused'
        PROVE  Sound(c)'
    <2>1. Sound(c)
      BY <1>3 DEF FInv, initFromManifest, Answered
    <2>2. RowlessIsClean(c)'
      BY <1>1, <2>1 DEF FInv, Typed, MetaType, Sound, RowlessIsClean, Clean, initFromManifest, Answered, d1, Busy, Idle,
         Creation, Deletion, Visit
    <2>3. Known(c)'
      BY <1>1, <2>1 DEF FInv, Typed, MetaType, Sound, Known, initFromManifest, Answered, d1
    <2>4. DeleteAlone(c)'
      BY <1>1, <2>1 DEF FInv, Typed, MetaType, Sound, DeleteAlone, initFromManifest, Answered, d1, Busy, Idle,
         Creation, Deletion, Visit
    <2>5. Seeded(c)'
      <3>1. req[r] \in Creation /\ req[r].head # None
        BY RequestKinds, FleetAssumption DEF FInv, initFromManifest, Creation
      <3>2. CASE c = req[r].c
        BY <3>1, <3>2 DEF FInv, Typed, MetaType, Seeded, initFromManifest
      <3>3. CASE c # req[r].c
        BY <3>1, <3>3, <2>1, AnsweredRests
        DEF FInv, Typed, MetaType, Sound, Seeded, initFromManifest, d1
      <3> QED
        BY <3>2, <3>3
    <2> QED
      BY <2>2, <2>3, <2>4, <2>5 DEF Sound
  <1> QED
    BY <1>1, <1>2, <1>3 DEF FInv

LEMMA TeardownKeeps ==
    ASSUME FInv, NEW r \in Requests, deletePermanently(r)
    PROVE  FInv'
  <1>1. Typed'
    <2>1. req[r] \in Deletion /\ req[r].c \in Computers
      BY RequestKinds DEF FInv, deletePermanently, Deletion
    <2>2. meta' \in MetaType
      <3>1. meta' = meta \/ meta' = [meta EXCEPT ![req[r].c].handle = FALSE]
        BY DEF deletePermanently, Wiped
      <3> QED
        BY <3>1, <2>1, MetaTyped DEF FInv, Typed
    <2>3. req' \in [Requests -> {Idle} \cup Creation \cup Deletion \cup Visit]
      BY <2>1, GoesOn DEF FInv, deletePermanently
    <2> QED
      BY <2>2, <2>3 DEF FInv, Typed, MetaType, deletePermanently, d1
  <1>m. /\ \A q \in Requests \ {r} : req'[q] = req[q]
        /\ req'[r].op = "delete" /\ req[r].op = "delete" /\ req'[r].c = req[r].c
        /\ req'[r].at # "rows"
        /\ req'[r].at = "store" => ~meta[req[r].c].handle
    BY GoesOn, RequestKinds DEF FInv, deletePermanently
  <1>n. \A x \in Computers : /\ meta'[x].handle => meta[x].handle
                             /\ meta'[x].waking = meta[x].waking
                             /\ meta'[x].head = meta[x].head
    BY DEF FInv, Typed, MetaType, deletePermanently, Wiped
  <1>2. Minted'
    BY <1>m DEF FInv, Minted, deletePermanently, d1, Busy
  <1>3. ASSUME NEW c \in Computers \ excused'
        PROVE  Sound(c)'
    <2>1. Sound(c)
      BY <1>3 DEF FInv, deletePermanently, Goes, Wiped
    <2>2. RowlessIsClean(c)'
      BY <1>m, <1>n, <2>1 DEF Sound, RowlessIsClean, Clean, Busy, deletePermanently, d1
    <2>3. Known(c)'
      BY <1>1, <2>1 DEF FInv, Typed, MetaType, Sound, Known, deletePermanently, Goes, Wiped, d1
    <2>4. DeleteAlone(c)'
      BY <1>m, <1>n, <2>1 DEF Sound, DeleteAlone, Known, Busy, deletePermanently
    <2>5. Seeded(c)'
      BY <1>m, <1>n, <2>1 DEF Sound, Seeded, deletePermanently, d1
    <2> QED
      BY <2>2, <2>3, <2>4, <2>5 DEF Sound
  <1> QED
    BY <1>1, <1>2, <1>3 DEF FInv

LEMMA DestroyedKeeps ==
    ASSUME FInv, NEW r \in Requests, destroyed(r)
    PROVE  FInv'
  <1>1. Typed'
    <2>1. req[r] \in Deletion /\ req[r].c \in Computers
      BY RequestKinds DEF FInv, destroyed, Deletion
    <2>2. meta' \in MetaType
      <3>1. meta' = meta \/ meta' = [meta EXCEPT ![req[r].c].handle = FALSE]
        BY DEF destroyed, Wiped
      <3> QED
        BY <3>1, <2>1, MetaTyped DEF FInv, Typed
    <2>3. req' \in [Requests -> {Idle} \cup Creation \cup Deletion \cup Visit]
      BY <2>1, GoesOn, AnsweredRests DEF FInv, destroyed
    <2>4. inst' \subseteq inst
      BY DEF destroyed
    <2> QED
      BY <2>2, <2>3, <2>4 DEF FInv, Typed, MetaType, destroyed, d1
  <1>m. /\ \A q \in Requests \ {r} : req'[q] = req[q]
        /\ req[r].op = "delete"
        /\ \/ req'[r].op = "idle" /\ UNCHANGED meta
           \/ /\ req'[r].op = "delete" /\ req'[r].c = req[r].c /\ req'[r].at = "store"
              /\ Wiped(req[r].c) /\ req[r].c \notin inst'
    <2>1. req[r] \in Deletion /\ req[r].op = "delete"
      BY RequestKinds DEF FInv, destroyed
    <2>2. CASE Goes(r, "store")
      BY <2>1, <2>2, GoesOn, AnsweredRests DEF FInv, destroyed
    <2>3. CASE Answered(r) /\ UNCHANGED meta
      BY <2>1, <2>3, AnsweredRests DEF FInv, destroyed
    <2> QED
      BY <2>2, <2>3 DEF destroyed
  <1>n. \A x \in Computers : /\ meta'[x].handle => meta[x].handle
                             /\ meta'[x].waking = meta[x].waking
                             /\ meta'[x].head = meta[x].head
                             /\ Wiped(req[r].c) /\ x = req[r].c => ~meta'[x].handle
    BY DEF FInv, Typed, MetaType, destroyed, Wiped
  <1>2. Minted'
    BY <1>m DEF FInv, Minted, destroyed, d1, Busy
  <1>3. ASSUME NEW c \in Computers \ excused'
        PROVE  Sound(c)'
    <2>1. Sound(c)
      BY <1>3 DEF FInv, destroyed, Goes, Answered, Wiped, Fault
    <2>2. RowlessIsClean(c)'
      BY <1>m, <1>n, <2>1 DEF Sound, RowlessIsClean, Clean, Busy, destroyed, d1
    <2>3. Known(c)'
      BY <1>1, <2>1 DEF FInv, Typed, MetaType, Sound, Known, destroyed, Goes, Answered, Wiped, Fault, d1
    <2>4. DeleteAlone(c)'
      BY <1>m, <1>n, <2>1 DEF Sound, DeleteAlone, Busy, destroyed
    <2>5. Seeded(c)'
      BY <1>m, <1>n, <2>1 DEF Sound, Seeded, destroyed, d1
    <2> QED
      BY <2>2, <2>3, <2>4, <2>5 DEF Sound
  <1> QED
    BY <1>1, <1>2, <1>3 DEF FInv

LEMMA StoreDataKeeps ==
    ASSUME FInv, NEW r \in Requests, deleteComputerStoreData(r)
    PROVE  FInv'
  <1>0. req[r] \in Deletion /\ req[r].op = "delete" /\ req[r].at = "store"
    BY RequestKinds DEF FInv, deleteComputerStoreData
  <1>1. Typed'
    <2>1. req' \in [Requests -> {Idle} \cup Creation \cup Deletion \cup Visit]
      BY <1>0, GoesOn, AnsweredRests DEF FInv, deleteComputerStoreData
    <2>2. objects' \subseteq objects
      BY DEF deleteComputerStoreData
    <2> QED
      BY <2>1, <2>2 DEF FInv, Typed, MetaType, deleteComputerStoreData, d1
  <1>m. /\ \A q \in Requests \ {r} : req'[q] = req[q]
        /\ objects' \subseteq objects
        /\ \/ req'[r].op = "idle"
           \/ /\ req'[r].op = "delete" /\ req'[r].c = req[r].c /\ req'[r].at = "rows"
              /\ req[r].c \notin objects'
    <2>1. CASE Goes(r, "rows") /\ objects' = objects \ {req[r].c}
      BY <1>0, <2>1, GoesOn DEF FInv
    <2>2. CASE Answered(r) /\ objects' \subseteq objects
      BY <2>2, AnsweredRests DEF FInv
    <2> QED
      BY <2>1, <2>2 DEF deleteComputerStoreData
  <1>2. Minted'
    BY <1>0, <1>m DEF FInv, Minted, deleteComputerStoreData, d1, Busy
  <1>3. ASSUME NEW c \in Computers \ excused'
        PROVE  Sound(c)'
    <2>1. Sound(c)
      BY <1>3 DEF FInv, deleteComputerStoreData
    <2>2. RowlessIsClean(c)'
      BY <1>0, <1>m, <2>1 DEF Sound, RowlessIsClean, Clean, Busy, deleteComputerStoreData, d1
    <2>3. Known(c)'
      BY <2>1 DEF Sound, Known, deleteComputerStoreData
    <2>4. DeleteAlone(c)'
      BY <1>0, <1>m, <2>1 DEF Sound, DeleteAlone, Busy, deleteComputerStoreData
    <2>5. Seeded(c)'
      BY <1>0, <1>m, <2>1 DEF Sound, Seeded, deleteComputerStoreData, d1
    <2> QED
      BY <2>2, <2>3, <2>4, <2>5 DEF Sound
  <1> QED
    BY <1>1, <1>2, <1>3 DEF FInv

LEMMA RowsKeeps ==
    ASSUME FInv, NEW r \in Requests, deleteComputer(r)
    PROVE  FInv'
  <1>1. Typed'
    BY DEF FInv, Typed, MetaType, deleteComputer, Answered, d1, Creation, Deletion, Visit, Idle
  <1>2. Minted'
    BY <1>1 DEF FInv, Typed, MetaType, Minted, deleteComputer, Answered, d1, Busy, Idle, Creation, Deletion, Visit
  <1>3. ASSUME NEW c \in Computers \ excused'
        PROVE  Sound(c)'
    <2>1. Sound(c)
      BY <1>3 DEF FInv, deleteComputer, Answered
    <2>2. RowlessIsClean(c)'
      <3>1. /\ \A q \in Requests \ {r} : req'[q] = req[q]
            /\ ~Busy(r)' /\ req[r].op = "delete" /\ Busy(r) /\ req[r].at = "rows"
        BY AnsweredRests DEF FInv, deleteComputer, Busy
      <3>2. CASE c = req[r].c
        BY <3>1, <3>2, <2>1 DEF FInv, Typed, MetaType, Sound, DeleteAlone, RowlessIsClean, Clean,
           deleteComputer, Busy
      <3>3. CASE c # req[r].c
        BY <3>1, <3>3, <2>1 DEF FInv, Typed, MetaType, Sound, RowlessIsClean, Clean, deleteComputer, Busy
      <3> QED
        BY <3>2, <3>3
    <2>3. Known(c)'
      BY <1>1, <2>1 DEF FInv, Typed, MetaType, Sound, Known, deleteComputer, Answered, d1
    <2>4. DeleteAlone(c)'
      BY <1>1, <2>1 DEF FInv, Typed, MetaType, Sound, DeleteAlone, deleteComputer, Answered, d1, Busy, Idle,
         Creation, Deletion, Visit
    <2>5. Seeded(c)'
      BY <1>1, <2>1 DEF FInv, Typed, MetaType, Sound, Seeded, deleteComputer, Answered, d1, Busy, Idle,
         Creation, Deletion, Visit
    <2> QED
      BY <2>2, <2>3, <2>4, <2>5 DEF Sound
  <1> QED
    BY <1>1, <1>2, <1>3 DEF FInv

LEMMA SecretKeeps ==
    ASSUME FInv, NEW r \in Requests, setSecret(r)
    PROVE  FInv'
  <1>1. Typed'
    BY DEF FInv, Typed, MetaType, setSecret, Answered, d1, Creation, Deletion, Visit, Idle
  <1>2. Minted'
    BY <1>1 DEF FInv, Typed, MetaType, Minted, setSecret, Answered, d1, Busy, Idle, Creation, Deletion, Visit
  <1>3. ASSUME NEW c \in Computers \ excused'
        PROVE  Sound(c)'
    <2>1. Sound(c)
      BY <1>3 DEF FInv, setSecret, Answered
    <2>2. RowlessIsClean(c)'
      BY <1>1, <2>1 DEF FInv, Typed, MetaType, Sound, RowlessIsClean, Clean, setSecret, Answered, d1, Busy, Idle,
         Creation, Deletion, Visit
    <2>3. Known(c)'
      BY <1>1, <2>1 DEF FInv, Typed, MetaType, Sound, Known, setSecret, Answered, d1
    <2>4. DeleteAlone(c)'
      BY <1>1, <2>1 DEF FInv, Typed, MetaType, Sound, DeleteAlone, setSecret, Answered, d1, Busy, Idle,
         Creation, Deletion, Visit
    <2>5. Seeded(c)'
      BY <1>1, <2>1 DEF FInv, Typed, MetaType, Sound, Seeded, setSecret, Answered, d1, Busy, Idle,
         Creation, Deletion, Visit
    <2> QED
      BY <2>2, <2>3, <2>4, <2>5 DEF Sound
  <1> QED
    BY <1>1, <1>2, <1>3 DEF FInv

LEMMA CutKeeps ==
    ASSUME FInv, NEW r \in Requests, cut(r)
    PROVE  FInv'
  <1>1. Typed'
    BY DEF FInv, Typed, MetaType, cut, Answered, Fault, d1, Creation, Deletion, Visit, Idle
  <1>2. Minted'
    BY <1>1 DEF FInv, Typed, MetaType, Minted, cut, Answered, Fault, d1, Busy, Idle, Creation, Deletion, Visit
  <1>3. ASSUME NEW c \in Computers \ excused'
        PROVE  Sound(c)'
    <2>1. Sound(c)
      BY <1>3 DEF FInv, cut, Answered, Fault
    <2>2. RowlessIsClean(c)'
      BY <1>1, <2>1 DEF FInv, Typed, MetaType, Sound, RowlessIsClean, Clean, cut, Answered, Fault, d1, Busy, Idle,
         Creation, Deletion, Visit
    <2>3. Known(c)'
      BY <1>1, <2>1 DEF FInv, Typed, MetaType, Sound, Known, cut, Answered, Fault, d1
    <2>4. DeleteAlone(c)'
      BY <1>1, <2>1 DEF FInv, Typed, MetaType, Sound, DeleteAlone, cut, Answered, Fault, d1, Busy, Idle,
         Creation, Deletion, Visit
    <2>5. Seeded(c)'
      BY <1>1, <2>1 DEF FInv, Typed, MetaType, Sound, Seeded, cut, Answered, Fault, d1, Busy, Idle,
         Creation, Deletion, Visit
    <2> QED
      BY <2>2, <2>3, <2>4, <2>5 DEF Sound
  <1> QED
    BY <1>1, <1>2, <1>3 DEF FInv

LEMMA AnswerKeeps ==
    ASSUME FInv, NEW x \in Computers, answered(x)
    PROVE  FInv'
  <1>1. Typed'
    <2>1. meta' \in MetaType
      BY MetaTyped DEF FInv, answered
    <2> QED
      BY <2>1 DEF FInv, Typed, MetaType, answered, d1
  <1>2. Minted'
    BY <1>1 DEF FInv, Typed, MetaType, Minted, answered, Fault, d1, Busy, Idle, Creation, Deletion, Visit
  <1>3. ASSUME NEW c \in Computers \ excused'
        PROVE  Sound(c)'
    <2>1. Sound(c)
      BY <1>3 DEF FInv, answered, Fault
    <2>2. RowlessIsClean(c)'
      BY <1>1, <2>1 DEF FInv, Typed, MetaType, Sound, RowlessIsClean, Clean, answered, Fault, d1, Busy, Idle,
         Creation, Deletion, Visit
    <2>3. Known(c)'
      BY <1>1, <2>1 DEF FInv, Typed, MetaType, Sound, Known, answered, Fault, d1
    <2>4. DeleteAlone(c)'
      BY <1>1, <2>1 DEF FInv, Typed, MetaType, Sound, DeleteAlone, answered, Fault, d1, Busy, Idle,
         Creation, Deletion, Visit
    <2>5. Seeded(c)'
      BY <1>1, <2>1 DEF FInv, Typed, MetaType, Sound, Seeded, answered, Fault, d1, Busy, Idle,
         Creation, Deletion, Visit
    <2> QED
      BY <2>2, <2>3, <2>4, <2>5 DEF Sound
  <1> QED
    BY <1>1, <1>2, <1>3 DEF FInv

LEMMA SleepKeeps ==
    ASSUME FInv, NEW x \in Computers, sleep(x)
    PROVE  FInv'
  <1>1. Typed'
    BY DEF FInv, Typed, MetaType, sleep, Owned, Deleting, Fault, d1, Creation, Deletion, Visit, Idle
  <1>2. Minted'
    BY <1>1 DEF FInv, Typed, MetaType, Minted, sleep, Owned, Deleting, Fault, d1, Busy, Idle, Creation, Deletion, Visit
  <1>3. ASSUME NEW c \in Computers \ excused'
        PROVE  Sound(c)'
    <2>1. Sound(c)
      BY <1>3 DEF FInv, sleep, Owned, Deleting, Fault
    <2>2. RowlessIsClean(c)'
      BY <1>1, <2>1 DEF FInv, Typed, MetaType, Sound, RowlessIsClean, Clean, sleep, Owned, Deleting, Fault, d1, Busy, Idle,
         Creation, Deletion, Visit
    <2>3. Known(c)'
      BY <1>1, <2>1 DEF FInv, Typed, MetaType, Sound, Known, sleep, Owned, Deleting, Fault, d1
    <2>4. DeleteAlone(c)'
      BY <1>1, <2>1 DEF FInv, Typed, MetaType, Sound, DeleteAlone, sleep, Owned, Deleting, Fault, d1, Busy, Idle,
         Creation, Deletion, Visit
    <2>5. Seeded(c)'
      BY <1>1, <2>1 DEF FInv, Typed, MetaType, Sound, Seeded, sleep, Owned, Deleting, Fault, d1, Busy, Idle,
         Creation, Deletion, Visit
    <2> QED
      BY <2>2, <2>3, <2>4, <2>5 DEF Sound
  <1> QED
    BY <1>1, <1>2, <1>3 DEF FInv

LEMMA WorkKeeps ==
    ASSUME FInv, NEW x \in Computers, work(x)
    PROVE  FInv'
  <1>1. Typed'
    <2>1. meta' \in MetaType
      BY DEF FInv, Typed, MetaType, work, Manifests
    <2>2. row' \in [Computers -> Manifests \cup {NoRow}]
      BY DEF FInv, Typed, MetaType, work, Manifests, Fault
    <2>3. objects' \subseteq Computers
      BY DEF FInv, Typed, MetaType, work
    <2> QED
      BY <2>1, <2>2, <2>3 DEF FInv, Typed, MetaType, work
  <1>n. \A y \in Computers : /\ row'[y] = NoRow <=> row[y] = NoRow
                             /\ meta'[y].handle = meta[y].handle
                             /\ meta'[y].waking = meta[y].waking
                             /\ meta'[y].head = meta[y].head \/ meta'[y].head = "snapshot"
    <2>1. \A y \in Computers : row'[y] = NoRow <=> row[y] = NoRow
      <3>1. row' = row \/ row' = [row EXCEPT ![x] = IF @ = NoRow THEN NoRow ELSE "snapshot"]
        BY DEF work
      <3>2. row \in [Computers -> Manifests \cup {NoRow}] /\ "snapshot" # NoRow
        BY DEF FInv, Typed, NoRow
      <3> QED
        BY <3>1, <3>2
    <2>2. meta' = meta \/ meta' = [meta EXCEPT ![x].head = "snapshot"]
      BY DEF work
    <2>3. \A y \in Computers : /\ meta'[y].handle = meta[y].handle
                               /\ meta'[y].waking = meta[y].waking
                               /\ meta'[y].head = meta[y].head \/ meta'[y].head = "snapshot"
      BY <2>2 DEF FInv, Typed, MetaType
    <2> QED
      BY <2>1, <2>3
  <1>2. Minted'
    BY <1>1 DEF FInv, Typed, MetaType, Minted, work, Fault, d1, Busy, Idle, Creation, Deletion, Visit
  <1>3. ASSUME NEW c \in Computers \ excused'
        PROVE  Sound(c)'
    <2>1. Sound(c)
      BY <1>3 DEF FInv, work, Fault
    <2>2. RowlessIsClean(c)'
      BY <1>n, <2>1 DEF Sound, RowlessIsClean, Clean, work, Busy
    <2>3. Known(c)'
      BY <1>1, <2>1 DEF FInv, Typed, MetaType, Sound, Known, work, Fault, d1
    <2>4. DeleteAlone(c)'
      BY <1>1, <2>1 DEF FInv, Typed, MetaType, Sound, DeleteAlone, work, Fault, d1, Busy, Idle,
         Creation, Deletion, Visit
    <2>5. Seeded(c)'
      BY <1>n, <2>1, FleetAssumption DEF Sound, Seeded, work, Manifests
    <2> QED
      BY <2>2, <2>3, <2>4, <2>5 DEF Sound
  <1> QED
    BY <1>1, <1>2, <1>3 DEF FInv

(* A request that arrives on a computer with a row: a delete is alone with *)
(* it, or the computer is excused.                                         *)
LEMMA ArrivesKeeps ==
    ASSUME FInv, NEW r \in Requests, NEW x \in Rows, NEW op, NEW at,
           Arrives(r, op, x, at),
           \/ op = "delete" /\ at = "teardown"
           \/ op \in {"wake", "secret"} /\ at \in {"granted", "checked"},
           UNCHANGED <<d1, minted, meta, inst, objects, faults>>
    PROVE  FInv'
  <1>1. /\ [op |-> op, c |-> x, at |-> at] \in Deletion \cup Visit
        /\ req'[r] = [op |-> op, c |-> x, at |-> at]
        /\ \A q \in Requests \ {r} : req'[q] = req[q]
        /\ ~Busy(r) /\ row[x] # NoRow /\ x \in Computers
        /\ excused \subseteq excused'
    BY DEF FInv, Typed, Arrives, Rows, Deletion, Visit
  <1>2. Typed'
    BY <1>1 DEF FInv, Typed, Arrives, d1
  <1>3. Minted'
    BY <1>1 DEF FInv, Minted, Busy, d1
  <1>4. ASSUME NEW c \in Computers \ excused'
        PROVE  Sound(c)'
    <2>1. Sound(c)
      BY <1>1, <1>4 DEF FInv
    <2>2. RowlessIsClean(c)' /\ Known(c)'
      BY <1>1, <2>1 DEF Sound, RowlessIsClean, Known, Clean, Busy, d1
    <2>3. DeleteAlone(c)'
      <3>1. CASE c # x
        BY <1>1, <2>1, <3>1 DEF Sound, DeleteAlone, Busy
      <3>2. CASE c = x
        <4>1. ~Deleting(x) /\ (op = "delete" => ~InFlight(x))
          BY <1>4, <3>2 DEF Arrives
        <4> QED
          BY <1>1, <3>2, <4>1 DEF DeleteAlone, Deleting, InFlight, Busy
      <3> QED
        BY <3>1, <3>2
    <2>4. Seeded(c)'
      BY <1>1, <2>1 DEF Sound, Seeded, Busy, d1
    <2> QED
      BY <2>2, <2>3, <2>4 DEF Sound
  <1> QED
    BY <1>2, <1>3, <1>4 DEF FInv

(* A new computer is one nothing refers to yet.                            *)
LEMMA MintKeeps ==
    ASSUME FInv, NEW r \in Requests, NEW op \in {"create", "fork"}, NEW head \in Manifests,
           NEW src \in Computers \cup {None}, Mint(r, op, head, src)
    PROVE  FInv'
  <1>1. PICK x \in Computers \ minted :
             /\ minted' = minted \cup {x} /\ ~Busy(r)
             /\ req' = [req EXCEPT ![r] = [op |-> op, c |-> x, at |-> "insert",
                                           head |-> head, src |-> src]]
             /\ UNCHANGED <<d1, meta, inst, objects, excused, faults>>
    BY DEF Mint
  <1>2. /\ [op |-> op, c |-> x, at |-> "insert", head |-> head, src |-> src] \in Creation
        /\ req'[r] = [op |-> op, c |-> x, at |-> "insert", head |-> head, src |-> src]
        /\ \A q \in Requests \ {r} : req'[q] = req[q]
    BY <1>1 DEF FInv, Typed, Creation
  <1>3. Typed'
    BY <1>1, <1>2 DEF FInv, Typed, d1
  <1>4. Minted'
    BY <1>1, <1>2 DEF FInv, Minted, Busy, d1
  <1>5. ASSUME NEW c \in Computers \ excused'
        PROVE  Sound(c)'
    <2>1. Sound(c)
      BY <1>1, <1>5 DEF FInv
    <2>2. RowlessIsClean(c)' /\ Known(c)'
      BY <1>1, <1>2, <2>1 DEF Sound, RowlessIsClean, Known, Clean, Busy, d1
    <2>3. DeleteAlone(c)'
      <3>1. \A q \in Requests : Busy(q) => req[q].c # x
        BY <1>1 DEF FInv, Minted
      <3> QED
        BY <1>1, <1>2, <2>1, <3>1 DEF Sound, DeleteAlone, Busy
    <2>4. Seeded(c)'
      BY <1>1, <1>2, <2>1 DEF Sound, Seeded, Busy, d1
    <2> QED
      BY <2>2, <2>3, <2>4 DEF Sound
  <1> QED
    BY <1>3, <1>4, <1>5 DEF FInv

LEMMA StepFInv == FInv /\ [Next]_vars => FInv'
  <1> SUFFICES ASSUME FInv, [Next]_vars PROVE FInv'
    OBVIOUS
  <1>1. CASE UNCHANGED vars
    BY <1>1 DEF FInv, Typed, Minted, Sound, RowlessIsClean, Known, DeleteAlone, Seeded, Clean,
       Busy, vars
  <1>2. ASSUME NEW r \in Requests, create(r) \/ fork(r)
        PROVE  FInv'
    <2>1. \A src \in Rows : src \in Computers /\ FileHead(src) \in Manifests
      BY FleetAssumption DEF FInv, Typed, MetaType, Rows, FileHead
    <2> QED
      BY <1>2, <2>1, MintKeeps DEF create, fork, Manifests
  <1>3. ASSUME NEW r \in Requests,
               delete(r) \/ wakeRoute(r) \/ runRoute(r) \/ writeRoute(r) \/ tryWakeProxy(r)
               \/ secretRoute(r)
        PROVE  FInv'
    BY <1>3, ArrivesKeeps
    DEF delete, wakeRoute, runRoute, writeRoute, tryWakeProxy, Passes, secretRoute
  <1>4. ASSUME NEW r \in Requests, RequestStep(r) \/ cut(r)
        PROVE  FInv'
    BY <1>4, InsertKeeps, LineageKeeps, InitHeadKeeps, TeardownKeeps, DestroyedKeeps,
       StoreDataKeeps, RowsKeeps, WakeKeeps, SecretKeeps, CutKeeps DEF RequestStep
  <1>5. ASSUME NEW c \in Computers, answered(c) \/ sleep(c) \/ work(c)
        PROVE  FInv'
    BY <1>5, AnswerKeeps, SleepKeeps, WorkKeeps
  <1> QED
    BY <1>1, <1>2, <1>3, <1>4, <1>5 DEF Next

LEMMA AlwaysFInv == Spec => []FInv
  BY InitFInv, StepFInv, PTL DEF Spec

(* However creations, forks, deletes, wakes and secrets of one account     *)
(* overlap, fail or are cut, a deleted computer has left no instance, no   *)
(* object, no vault entry and no lineage, but for the overlaps the history *)
(* names (DELETE /api/computers/:id).                                      *)
THEOREM LeftOnlyByOverlapAlways == Spec => []LeftOnlyByOverlap
  <1>1. FInv => LeftOnlyByOverlap
    BY DEF FInv, Sound, RowlessIsClean, Clean, LeftOnlyByOverlap, Gone, LeftBehind
  <1> QED
    BY AlwaysFInv, <1>1, PTL

(* What the file browser shows of a computer at rest is what its object    *)
(* would restore: the row's head is a fallback only while its creation is  *)
(* under way, cut or overlapped (computerDetail, FileHead).                *)
THEOREM BrowsedIsRestoredAlways == Spec => []BrowsedIsRestored
  <1>1. FInv => BrowsedIsRestored
    <2> SUFFICES ASSUME FInv, NEW c \in Computers \ excused, Owned(c), ~InFlight(c)
                 PROVE  FileHead(c) = meta[c].head
      BY DEF BrowsedIsRestored
    <2>1. meta[c].head # None
      BY DEF FInv, Sound, Seeded, Owned, InFlight, Busy
    <2> QED
      BY <2>1 DEF FileHead
  <1> QED
    BY AlwaysFInv, <1>1, PTL

-----------------------------------------------------------------------------
(* The cap.  Every step but an insert leaves the account with no more rows *)
(* than it had, and the insert counts them in its own statement.           *)
LEMMA FewerRows ==
    ASSUME IsFiniteSet(Computers), UnderCap, Typed, UNCHANGED cap, Rows' \subseteq Rows,
           cap \in Nat
    PROVE  UnderCap'
  <1>1. IsFiniteSet(Rows) /\ IsFiniteSet(Rows')
    BY FS_Subset DEF Rows
  <1>2. Cardinality(Rows') <= Cardinality(Rows) /\ Cardinality(Rows) \in Nat
        /\ Cardinality(Rows') \in Nat
    BY <1>1, FS_Subset, FS_CardinalityType
  <1> QED
    BY <1>2 DEF UnderCap

LEMMA OneMoreRow ==
    ASSUME IsFiniteSet(Computers), UNCHANGED cap, cap \in Nat, canCreateComputer,
           NEW x \in Computers, Rows' \subseteq Rows \cup {x}
    PROVE  UnderCap'
  <1>1. IsFiniteSet(Rows) /\ IsFiniteSet(Rows \cup {x})
    BY FS_Subset, FS_AddElement DEF Rows
  <1>2. Cardinality(Rows \cup {x}) <= Cardinality(Rows) + 1 /\ Cardinality(Rows) \in Nat
        /\ Cardinality(Rows \cup {x}) \in Nat
    BY <1>1, FS_AddElement, FS_CardinalityType
  <1>3. IsFiniteSet(Rows') /\ Cardinality(Rows') <= Cardinality(Rows \cup {x})
        /\ Cardinality(Rows') \in Nat
    BY <1>1, FS_Subset, FS_CardinalityType
  <1> QED
    BY <1>2, <1>3 DEF UnderCap, canCreateComputer

CapInv == FInv /\ UnderCap /\ cap \in Nat

LEMMA InitCapInv == Init => CapInv
  <1> SUFFICES ASSUME Init PROVE CapInv
    OBVIOUS
  <1>1. Rows = {} /\ cap \in Nat
    BY FleetAssumption DEF Init, Rows
  <1> QED
    BY <1>1, InitFInv, FS_EmptySet DEF CapInv, UnderCap

LEMMA StepCapInv == CapInv /\ [Next]_vars => CapInv'
  <1> SUFFICES ASSUME CapInv, [Next]_vars PROVE CapInv'
    OBVIOUS
  <1>1. FInv' /\ Typed
    BY StepFInv DEF CapInv, FInv
  <1>2. CASE UNCHANGED <<row, cap>>
    BY <1>1, <1>2 DEF CapInv, UnderCap, Rows
  <1>3. ASSUME NEW r \in Requests, insertComputer(r)
        PROVE  UnderCap' /\ cap' = cap
    <2>1. req[r].c \in Computers
      BY <1>1, <1>3, RequestKinds DEF insertComputer, Busy
    <2>2. Rows' \subseteq Rows \cup {req[r].c}
      BY <1>1, <1>3 DEF Typed, Rows, insertComputer
    <2>3. CASE canCreateComputer
      BY <1>3, <2>1, <2>2, <2>3, OneMoreRow, FleetAssumption DEF CapInv, insertComputer
    <2>4. CASE ~canCreateComputer
      BY <1>3, <2>4 DEF CapInv, UnderCap, Rows, insertComputer
    <2> QED
      BY <2>3, <2>4
  <1>4. ASSUME NEW r \in Requests, deleteComputer(r)
        PROVE  UnderCap' /\ cap' = cap
    <2>1. Rows' \subseteq Rows /\ cap' = cap
      BY <1>1, <1>4 DEF Typed, Rows, deleteComputer
    <2> QED
      BY <1>1, <2>1, FewerRows, FleetAssumption DEF CapInv
  <1>5. ASSUME NEW c \in Computers, work(c)
        PROVE  UnderCap' /\ cap' = cap
    <2>1. Rows' \subseteq Rows /\ cap' = cap
      BY <1>1, <1>5 DEF Typed, Rows, work, NoRow
    <2> QED
      BY <1>1, <2>1, FewerRows, FleetAssumption DEF CapInv
  <1>6. CASE Next
    <2>1. \/ UNCHANGED <<row, cap>>
          \/ \E r \in Requests : insertComputer(r) \/ deleteComputer(r)
          \/ \E c \in Computers : work(c)
      <3>1. ASSUME NEW r \in Requests, RequestStep(r)
            PROVE  UNCHANGED <<row, cap>> \/ insertComputer(r) \/ deleteComputer(r)
        BY <3>1 DEF RequestStep, insertLineage, initFromManifest, deletePermanently, destroyed,
                    deleteComputerStoreData, wake, setSecret, d1
      <3>2. ASSUME NEW r \in Requests, create(r) \/ fork(r) \/ delete(r) \/ secretRoute(r) \/ cut(r)
            PROVE  UNCHANGED <<row, cap>>
        BY <3>2 DEF create, fork, Mint, delete, secretRoute, cut, d1
      <3>3. ASSUME NEW r \in Requests,
                   wakeRoute(r) \/ runRoute(r) \/ writeRoute(r) \/ tryWakeProxy(r)
            PROVE  UNCHANGED <<row, cap>>
        BY <3>3 DEF wakeRoute, runRoute, writeRoute, tryWakeProxy, Passes, d1
      <3>4. ASSUME NEW c \in Computers, answered(c) \/ sleep(c)
            PROVE  UNCHANGED <<row, cap>>
        BY <3>4 DEF answered, sleep, d1
      <3> QED
        BY <1>6, <3>1, <3>2, <3>3, <3>4 DEF Next
    <2> QED
      BY <1>1, <1>2, <1>3, <1>4, <1>5, <2>1 DEF CapInv
  <1> QED
    BY <1>2, <1>6 DEF vars

(* However creations and forks interleave between the count of the gate    *)
(* and the insert, no account holds more computers than its plan allows    *)
(* (insertComputerWithinLimit).                                            *)
THEOREM UnderCapAlways == Spec => []UnderCap
  <1>1. CapInv => UnderCap
    BY DEF CapInv
  <1> QED
    BY InitCapInv, StepCapInv, <1>1, PTL DEF Spec
=============================================================================
