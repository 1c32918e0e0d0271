---------------------------- MODULE ServicesProofs ----------------------------
(***************************************************************************)
(* The parts beside a computer's lifecycle, for every value of their        *)
(* constants: each property is proved of the part it is about, and holds    *)
(* whichever part a behaviour is of.                                        *)
(***************************************************************************)
EXTENDS Services, Integers, Sequences, FiniteSets, SequencesExt, SequenceTheorems,
        FiniteSetTheorems, WellFoundedInduction, TLAPS

(* A behaviour stays with the part it began with, and takes its steps.      *)
LEMMA FocusStays ==
    ASSUME [Next]_vars
    PROVE  /\ focus' = focus
           /\ focus = "metering" => Meter!Next \/ UNCHANGED metering
           /\ focus = "manifests" => Manifest!Next \/ UNCHANGED manifests
           /\ focus = "credentials" => Credentials!Next \/ UNCHANGED credentials
           /\ focus = "terminal" => Attach!Next \/ UNCHANGED terminal
           /\ focus = "events" => Events!Next \/ UNCHANGED events
           /\ focus = "alarm" => Alarm!Next \/ UNCHANGED alarms
           /\ focus = "disk" => Disk!Next \/ UNCHANGED disk
           /\ focus = "wire" => Channel!Next \/ UNCHANGED channel
           /\ focus = "workspace" => Tab!Next \/ UNCHANGED tab
           /\ focus = "chunks" => Chunk!Next \/ UNCHANGED collection
           /\ focus = "tree" => Tree!Next \/ UNCHANGED root
  BY DEF vars, Next, meterNext, manifestNext, credentialsNext, attachNext, eventsNext,
         alarmNext, diskNext, channelNext, tabNext, chunkNext, treeNext

-----------------------------------------------------------------------------
(* Of some natural numbers one is the least; of some up to a bound, one is *)
(* the greatest.                                                           *)
LEMMA LeastOf ==
    ASSUME NEW T, T \subseteq Nat, T # {}
    PROVE  \E n \in T : \A m \in T : n <= m
  <1> DEFINE R == {ss \in Nat \X Nat : ss[1] < ss[2]}
  <1>1. IsWellFoundedOn(R, Nat)
    BY NatLessThanWellFounded DEF OpToRel
  <1> HIDE DEF R
  <1>2. PICK n \in T : \A m \in T : <<m, n>> \notin R
    BY <1>1, WFMin
  <1>3. ASSUME NEW m \in T PROVE n <= m
    <2>1. <<m, n>> \in Nat \X Nat /\ <<m, n>>[1] = m /\ <<m, n>>[2] = n
      OBVIOUS
    <2>2. ~(m < n)
      BY <1>2, <2>1 DEF R
    <2> QED
      BY <2>2
  <1> QED
    BY <1>3

LEMMA GreatestOf ==
    ASSUME NEW T, T \subseteq Nat, T # {}, NEW u \in Nat, \A m \in T : m <= u
    PROVE  \E n \in T : \A m \in T : n >= m
  <1> DEFINE U == {v \in Nat : \A m \in T : m <= v}
  <1>1. PICK n \in U : \A v \in U : n <= v
    BY LeastOf
  <1>2. n \in T
    <2>1. SUFFICES ASSUME n \notin T PROVE FALSE
      OBVIOUS
    <2>2. PICK m \in T : m <= n
      BY <1>1
    <2>3. n - 1 \in Nat /\ \A k \in T : k <= n - 1
      BY <1>1, <2>1, <2>2
    <2> QED
      BY <1>1, <2>3
  <1> QED
    BY <1>1, <1>2

-----------------------------------------------------------------------------
(* The alarm of a private instance.                                         *)

(* What a time is not.                                                      *)
NoneIsNoTime == None \notin Nat

(* AlarmStands is not inductive: a revival arms what is on disk, so disk    *)
(* and timer must agree also while nothing is owed.                         *)
AInv == /\ alarmClock \in Nat
        /\ firing => live
        /\ live => process
        /\ live /\ row # None /\ excuse = {} => timer # None
        /\ alarmOwed /\ excuse = {} => row # None

LEMMA StepAInv ==
    ASSUME NoneIsNoTime, AInv, Alarm!Next
    PROVE  AInv'
  <1>2. CASE Alarm!entry \/ Alarm!boot
    BY <1>2 DEF AInv, Alarm!entry, Alarm!boot
  <1>3. ASSUME NEW at \in alarmClock..AlarmTime, Alarm!setAlarm(at)
        PROVE  AInv'
    <2>1. at \in Nat /\ at # None
      BY NoneIsNoTime DEF AInv, NoneIsNoTime
    <2> QED
      BY <1>3, <2>1 DEF AInv, Alarm!setAlarm
  <1>4. CASE Alarm!deleteAlarm
    BY <1>4 DEF AInv, Alarm!deleteAlarm
  <1>5. CASE Alarm!fire
    BY <1>5 DEF AInv, Alarm!fire
  <1>6. CASE Alarm!handlerReturns
    BY <1>6 DEF AInv, Alarm!handlerReturns
  <1>7. CASE Alarm!handlerThrows
    <2>1. alarmClock + 1 \in Nat /\ alarmClock + 1 # None
      BY NoneIsNoTime DEF AInv, NoneIsNoTime
    <2>2. CASE failures + 1 > Retries
      BY <1>7, <2>2 DEF AInv, Alarm!handlerThrows, Alarm!retry
    <2>3. CASE ~(failures + 1 > Retries)
      <3>1. \/ row' = alarmClock + 1 /\ timer' = alarmClock + 1
            \/ row # None /\ UNCHANGED <<row, timer>>
        BY <1>7, <2>3 DEF Alarm!handlerThrows, Alarm!retry
      <3>2. UNCHANGED <<excuse, alarmClock, process, live>> /\ ~firing'
        BY <1>7, <2>3 DEF Alarm!handlerThrows, Alarm!retry
      <3> QED
        BY <2>1, <3>1, <3>2 DEF AInv
    <2> QED
      BY <2>2, <2>3
  <1>8. CASE Alarm!crash
    BY <1>8 DEF AInv, Alarm!crash
  <1>9. CASE Alarm!tick
    BY <1>9 DEF AInv, Alarm!tick
  <1> QED
    BY <1>2, <1>3, <1>4, <1>5, <1>6, <1>7, <1>8, <1>9 DEF Alarm!Next

(* A deadline that was set and that no handler has served is on disk, and   *)
(* in a timer where its object lives, unless a crash in a handler, a timer  *)
(* that ran out during one, or too many failures took it (node/state.ts).   *)
THEOREM AlarmStandsAlways ==
    ASSUME NoneIsNoTime
    PROVE  Spec => []AlarmStands
  <1> DEFINE Inv == focus = "alarm" => AInv
  <1>1. Init => Inv
    BY DEF Init, Alarm!Init, AInv
  <1>2. Inv /\ [Next]_vars => Inv'
    <2>1. AInv /\ UNCHANGED alarms => AInv'
      BY DEF AInv, alarms
    <2> QED
      BY <2>1, FocusStays, StepAInv
  <1>3. Inv => AlarmStands
    BY DEF AInv, AlarmStands, Alarm!AlarmStands
  <1> QED
    BY <1>1, <1>2, <1>3, PTL DEF Spec
-----------------------------------------------------------------------------
(* The disk of a private instance.                                         *)

(* A key is its place in the order of keys; a batch is not named "single". *)
KeysAreOrdered == /\ \E n \in Nat : Keys = 1..n
                  /\ PageLimit \in Nat /\ "single" \notin Batches

LEMMA SomeKeys ==
    ASSUME KeysAreOrdered, NEW some, some \subseteq Keys
    PROVE  /\ IsFiniteSet(some)
           /\ some # {} => /\ Disk!Min(some) \in some
                           /\ Disk!Max(some) \in some /\ \A k \in some : Disk!Max(some) >= k
  <1>1. PICK n \in Nat : Keys = 1..n
    BY DEF KeysAreOrdered
  <1>2. IsFiniteSet(some)
    <2>1. 1 \in Int /\ n \in Int
      BY <1>1
    <2>2. IsFiniteSet(1..n)
      BY <2>1, FS_Interval
    <2> QED
      BY <1>1, <2>2, FS_Subset
  <1>3. some \subseteq Nat /\ \A k \in some : k <= n
    BY <1>1
  <1>4. ASSUME some # {} PROVE Disk!Min(some) \in some
    <2>1. \E k \in some : \A j \in some : k <= j
      BY <1>3, <1>4, LeastOf
    <2> QED
      BY <2>1, Zenon DEF Disk!Min
  <1>5. ASSUME some # {}
        PROVE  Disk!Max(some) \in some /\ \A k \in some : Disk!Max(some) >= k
    <2>1. \E k \in some : \A j \in some : k >= j
      BY <1>3, <1>5, GreatestOf
    <2> QED
      BY <2>1, Zenon DEF Disk!Max
  <1> QED
    BY <1>2, <1>4, <1>5

(* A page holds what sorts first of a listing.                             *)
LEMMA PageIsFirst ==
    ASSUME KeysAreOrdered, NEW all, all \subseteq Keys,
           NEW i \in Disk!firstOf(all), NEW k \in all, k <= i
    PROVE  k \in Disk!firstOf(all)
  <1> DEFINE Below(x) == {j \in all : j < x}
  <1>1. Keys \subseteq Nat
    BY DEF KeysAreOrdered
  <1>2. Below(k) \subseteq Below(i) /\ Below(i) \subseteq all
    <2>1. i \in Nat /\ k \in Nat /\ all \subseteq Nat
      BY <1>1 DEF Disk!firstOf
    <2>2. ASSUME NEW x \in Below(k) PROVE x \in Below(i)
      BY <2>1, <2>2
    <2> QED
      BY <2>2
  <1>3. IsFiniteSet(Below(i)) /\ IsFiniteSet(Below(k))
    BY <1>2, SomeKeys
  <1>4. Cardinality(Below(k)) <= Cardinality(Below(i))
    BY <1>2, <1>3, FS_Subset
  <1>5. Cardinality(Below(k)) \in Nat /\ Cardinality(Below(i)) \in Nat
    BY <1>3, FS_CardinalityType
  <1>6. \A x : Disk!ahead(x, all) = Cardinality(Below(x))
    BY DEF Disk!ahead, Disk!Cardinality, Cardinality
  <1>7. Disk!ahead(i, all) < PageLimit /\ PageLimit \in Nat
    BY DEF Disk!firstOf, KeysAreOrdered
  <1> HIDE DEF Below
  <1>8. Disk!ahead(k, all) < PageLimit
    BY <1>4, <1>5, <1>6, <1>7
  <1> QED
    BY <1>8 DEF Disk!firstOf

(* What is doomed is gone up to the cursor, but for the page; and all of it
   once the last page has been listed.                                     *)
left == files \cap doomed
SweepInv == /\ files \subseteq Keys /\ temps \subseteq Keys
            /\ doomed \subseteq Keys \cap Prefix /\ sweep.page \subseteq Keys
            /\ sweep = [at |-> sweep.at, page |-> sweep.page, cursor |-> sweep.cursor]
            /\ sweep.at \in {"idle", "page", "last", "more", "done"} /\ sweep.cursor \in Nat
            /\ sweep.at = "idle" => doomed = {} /\ sweep.cursor = 0
            /\ sweep.at \in {"page", "more"} =>
                 \A k \in left : k <= sweep.cursor => k \in sweep.page
            /\ sweep.at \in {"more", "done"} => sweep.page = {}
            /\ sweep.at \in {"last", "done"} => left \subseteq sweep.page

LEMMA PutSweepInv ==
    ASSUME KeysAreOrdered, SweepInv, NEW k \in Keys, Disk!putTemp(k) \/ Disk!putRename(k)
    PROVE  SweepInv'
  BY DEF SweepInv, left, Disk!putTemp, Disk!putRename

LEMMA PageSweepInv ==
    ASSUME KeysAreOrdered, SweepInv, Disk!sweepPage
    PROVE  SweepInv'
  <1> DEFINE all == Disk!listAfter(sweep.cursor)
             listed == Disk!firstOf(all)
  <1>1. /\ sweep.at \in {"idle", "more"}
        /\ sweep' = [at |-> IF listed = all THEN "last" ELSE "page", page |-> listed,
                     cursor |-> IF listed = {} THEN 0 ELSE Disk!Max(listed)]
        /\ doomed' = IF sweep.at = "idle" THEN files \cap Prefix ELSE doomed
        /\ UNCHANGED <<files, temps>>
    BY DEF Disk!sweepPage
  <1>2. Keys \subseteq Nat \ {0} /\ sweep.cursor \in Nat
    BY DEF KeysAreOrdered, SweepInv
  <1>3. listed \subseteq all /\ all \subseteq files \cap Prefix /\ files \subseteq Keys
    BY DEF Disk!firstOf, Disk!listAfter, SweepInv
  <1>4. doomed' \subseteq Keys \cap Prefix /\ left' \subseteq all
    <2>1. CASE sweep.at = "idle"
      BY <1>1, <1>2, <1>3, <2>1 DEF SweepInv, left, Disk!listAfter
    <2>2. CASE sweep.at = "more"
      BY <1>1, <1>2, <1>3, <2>2 DEF SweepInv, left, Disk!listAfter
    <2> QED
      BY <1>1, <2>1, <2>2
  <1>5. listed # {} => Disk!Max(listed) \in listed /\ Disk!Max(listed) \in Nat
    BY <1>2, <1>3, SomeKeys
  <1>6. ASSUME NEW k \in left', k <= sweep'.cursor PROVE k \in listed
    <2>1. k \in all /\ k \in Nat \ {0}
      BY <1>2, <1>3, <1>4
    <2>2. listed # {} /\ sweep'.cursor = Disk!Max(listed)
      BY <1>1, <1>6, <2>1
    <2>3. all \subseteq Keys
      BY <1>3
    <2> QED
      BY <1>5, <1>6, <2>1, <2>2, <2>3, PageIsFirst
  <1> HIDE DEF all, listed
  <1> QED
    BY <1>1, <1>3, <1>4, <1>5, <1>6 DEF SweepInv

LEMMA DeleteSweepInv ==
    ASSUME KeysAreOrdered, SweepInv, Disk!sweepDelete \/ Disk!sweepNext
    PROVE  SweepInv'
  <1>1. CASE Disk!sweepDelete
    <2> DEFINE k == Disk!Min(sweep.page)
    <2>1. /\ sweep.at \in {"page", "last"} /\ k \in sweep.page
          /\ files' = files \ {k} /\ sweep' = [sweep EXCEPT !.page = sweep.page \ {k}]
          /\ UNCHANGED <<temps, doomed>>
      BY <1>1, SomeKeys DEF Disk!sweepDelete, SweepInv
    <2> HIDE DEF k
    <2>2. sweep' = [at |-> sweep.at, page |-> sweep.page \ {k}, cursor |-> sweep.cursor]
      BY <2>1 DEF SweepInv
    <2> QED
      BY <2>1, <2>2 DEF SweepInv, left
  <1>2. CASE Disk!sweepNext
    <2>1. /\ sweep.at \in {"page", "last"} /\ sweep.page = {}
          /\ sweep' = [at |-> IF sweep.at = "page" THEN "more" ELSE "done", page |-> sweep.page,
                       cursor |-> sweep.cursor]
          /\ UNCHANGED <<files, temps, doomed>>
      BY <1>2 DEF Disk!sweepNext, SweepInv
    <2> QED
      BY <2>1 DEF SweepInv, left
  <1> QED
    BY <1>1, <1>2

(* The effects of a batch that is under way are pending, those of one that
   is over are stored together or nowhere; and one batch at most has the
   connection.                                                             *)
Under == {"begun", "half", "run"}
wrote(b, e) == <<b, e>> \in effects
holds(b, e) == <<b, e>> \in pending
BatchInv == /\ batch = [b \in Batches |-> batch[b]] /\ open \in BOOLEAN
            /\ \A b \in Batches : batch[b] \in {"ready", "done", "failed"} \cup Under
            /\ \A b \in Batches : batch[b] \in Under => open
            /\ \A b, c \in Batches : batch[b] \in Under /\ batch[c] \in Under => b = c
            /\ ~open => pending = {}
            /\ \A b \in Batches :
                 /\ wrote(b, "half") <=> batch[b] = "done"
                 /\ wrote(b, "run") <=> batch[b] = "done"
                 /\ holds(b, "half") <=> batch[b] \in {"half", "run"}
                 /\ holds(b, "run") <=> batch[b] = "run"

LEMMA BatchStepInv ==
    ASSUME KeysAreOrdered, BatchInv, NEW b \in Batches,
           \/ Disk!batchBegins(b) \/ Disk!batchRuns(b) \/ Disk!batchThrows(b)
           \/ Disk!batchCommits(b)
    PROVE  BatchInv'
  <1>1. CASE Disk!batchBegins(b)
    <2>1. batch[b] = "ready" /\ UNCHANGED <<effects, pending>>
      BY <1>1 DEF Disk!batchBegins, Disk!begin
    <2>2. CASE open
      <3>1. batch' = [batch EXCEPT ![b] = "failed"] /\ open' = open
        BY <1>1, <2>2 DEF Disk!batchBegins, Disk!begin
      <3> QED
        BY <2>1, <3>1 DEF BatchInv, Under, wrote, holds
    <2>3. CASE ~open
      <3>1. batch' = [batch EXCEPT ![b] = "begun"] /\ open' = TRUE
        BY <1>1, <2>3 DEF Disk!batchBegins, Disk!begin
      <3> QED
        BY <2>1, <2>3, <3>1 DEF BatchInv, Under, wrote, holds
    <2> QED
      BY <2>2, <2>3
  <1>2. CASE Disk!batchRuns(b)
    <2>1. /\ batch[b] \in {"begun", "half"} /\ open
          /\ batch' = [batch EXCEPT ![b] = IF batch[b] = "begun" THEN "half" ELSE "run"]
          /\ UNCHANGED <<open, effects>>
      BY <1>2 DEF Disk!batchRuns, Disk!apply, BatchInv, Under
    <2>2. pending' = pending \cup {<<b, batch'[b]>>}
      BY <1>2, <2>1 DEF Disk!batchRuns, Disk!apply
    <2> QED
      BY <2>1, <2>2 DEF BatchInv, Under, wrote, holds
  <1>3. CASE Disk!batchThrows(b)
    BY <1>3 DEF Disk!batchThrows, BatchInv, Under, wrote, holds
  <1>4. CASE Disk!batchCommits(b)
    <2>1. /\ batch[b] = "run" /\ batch' = [batch EXCEPT ![b] = "done"]
          /\ effects' = effects \cup pending /\ pending' = {} /\ open' = FALSE
      BY <1>4 DEF Disk!batchCommits, BatchInv, Under
    <2> QED
      BY <2>1 DEF BatchInv, Under, wrote, holds
  <1> QED
    BY <1>1, <1>2, <1>3, <1>4

LEMMA SingleBatchInv ==
    ASSUME KeysAreOrdered, BatchInv, Disk!single
    PROVE  BatchInv'
  <1>1. /\ UNCHANGED <<open, batch>>
        /\ \/ ~open /\ effects' = effects \cup {<<"single", singles>>} /\ UNCHANGED pending
           \/ open /\ pending' = pending \cup {<<"single", singles>>} /\ UNCHANGED effects
    BY DEF Disk!single, Disk!apply
  <1>2. \A b \in Batches : \A e : /\ <<b, e>> \in effects' <=> <<b, e>> \in effects
                                  /\ <<b, e>> \in pending' <=> <<b, e>> \in pending
    <2> SUFFICES ASSUME NEW b \in Batches, NEW e
                 PROVE  /\ <<b, e>> \in effects' <=> <<b, e>> \in effects
                        /\ <<b, e>> \in pending' <=> <<b, e>> \in pending
      OBVIOUS
    <2>1. <<b, e>> # <<"single", singles>>
      BY DEF KeysAreOrdered
    <2> QED
      BY <1>1, <2>1
  <1>3. (~open => pending = {})'
    BY <1>1 DEF BatchInv
  <1>4. ASSUME NEW b \in Batches
        PROVE  /\ <<b, "half">> \in effects' <=> batch'[b] = "done"
               /\ <<b, "run">> \in effects' <=> batch'[b] = "done"
               /\ <<b, "half">> \in pending' <=> batch'[b] \in {"half", "run"}
               /\ <<b, "run">> \in pending' <=> batch'[b] = "run"
    <2>1. /\ wrote(b, "half") <=> batch[b] = "done"
          /\ wrote(b, "run") <=> batch[b] = "done"
          /\ holds(b, "half") <=> batch[b] \in {"half", "run"}
          /\ holds(b, "run") <=> batch[b] = "run"
      BY DEF BatchInv
    <2>2. /\ <<b, "half">> \in effects' <=> <<b, "half">> \in effects
          /\ <<b, "run">> \in effects' <=> <<b, "run">> \in effects
          /\ <<b, "half">> \in pending' <=> <<b, "half">> \in pending
          /\ <<b, "run">> \in pending' <=> <<b, "run">> \in pending
      BY <1>2
    <2>3. batch' = batch
      BY <1>1
    <2> QED
      BY <2>1, <2>2, <2>3 DEF wrote, holds
  <1>5. /\ batch' = [b \in Batches |-> batch'[b]] /\ open' \in BOOLEAN
        /\ \A b \in Batches : batch'[b] \in {"ready", "done", "failed"} \cup Under
        /\ \A b \in Batches : batch'[b] \in Under => open'
        /\ \A b, c \in Batches : batch'[b] \in Under /\ batch'[c] \in Under => b = c
    BY <1>1 DEF BatchInv
  <1> QED
    BY <1>3, <1>4, <1>5 DEF BatchInv, Under, wrote, holds

DiskInv == SweepInv /\ BatchInv

LEMMA InitDiskInv ==
    ASSUME KeysAreOrdered, Disk!Init
    PROVE  DiskInv
  BY DEF Disk!Init, DiskInv, SweepInv, left, BatchInv, Under, wrote, holds

LEMMA StepDiskInv ==
    ASSUME KeysAreOrdered, DiskInv, Disk!Next
    PROVE  DiskInv'
  <1>1. CASE \E k \in Keys : Disk!putTemp(k) \/ Disk!putRename(k)
    <2>1. UNCHANGED <<open, pending, effects, batch>>
      BY <1>1 DEF Disk!putTemp, Disk!putRename, Disk!database
    <2> QED
      BY <1>1, <2>1, PutSweepInv DEF DiskInv, BatchInv, wrote, holds
  <1>2. CASE Disk!sweepPage \/ Disk!sweepDelete \/ Disk!sweepNext
    <2>1. UNCHANGED <<open, pending, effects, batch>>
      BY <1>2 DEF Disk!sweepPage, Disk!sweepDelete, Disk!sweepNext, Disk!database
    <2> QED
      BY <1>2, <2>1, PageSweepInv, DeleteSweepInv DEF DiskInv, BatchInv, wrote, holds
  <1>3. CASE Disk!single \/ \E b \in Batches : \/ Disk!batchBegins(b) \/ Disk!batchRuns(b)
                                               \/ Disk!batchThrows(b) \/ Disk!batchCommits(b)
    <2>1. UNCHANGED <<files, temps, sweep, doomed>>
      BY <1>3 DEF Disk!single, Disk!batchBegins, Disk!batchRuns, Disk!batchThrows,
                  Disk!batchCommits, Disk!store
    <2> QED
      BY <1>3, <2>1, SingleBatchInv, BatchStepInv DEF DiskInv, SweepInv, left
  <1> QED
    BY <1>1, <1>2, <1>3 DEF Disk!Next

(* When the deletion of a prefix ends, whatever was under it when it began
   and was not written again is gone, for any number of keys and any page;
   and a batch leaves all of its effects or none, whatever other requests run
   between its statements (app.ts, deleteObjectPrefix; node/d1.ts, batch).  *)
THEOREM StoreIsWholeAlways ==
    ASSUME KeysAreOrdered
    PROVE  Spec => []StoreIsWhole
  <1> DEFINE Inv == focus = "disk" => DiskInv
  <1>1. Init => Inv
    BY InitDiskInv DEF Init
  <1>2. Inv /\ [Next]_vars => Inv'
    <2>1. DiskInv /\ UNCHANGED disk => DiskInv'
      BY DEF disk, DiskInv, SweepInv, left, BatchInv, Under, wrote, holds
    <2> QED
      BY <2>1, FocusStays, StepDiskInv
  <1>3. Inv => StoreIsWhole
    BY DEF DiskInv, SweepInv, left, BatchInv, wrote, StoreIsWhole, Disk!PrefixEmptied,
           Disk!BatchIsOne
  <1> QED
    BY <1>1, <1>2, <1>3, PTL DEF Spec
-----------------------------------------------------------------------------
(* Events and the client: nothing shown finished is shown unfinished, and   *)
(* no event is taken for a stale one, for any number of events, hubs,       *)
(* streams and answers.                                                     *)

RunStates == {"pending", "running", "stopping", "exited", "failed"}
Learned == RunStates \cup {"unknown"}
Finished == {"exited", "failed"}

Values == RunStates \cup {"cold", "waking", "awake", "warm"} \cup BOOLEAN
Well(e) == e.key \in Events!EventKeys /\ (e.key = "run" => e.value \in RunStates)
Delivered == [key : Events!EventKeys, value : Values, seq : Nat, turn : Nat]

(* Every variable keeps its type; an event about the run carries a state.   *)
ETyped == /\ run \in RunStates /\ rest \in Learned /\ asked \in Learned
          /\ clock \in Nat /\ seq \in Nat /\ turn \in Nat /\ comp \in DOMAIN Events!CompMoves
          /\ model = [run |-> model.run, attn |-> model.attn, state |-> model.state,
                      applied |-> model.applied, turn |-> model.turn]
          /\ model.run \in Learned
          /\ model.applied \in [Events!EventKeys -> Nat]
          /\ model.turn \in [Events!EventKeys -> Nat]
          /\ \A p \in pubs : Well(p) /\ p.value \in Values
          /\ records \in Seq(Delivered)
          /\ \A i \in 1..Len(records) : Well(records[i])

(* What is on the stream is numbered upwards, above all that was applied,   *)
(* and the hub has counted as far.                                          *)
Numbered == /\ \A k \in Events!EventKeys : model.applied[k] <= seq
            /\ \A i \in 1..Len(records) :
                 /\ records[i].seq <= seq
                 /\ \A k \in Events!EventKeys : model.applied[k] < records[i].seq
                 /\ \A j \in 1..Len(records) : i < j => records[i].seq < records[j].seq

(* The runs list shows a run finished only when it is, and an answer that   *)
(* comes later was asked for later.                                         *)
Rested == /\ rest \in Finished => run \in Finished /\ asked \in Finished \cup {"unknown"}
          /\ asked \in Finished => run \in Finished

EInv == ETyped /\ Numbered /\ Rested /\ Events!FreshIsApplied

LEMMA OnStream ==
    ASSUME EInv
    PROVE  /\ Len(records) \in Nat
           /\ \A i \in 1..Len(records) :
                records[i] \in Delivered /\ records[i].seq \in Nat
  <1>1. records \in Seq(Delivered)
    BY DEF EInv, ETyped
  <1>2. Len(records) \in Nat /\ \A i \in 1..Len(records) : records[i] \in Delivered
    BY <1>1
  <1> QED
    BY <1>2 DEF Delivered

LEMMA InitEInv == Events!Init => EInv
  <1> SUFFICES ASSUME Events!Init PROVE EInv
    OBVIOUS
  <1>1. records = <<>> /\ Len(records) = 0 /\ records \in Seq(Delivered)
    BY DEF Events!Init
  <1>2. ETyped
    BY <1>1 DEF Events!Init, ETyped, RunStates, Learned, Events!Unknown, Events!EventKeys,
                Events!CompMoves
  <1>3. Numbered /\ Rested /\ Events!FreshIsApplied
    BY <1>1 DEF Events!Init, Numbered, Rested, Events!FreshIsApplied, Events!Unknown,
                Events!EventKeys, Finished
  <1> QED
    BY <1>2, <1>3 DEF EInv

(* An emission adds well-formed events and changes nothing the client or the hub keeps. *)
LEMMA EmitKeeps ==
    ASSUME EInv, UNCHANGED <<clock, seq, turn, records, model, got, rest, asked>>,
           run' \in RunStates, run \in Finished => run' = run, comp' \in DOMAIN Events!CompMoves,
           NEW es, \A i \in DOMAIN es : Well(es[i]) /\ es[i].value \in Values, Events!emit(es)
    PROVE  EInv'
  <1>1. \A p \in pubs' : Well(p) /\ p.value \in Values
    BY DEF Events!emit, EInv, ETyped, Well
  <1> QED
    BY <1>1 DEF EInv, ETyped, Numbered, Rested, Events!FreshIsApplied

LEMMA MovesKeep ==
    ASSUME EInv, \/ Events!runMoves \/ Events!raiseInterrupted \/ Events!onAttention
                 \/ Events!dismissAttention \/ Events!computerMoves
    PROVE  EInv'
  <1>0. run \in RunStates /\ comp \in DOMAIN Events!CompMoves
    BY DEF EInv, ETyped
  <1>1. CASE Events!runMoves
    <2>1. PICK to \in Events!RunMoves[run] : run' = to /\ Events!emit(<<[key |-> "run", value |-> to]>>)
      BY <1>1 DEF Events!runMoves
    <2>2. to \in RunStates /\ run \notin Finished
      BY <1>0, <2>1 DEF Events!RunMoves, RunStates, Finished
    <2>3. UNCHANGED <<clock, seq, turn, records, model, got, rest, asked, comp>>
      BY <1>1 DEF Events!runMoves, Events!hub, Events!client
    <2>4. \A i \in DOMAIN <<[key |-> "run", value |-> to]>> :
            LET e == <<[key |-> "run", value |-> to]>>[i] IN Well(e) /\ e.value \in Values
      BY <2>2 DEF Well, Values, Events!EventKeys
    <2> QED
      BY <1>0, <2>1, <2>2, <2>3, <2>4, EmitKeeps
  <1>2. CASE Events!raiseInterrupted
    <2> DEFINE es == <<[key |-> "attn", value |-> TRUE], [key |-> "run", value |-> "failed"]>>
    <2>1. \A i \in DOMAIN es : Well(es[i]) /\ es[i].value \in Values
      <3>1. /\ DOMAIN es = {1, 2} /\ es[1] = [key |-> "attn", value |-> TRUE]
            /\ es[2] = [key |-> "run", value |-> "failed"]
        OBVIOUS
      <3> HIDE DEF es
      <3>2. Well(es[1]) /\ es[1].value \in Values
        BY <3>1 DEF Well, Values, Events!EventKeys, RunStates
      <3>3. Well(es[2]) /\ es[2].value \in Values
        BY <3>1 DEF Well, Values, Events!EventKeys, RunStates
      <3> QED
        BY <3>1, <3>2, <3>3
    <2>2. /\ UNCHANGED <<clock, seq, turn, records, model, got, rest, asked, comp>>
          /\ run' = "failed" /\ run \notin Finished /\ Events!emit(es)
      BY <1>2 DEF Events!raiseInterrupted, Events!hub, Events!client, Finished
    <2> HIDE DEF es
    <2>3. run' \in RunStates
      BY <2>2 DEF RunStates
    <2> QED
      BY <1>0, <2>1, <2>2, <2>3, EmitKeeps
  <1>3. ASSUME NEW b \in BOOLEAN, Events!emit(<<[key |-> "attn", value |-> b]>>),
               UNCHANGED <<clock, seq, turn, records, model, got, rest, asked, comp, run>>
        PROVE  EInv'
    <2> DEFINE es == <<[key |-> "attn", value |-> b]>>
    <2>1. \A i \in DOMAIN es : Well(es[i]) /\ es[i].value \in Values
      BY DEF Well, Values, Events!EventKeys
    <2> QED
      BY <1>0, <1>3, <2>1, EmitKeeps
  <1>4. CASE Events!onAttention
    BY <1>3, <1>4 DEF Events!onAttention, Events!hub, Events!client
  <1>5. CASE Events!dismissAttention
    BY <1>3, <1>5 DEF Events!dismissAttention, Events!hub, Events!client
  <1>6. CASE Events!computerMoves
    <2>1. PICK to \in Events!CompMoves[comp] :
            comp' = to /\ Events!emit(<<[key |-> "state", value |-> to]>>)
      BY <1>6 DEF Events!computerMoves
    <2> DEFINE es == <<[key |-> "state", value |-> to]>>
    <2>2. to \in {"cold", "waking", "awake", "warm"} /\ comp' \in DOMAIN Events!CompMoves
      BY <1>0, <2>1 DEF Events!CompMoves
    <2>3. \A i \in DOMAIN es : Well(es[i]) /\ es[i].value \in Values
      BY <2>2 DEF Well, Values, Events!EventKeys
    <2>4. UNCHANGED <<clock, seq, turn, records, model, got, rest, asked, run>>
      BY <1>6 DEF Events!computerMoves, Events!hub, Events!client
    <2> QED
      BY <1>0, <2>1, <2>2, <2>3, <2>4, EmitKeeps
  <1> QED
    BY <1>1, <1>2, <1>4, <1>5, <1>6

(* The hub numbers an event above all it has numbered.                      *)
LEMMA PublishKeeps ==
    ASSUME EInv, Events!publish
    PROVE  EInv'
  <1>1. PICK p \in pubs : /\ pubs' = pubs \ {p}
                          /\ \/ UNCHANGED records
                             \/ records' = Append(records, [key |-> p.key, value |-> p.value,
                                                            seq |-> seq + 1, turn |-> turn + 1])
    BY DEF Events!publish
  <1> DEFINE e == [key |-> p.key, value |-> p.value, seq |-> seq + 1, turn |-> turn + 1]
  <1>2. /\ seq' = seq + 1 /\ turn' = turn + 1
        /\ UNCHANGED <<run, comp, clock, model, got, rest, asked>>
    BY DEF Events!publish, Events!client
  <1>3. /\ e \in Delivered /\ Well(e) /\ e.seq = seq + 1
        /\ seq \in Nat /\ turn \in Nat /\ records \in Seq(Delivered)
    BY DEF EInv, ETyped, Well, Delivered
  <1> HIDE DEF e
  <1>4. CASE UNCHANGED records
    <2>1. Numbered'
      <3>1. \A k \in Events!EventKeys : model.applied[k] \in Nat
        BY DEF EInv, ETyped
      <3> QED
        BY <1>2, <1>3, <1>4, <3>1, OnStream DEF EInv, Numbered
    <2>2. ETyped'
      BY <1>1, <1>2, <1>3, <1>4 DEF EInv, ETyped
    <2> QED
      BY <1>2, <2>1, <2>2 DEF EInv, Rested, Events!FreshIsApplied
  <1>5. CASE records' = Append(records, e)
    <2>1. /\ records' \in Seq(Delivered) /\ Len(records') = Len(records) + 1
          /\ records'[Len(records) + 1] = e
          /\ \A i \in 1..Len(records) : records'[i] = records[i]
      BY <1>3, <1>5
    <2>2. Len(records) \in Nat
      BY <1>3
    <2>3. \A i \in 1..Len(records') : i \in 1..Len(records) \/ i = Len(records) + 1
      BY <2>1, <2>2
    <2>4. ETyped'
      <3>1. \A i \in 1..Len(records') : Well(records'[i])
        BY <1>3, <2>1, <2>3 DEF EInv, ETyped
      <3>2. \A p1 \in pubs' : Well(p1) /\ p1.value \in Values
        BY <1>1 DEF EInv, ETyped
      <3>3. seq' \in Nat /\ turn' \in Nat
        BY <1>2, <1>3
      <3> QED
        BY <1>2, <2>1, <3>1, <3>2, <3>3 DEF EInv, ETyped
    <2>5. \A i \in 1..Len(records) : records[i].seq \in Nat /\ records[i].seq <= seq
      BY OnStream DEF EInv, Numbered
    <2>6. \A k \in Events!EventKeys : model.applied[k] \in Nat /\ model.applied[k] <= seq
      BY DEF EInv, ETyped, Numbered
    <2>7. ASSUME NEW i \in 1..Len(records')
          PROVE  /\ records'[i].seq <= seq + 1
                 /\ \A k \in Events!EventKeys : model.applied[k] < records'[i].seq
                 /\ \A j \in 1..Len(records') : i < j => records'[i].seq < records'[j].seq
      <3>1. CASE i \in 1..Len(records)
        <4>1. /\ records'[i].seq <= seq + 1
              /\ \A k \in Events!EventKeys : model.applied[k] < records'[i].seq
          BY <1>3, <2>1, <2>5, <3>1 DEF EInv, Numbered
        <4>2. ASSUME NEW j \in 1..Len(records'), i < j
              PROVE  records'[i].seq < records'[j].seq
          <5>1. CASE j \in 1..Len(records)
            BY <2>1, <3>1, <4>2, <5>1 DEF EInv, Numbered
          <5>2. CASE j = Len(records) + 1
            BY <1>3, <2>1, <2>5, <3>1, <5>2
          <5> QED
            BY <2>3, <5>1, <5>2
        <4> QED
          BY <4>1, <4>2
      <3>2. CASE i = Len(records) + 1
        BY <1>3, <2>1, <2>2, <2>6, <3>2
      <3> QED
        BY <2>3, <3>1, <3>2
    <2>8. Numbered'
      BY <1>2, <1>3, <2>6, <2>7 DEF Numbered
    <2> QED
      BY <1>2, <2>4, <2>8 DEF EInv, Rested, Events!FreshIsApplied
  <1> QED
    BY <1>1, <1>4, <1>5 DEF e

LEMMA HubKeeps ==
    ASSUME EInv, \/ Events!publishLost \/ Events!restart \/ Events!tick \/ Events!connect
                 \/ Events!onerror \/ Events!request \/ Events!response
    PROVE  EInv'
  <1>1. CASE Events!publishLost \/ Events!tick
    BY <1>1 DEF Events!publishLost, Events!tick, Events!hub, Events!client, EInv, ETyped,
                Numbered, Rested, Events!FreshIsApplied
  <1>2. CASE Events!restart
    <2>1. /\ seq \in Nat /\ clock \in Nat /\ seq < seq' /\ seq' \in Nat
          /\ UNCHANGED <<run, comp, pubs, clock, turn, records, model, got, rest, asked>>
      BY <1>2 DEF Events!restart, Events!seed, Events!client, EInv, ETyped
    <2>2. Numbered'
      <3>1. \A k \in Events!EventKeys : model.applied[k] \in Nat
        BY DEF EInv, ETyped
      <3>2. \A i \in 1..Len(records) : records[i].seq \in Nat
        BY OnStream
      <3> QED
        BY <2>1, <3>1, <3>2 DEF EInv, Numbered
    <2> QED
      BY <2>1, <2>2 DEF EInv, ETyped, Rested, Events!FreshIsApplied
  <1>3. CASE Events!connect \/ Events!onerror
    <2>1. /\ records' = <<>>
          /\ UNCHANGED <<run, comp, pubs, clock, seq, turn, model, got, rest, asked>>
      BY <1>3 DEF Events!connect, Events!onerror, Events!hub, Events!client
    <2>2. Len(records') = 0 /\ records' \in Seq(Delivered)
      BY <2>1
    <2> QED
      BY <2>1, <2>2 DEF EInv, ETyped, Numbered, Rested, Events!FreshIsApplied
  <1>4. CASE Events!request
    <2>1. /\ asked' = run
          /\ UNCHANGED <<run, comp, pubs, clock, seq, turn, records, model, got, rest>>
      BY <1>4 DEF Events!request, Events!hub
    <2>2. ETyped' /\ Numbered' /\ Events!FreshIsApplied'
      BY <2>1 DEF EInv, ETyped, Numbered, Events!FreshIsApplied, Learned
    <2>3. Rested'
      BY <2>1 DEF EInv, Rested
    <2> QED
      BY <2>2, <2>3 DEF EInv
  <1>5. CASE Events!response
    <2>1. /\ rest' = asked /\ asked' = "unknown" /\ asked # "unknown"
          /\ UNCHANGED <<run, comp, pubs, clock, seq, turn, records, model, got>>
      BY <1>5 DEF Events!response, Events!hub, Events!Unknown
    <2>2. ETyped' /\ Numbered' /\ Events!FreshIsApplied'
      BY <2>1 DEF EInv, ETyped, Numbered, Events!FreshIsApplied, Learned
    <2>3. Rested'
      BY <2>1 DEF EInv, Rested, Finished
    <2> QED
      BY <2>2, <2>3 DEF EInv
  <1> QED
    BY <1>1, <1>2, <1>3, <1>4, <1>5

(* Of two states of a run the one that is shown is the later, and nothing   *)
(* is later than an end.                                                    *)
LEMMA MergeIsLater ==
    ASSUME NEW a \in Learned, NEW b \in Learned
    PROVE  /\ Events!mergeRunState(a, b) \in {a, b}
           /\ a \in Finished \/ b \in Finished => Events!mergeRunState(a, b) \in Finished
           /\ a = "unknown" => Events!mergeRunState(a, b) = b
  BY DEF Events!mergeRunState, Events!Rank, Learned, RunStates, Finished, Events!Unknown

(* What is delivered is applied: it is numbered above all applied before.   *)
LEMMA DeliverKeeps ==
    ASSUME EInv, Events!deliver
    PROVE  EInv' /\ (model.run \in Finished => model'.run \in Finished)
  <1> DEFINE e == Head(records)
  <1>1. /\ records # <<>> /\ records' = Tail(records) /\ model' = Events!applyEvent(model, e)
        /\ got' = [got EXCEPT ![e.key] = e.turn]
        /\ UNCHANGED <<run, comp, pubs, clock, seq, turn, rest, asked>>
    BY DEF Events!deliver, Events!hub
  <1>2. records \in Seq(Delivered)
    BY DEF EInv, ETyped
  <1>3. /\ Len(records) \in Nat /\ Len(records) > 0 /\ e = records[1]
        /\ records' \in Seq(Delivered) /\ Len(records') = Len(records) - 1
        /\ \A i \in 1..Len(records') : records'[i] = records[i + 1]
    BY <1>1, <1>2
  <1>4. 1 \in 1..Len(records)
    BY <1>3
  <1>5. /\ e \in Delivered /\ Well(e) /\ e.seq <= seq
        /\ \A k \in Events!EventKeys : model.applied[k] < e.seq
        /\ \A j \in 1..Len(records) : 1 < j => e.seq < records[j].seq
    <2>1. e \in Delivered /\ Well(e)
      BY <1>3, <1>4, OnStream DEF EInv, ETyped
    <2>2. /\ e.seq <= seq
          /\ \A k \in Events!EventKeys : model.applied[k] < e.seq
          /\ \A j \in 1..Len(records) : 1 < j => e.seq < records[j].seq
      BY <1>3, <1>4 DEF EInv, Numbered
    <2> QED
      BY <2>1, <2>2
  <1> HIDE DEF e
  <1>6. e.key \in Events!EventKeys /\ e.seq \in Nat /\ e.turn \in Nat
    BY <1>5 DEF Delivered
  <1>7. /\ model = [run |-> model.run, attn |-> model.attn, state |-> model.state,
                    applied |-> model.applied, turn |-> model.turn]
        /\ model.run \in Learned
        /\ model.applied \in [Events!EventKeys -> Nat]
        /\ model.turn \in [Events!EventKeys -> Nat] /\ model.turn = got
    BY DEF EInv, ETyped, Events!FreshIsApplied
  <1>8. ~(e.seq <= model.applied[e.key])
    BY <1>5, <1>6, <1>7
  <1>9. /\ model'.applied = [model.applied EXCEPT ![e.key] = e.seq]
        /\ model'.turn = [model.turn EXCEPT ![e.key] = e.turn]
        /\ model'.run = IF e.key = "run" THEN Events!mergeRunState(model.run, e.value)
                        ELSE model.run
        /\ model' = [run |-> model'.run, attn |-> model'.attn, state |-> model'.state,
                     applied |-> model'.applied, turn |-> model'.turn]
    <2> DEFINE marked == [model EXCEPT !.applied[e.key] = e.seq, !.turn[e.key] = e.turn]
    <2>1. marked = [run |-> model.run, attn |-> model.attn, state |-> model.state,
                    applied |-> [model.applied EXCEPT ![e.key] = e.seq],
                    turn |-> [model.turn EXCEPT ![e.key] = e.turn]]
      <3> DEFINE n == [model EXCEPT !.applied[e.key] = e.seq]
      <3>1. model = [run |-> model.run, attn |-> model.attn, state |-> model.state,
                     applied |-> model.applied, turn |-> model.turn]
        BY <1>7
      <3>2. n = [run |-> model.run, attn |-> model.attn, state |-> model.state,
                 applied |-> [model.applied EXCEPT ![e.key] = e.seq], turn |-> model.turn]
        BY ONLY <3>1
      <3>3. marked = [n EXCEPT !.turn[e.key] = e.turn]
        OBVIOUS
      <3> HIDE DEF n, marked
      <3> QED
        BY <3>2, <3>3
    <2>2. \/ e.key = "state" /\ model' = [marked EXCEPT !.state = e.value]
          \/ e.key = "attn" /\ model' = [marked EXCEPT !.attn = e.value]
          \/ e.key = "run" /\ model' = [marked EXCEPT
                !.run = Events!mergeRunState(model.run, e.value),
                !.attn = model.attn /\ Events!isActive(Events!mergeRunState(model.run, e.value))]
      BY <1>1, <1>6, <1>8 DEF Events!applyEvent, Events!EventKeys
    <2> HIDE DEF marked
    <2> QED
      BY <2>1, <2>2
  <1>10. model'.run \in Learned /\ (model.run \in Finished => model'.run \in Finished)
    <2>1. e.key = "run" => e.value \in Learned
      BY <1>5 DEF Well, Learned
    <2> QED
      BY <1>7, <1>9, <2>1, MergeIsLater
  <1>11. /\ model'.applied \in [Events!EventKeys -> Nat]
         /\ model'.turn \in [Events!EventKeys -> Nat] /\ model'.turn = got'
    BY <1>1, <1>6, <1>7, <1>9
  <1>12. ETyped'
    <2>1. \A i \in 1..Len(records') : Well(records'[i])
      <3> TAKE i \in 1..Len(records')
      <3>1. i + 1 \in 1..Len(records)
        BY <1>3
      <3> QED
        BY <1>3, <3>1 DEF EInv, ETyped
    <2> QED
      BY <1>1, <1>3, <1>9, <1>10, <1>11, <2>1 DEF EInv, ETyped
  <1>13. Numbered'
    <2>1. \A k \in Events!EventKeys : model'.applied[k] = model.applied[k] \/ model'.applied[k] = e.seq
      BY <1>7, <1>9
    <2>2. \A k \in Events!EventKeys : model'.applied[k] <= seq
      BY <1>5, <2>1 DEF EInv, Numbered
    <2>3. ASSUME NEW i \in 1..Len(records')
          PROVE  /\ records'[i].seq <= seq
                 /\ \A k \in Events!EventKeys : model'.applied[k] < records'[i].seq
                 /\ \A j \in 1..Len(records') : i < j => records'[i].seq < records'[j].seq
      <3>1. i + 1 \in 1..Len(records) /\ 1 < i + 1 /\ records'[i] = records[i + 1]
        BY <1>3
      <3>2. /\ records[i + 1].seq <= seq
            /\ \A k \in Events!EventKeys : model.applied[k] < records[i + 1].seq
            /\ \A j \in 1..Len(records) : i + 1 < j => records[i + 1].seq < records[j].seq
        BY <3>1 DEF EInv, Numbered
      <3>3. e.seq < records[i + 1].seq
        BY <1>5, <3>1
      <3>4. ASSUME NEW j \in 1..Len(records'), i < j
            PROVE  records'[i].seq < records'[j].seq
        <4>1. j + 1 \in 1..Len(records) /\ i + 1 < j + 1 /\ records'[j] = records[j + 1]
          BY <1>3, <3>4
        <4> QED
          BY <3>1, <3>2, <4>1
      <3> QED
        BY <2>1, <3>1, <3>2, <3>3, <3>4
    <2> QED
      BY <1>1, <2>2, <2>3 DEF Numbered
  <1>14. Rested'
    BY <1>1 DEF EInv, Rested
  <1> QED
    BY <1>10, <1>11, <1>12, <1>13, <1>14 DEF EInv, Events!FreshIsApplied

LEMMA StepEInv ==
    ASSUME EInv, Events!Next
    PROVE  EInv' /\ (model.run \in Finished => model'.run \in Finished)
  <1>1. Events!deliver \/ UNCHANGED model
    BY DEF Events!Next, Events!runMoves, Events!raiseInterrupted, Events!onAttention,
           Events!dismissAttention, Events!computerMoves, Events!publishLost,
           Events!publish,
           Events!restart, Events!tick, Events!connect, Events!onerror, Events!request,
           Events!response, Events!client
  <1>2. EInv'
    BY MovesKeep, PublishKeeps, HubKeeps, DeliverKeeps DEF Events!Next
  <1> QED
    BY <1>1, <1>2, DeliverKeeps

(* The row shows a run finished when the runs list or the model does.       *)
LEMMA RowIsFinished ==
    ASSUME NEW r \in Learned, NEW m \in Learned
    PROVE  LET later == IF r = "unknown" THEN m ELSE IF m = "unknown" THEN r
                        ELSE Events!mergeRunState(r, m)
           IN Events!isTerminal(later) <=> r \in Finished \/ m \in Finished
  BY MergeIsLater DEF Events!isTerminal, Finished

(* A run shown finished is not shown unfinished again, in whatever order    *)
(* events and answers arrive, and no event is mistaken for a stale one      *)
(* across the hub's restarts (runs/merge.ts, events/reducer.ts and the      *)
(* seeding of #seq in events-do.ts).                                        *)
THEOREM NeverStepsBackEver == Spec => NeverStepsBack
  <1> DEFINE Inv == focus = "events" => EInv
             Step == focus = "events" => Events!StaysFinished /\ Events!FreshIsApplied'
  <1>1. Init => Inv
    BY InitEInv DEF Init
  <1>2. Inv /\ [Next]_vars => Inv' /\ Step
    <2> SUFFICES ASSUME Inv, [Next]_vars PROVE Inv' /\ Step
      OBVIOUS
    <2>1. focus' = focus /\ (focus = "events" => Events!Next \/ UNCHANGED events)
      BY FocusStays
    <2>2. CASE focus # "events"
      BY <2>1, <2>2
    <2>3. CASE focus = "events"
      <3>1. EInv
        BY <2>3
      <3>2. EInv' /\ (model.run \in Finished => model'.run \in Finished)
        <4>1. CASE Events!Next
          BY <3>1, <4>1, StepEInv
        <4>2. CASE UNCHANGED events
          BY <3>1, <4>2 DEF events, EInv, ETyped, Numbered, Rested, Events!FreshIsApplied
        <4> QED
          BY <2>1, <2>3, <4>1, <4>2
      <3>3. rest \in Finished => rest' \in Finished
        <4>1. CASE Events!Next
          <5>1. Events!response \/ UNCHANGED rest
            BY <4>1 DEF Events!Next, Events!runMoves, Events!raiseInterrupted,
               Events!onAttention, Events!dismissAttention, Events!computerMoves,
               Events!publishLost, Events!publish, Events!restart, Events!tick,
               Events!connect, Events!onerror, Events!request, Events!client,
               Events!deliver
          <5> QED
            BY <3>1, <5>1 DEF EInv, Rested, Events!response, Events!Unknown, Finished
        <4>2. CASE UNCHANGED events
          BY <4>2 DEF events
        <4> QED
          BY <2>1, <2>3, <4>1, <4>2
      <3>4. /\ rest \in Learned /\ model.run \in Learned
            /\ rest' \in Learned /\ model'.run \in Learned
        BY <3>1, <3>2 DEF EInv, ETyped
      <3>5. /\ Events!isTerminal(Events!row.state) <=> rest \in Finished \/ model.run \in Finished
            /\ (Events!isTerminal(Events!row.state))' <=> rest' \in Finished \/ model'.run \in Finished
        <4>1. Events!row.state = IF rest = "unknown" THEN model.run
                                 ELSE IF model.run = "unknown" THEN rest
                                 ELSE Events!mergeRunState(rest, model.run)
          BY DEF Events!row, Events!Unknown
        <4>2. (Events!row.state)' = IF rest' = "unknown" THEN model'.run
                                    ELSE IF model'.run = "unknown" THEN rest'
                                    ELSE Events!mergeRunState(rest', model'.run)
          BY DEF Events!row, Events!Unknown, Events!mergeRunState, Events!Rank
        <4>3. Events!isTerminal(Events!row.state) <=> rest \in Finished \/ model.run \in Finished
          BY <3>4, <4>1, RowIsFinished
        <4>4. /\ (Events!isTerminal(Events!row.state))' <=> Events!isTerminal((Events!row.state)')
              /\ Events!isTerminal((Events!row.state)') <=>
                   rest' \in Finished \/ model'.run \in Finished
          BY <3>4, <4>2, RowIsFinished DEF Events!isTerminal
        <4> QED
          BY <4>3, <4>4
      <3>6. Events!StaysFinished
        BY <3>2, <3>3, <3>5 DEF Events!StaysFinished
      <3> QED
        BY <2>1, <3>2, <3>6 DEF EInv
    <2> QED
      BY <2>2, <2>3
  <1>3. Inv /\ [Next]_vars => [Step]_vars
    BY <1>2
  <1>4. NeverStepsBack <=> [][Step]_vars
    BY DEF NeverStepsBack
  <1> QED
    BY <1>1, <1>2, <1>3, <1>4, PTL DEF Spec


-----------------------------------------------------------------------------
(* The terminal of a pane.                                                  *)

(* A cap on what is kept is not negative.                                   *)
CapIsNatural == MaxQueued \in Nat

Line == Seq(Nat)
Precedes(s, u) == \A a \in 1..Len(s), b \in 1..Len(u) : s[a] < u[b]

(* Inputs that follow what was given, each other in turn, and lead up to    *)
(* what is to be typed next.                                                *)
Follows(g, q, n) ==
    /\ \A a \in 1..Len(g) : g[a] < n
    /\ \A i \in 1..Len(q) : /\ Attach!Rises(q[i]) /\ Precedes(g, q[i])
                            /\ \A a \in 1..Len(q[i]) : q[i][a] < n
    /\ \A i, j \in 1..Len(q) : i < j => Precedes(q[i], q[j])

LEMMA FollowsAppend ==
    ASSUME NEW g \in Line, NEW q \in Seq(Line), NEW n \in Nat, Follows(g, q, n),
           NEW s \in Line, NEW k \in Nat, n <= k, Attach!Rises(s),
           \A a \in 1..Len(s) : n <= s[a] /\ s[a] < k
    PROVE  Append(q, s) \in Seq(Line) /\ Follows(g, Append(q, s), k)
  <1> DEFINE r == Append(q, s)
  <1>1. /\ r \in Seq(Line) /\ Len(r) = Len(q) + 1 /\ r[Len(q) + 1] = s
        /\ \A i \in 1..Len(q) : r[i] = q[i]
    OBVIOUS
  <1> HIDE DEF r
  <1>2. \A i \in 1..Len(r) : i \in 1..Len(q) \/ i = Len(q) + 1
    BY <1>1
  <1>3. \A i \in 1..Len(q) : q[i] \in Line
    OBVIOUS
  <1>4. \A a \in 1..Len(g) : g[a] \in Nat /\ g[a] < n /\ g[a] < k
    BY DEF Line, Follows
  <1>5. \A i \in 1..Len(q) : \A a \in 1..Len(q[i]) : q[i][a] \in Nat /\ q[i][a] < n /\ q[i][a] < k
    <2>1. SUFFICES ASSUME NEW i \in 1..Len(q), NEW a \in 1..Len(q[i])
                   PROVE  q[i][a] \in Nat /\ q[i][a] < n /\ q[i][a] < k
      OBVIOUS
    <2>2. q[i][a] \in Nat
      <3>1. q[i] \in Seq(Nat) /\ a \in 1..Len(q[i])
        BY <1>3 DEF Line
      <3> QED
        BY ONLY <3>1
    <2>3. q[i][a] < n
      BY DEF Follows
    <2> QED
      BY <2>2, <2>3
  <1>6. \A a \in 1..Len(s) : s[a] \in Nat
    BY DEF Line
  <1>7. Precedes(g, s) /\ \A i \in 1..Len(q) : Precedes(q[i], s)
    <2>1. Precedes(g, s)
      BY <1>4, <1>6 DEF Precedes
    <2>2. ASSUME NEW i \in 1..Len(q), NEW a \in 1..Len(q[i]), NEW b \in 1..Len(s)
          PROVE  q[i][a] < s[b]
      <3>1. q[i][a] \in Nat /\ q[i][a] < n
        BY <1>5
      <3>2. s[b] \in Nat /\ n <= s[b]
        BY <1>6
      <3> QED
        BY <3>1, <3>2
    <2> QED
      BY <2>1, <2>2 DEF Precedes
  <1>8. \A i \in 1..Len(r) : /\ Attach!Rises(r[i]) /\ Precedes(g, r[i])
                             /\ \A a \in 1..Len(r[i]) : r[i][a] < k
    BY <1>1, <1>2, <1>5, <1>7 DEF Follows
  <1>9. \A i, j \in 1..Len(r) : i < j => Precedes(r[i], r[j])
    <2>1. SUFFICES ASSUME NEW i \in 1..Len(r), NEW j \in 1..Len(r), i < j
                   PROVE  Precedes(r[i], r[j])
      OBVIOUS
    <2>2. i \in 1..Len(q)
      BY <1>1, <2>1
    <2>3. CASE j \in 1..Len(q)
      BY <1>1, <2>1, <2>2, <2>3 DEF Follows
    <2>4. CASE j = Len(q) + 1
      BY <1>1, <1>7, <2>2, <2>4
    <2> QED
      BY <1>2, <2>3, <2>4
  <1>10. Follows(g, r, k)
    BY <1>4, <1>8, <1>9 DEF Follows
  <1> QED
    BY <1>1, <1>10 DEF r

LEMMA Concatenated ==
    ASSUME NEW T, NEW x \in Seq(T), NEW y \in Seq(T)
    PROVE  /\ x \o y \in Seq(T) /\ Len(x \o y) = Len(x) + Len(y)
           /\ \A a \in 1..Len(x \o y) : (x \o y)[a] = IF a <= Len(x) THEN x[a] ELSE y[a - Len(x)]
           /\ Len(x) \in Nat /\ Len(y) \in Nat
  OBVIOUS

(* The first input, handed on or not.                                       *)
LEMMA FollowsTail ==
    ASSUME NEW g \in Line, NEW q \in Seq(Line), NEW n \in Nat, Follows(g, q, n), q # <<>>,
           Attach!Rises(g)
    PROVE  /\ Tail(q) \in Seq(Line) /\ Follows(g, Tail(q), n)
           /\ Follows(g \o Head(q), Tail(q), n)
           /\ g \o Head(q) \in Line /\ Attach!Rises(g \o Head(q))
  <1> DEFINE s == Head(q)
             h == g \o s
             r == Tail(q)
  <1>1. /\ r \in Seq(Line) /\ Len(r) = Len(q) - 1 /\ s = q[1] /\ s \in Line /\ 1 \in 1..Len(q)
        /\ \A i \in 1..Len(r) : r[i] = q[i + 1] /\ i + 1 \in 1..Len(q)
    OBVIOUS
  <1>2. /\ h \in Line /\ Len(h) = Len(g) + Len(s)
        /\ \A a \in 1..Len(h) : h[a] = IF a <= Len(g) THEN g[a] ELSE s[a - Len(g)]
        /\ DOMAIN h = 1..Len(h) /\ DOMAIN g = 1..Len(g) /\ DOMAIN s = 1..Len(s)
        /\ Len(g) \in Nat /\ Len(s) \in Nat
    BY <1>1 DEF Line
  <1> HIDE DEF s, h, r
  <1>3. /\ \A i \in 1..Len(r) : /\ Attach!Rises(r[i]) /\ Precedes(g, r[i]) /\ Precedes(s, r[i])
                                /\ \A a \in 1..Len(r[i]) : r[i][a] < n
        /\ Attach!Rises(s) /\ Precedes(g, s) /\ \A a \in 1..Len(s) : s[a] < n
    <2>1. Attach!Rises(s) /\ Precedes(g, s) /\ \A a \in 1..Len(s) : s[a] < n
      BY <1>1 DEF Follows
    <2>2. ASSUME NEW i \in 1..Len(r)
          PROVE  /\ Attach!Rises(r[i]) /\ Precedes(g, r[i]) /\ Precedes(s, r[i])
                 /\ \A a \in 1..Len(r[i]) : r[i][a] < n
      <3>1. r[i] = q[i + 1] /\ i + 1 \in 1..Len(q) /\ 1 < i + 1
        BY <1>1
      <3>2. Precedes(q[1], q[i + 1])
        BY <1>1, <3>1 DEF Follows
      <3> QED
        BY <1>1, <3>1, <3>2 DEF Follows
    <2> QED
      BY <2>1, <2>2
  <1>4. ASSUME NEW i \in 1..Len(r), NEW j \in 1..Len(r), i < j
        PROVE  Precedes(r[i], r[j])
    <2>1. /\ r[i] = q[i + 1] /\ i + 1 \in 1..Len(q)
          /\ r[j] = q[j + 1] /\ j + 1 \in 1..Len(q) /\ i + 1 < j + 1
      BY <1>1, <1>4
    <2>2. Precedes(q[i + 1], q[j + 1])
      BY <2>1 DEF Follows
    <2> QED
      BY <2>1, <2>2
  <1>5. Follows(g, r, n)
    BY <1>3, <1>4 DEF Follows
  <1>6. \A i \in 1..Len(r) : Precedes(h, r[i])
    <2>1. SUFFICES ASSUME NEW i \in 1..Len(r), NEW a \in 1..Len(h), NEW b \in 1..Len(r[i])
                   PROVE  h[a] < r[i][b]
      BY DEF Precedes
    <2>2. CASE a <= Len(g)
      BY <1>2, <1>3, <2>1, <2>2 DEF Precedes
    <2>3. CASE a > Len(g)
      <3>1. a - Len(g) \in 1..Len(s) /\ h[a] = s[a - Len(g)]
        BY <1>2, <2>1, <2>3
      <3> QED
        BY <1>3, <2>1, <3>1 DEF Precedes
    <2> QED
      BY <1>2, <2>1, <2>2, <2>3
  <1>7. \A a \in 1..Len(h) : h[a] < n
    BY <1>2, <1>3 DEF Follows
  <1>8. Attach!Rises(h)
    <2>1. SUFFICES ASSUME NEW a \in 1..Len(h), NEW b \in 1..Len(h), a < b PROVE h[a] < h[b]
      BY <1>2 DEF Attach!Rises
    <2>2. CASE b <= Len(g)
      BY <1>2, <2>1, <2>2 DEF Attach!Rises
    <2>3. CASE a > Len(g)
      <3>1. /\ a - Len(g) \in 1..Len(s) /\ b - Len(g) \in 1..Len(s) /\ a - Len(g) < b - Len(g)
            /\ h[a] = s[a - Len(g)] /\ h[b] = s[b - Len(g)]
        BY <1>2, <2>1, <2>3
      <3> QED
        BY <1>2, <1>3, <3>1 DEF Attach!Rises
    <2>4. CASE a <= Len(g) /\ b > Len(g)
      <3>1. /\ a \in 1..Len(g) /\ b - Len(g) \in 1..Len(s)
            /\ h[a] = g[a] /\ h[b] = s[b - Len(g)]
        BY <1>2, <2>1, <2>4
      <3> QED
        BY <1>3, <3>1 DEF Precedes
    <2> QED
      BY <1>2, <2>1, <2>2, <2>3, <2>4
  <1>9. Follows(h, r, n)
    BY <1>3, <1>4, <1>6, <1>7 DEF Follows
  <1> QED
    BY <1>1, <1>2, <1>5, <1>8, <1>9 DEF s, h, r

-----------------------------------------------------------------------------
(* A queue that is trimmed.                                                 *)

LEMMA ImageIsFinite ==
    ASSUME NEW S, IsFiniteSet(S), NEW F
    PROVE  IsFiniteSet({F[x] : x \in S})
  <1> DEFINE G == [x \in S |-> F[x]]
             T == {F[x] : x \in S}
  <1>1. G \in [S -> T] /\ \A y \in T : \E x \in S : G[x] = y
    OBVIOUS
  <1>2. G \in Surjection(S, T)
    BY <1>1 DEF Surjection
  <1> QED
    BY <1>2, FS_Surjection

LEMMA Counted == \A S : Attach!Cardinality(S) = Cardinality(S)
  BY DEF Attach!Cardinality, Cardinality

(* The first inputs of a queue are no longer than more of them.             *)
LEMMA LengthGrows ==
    ASSUME NEW q \in Seq(Line), NEW i \in 0..Len(q), NEW j \in 0..Len(q), i <= j
    PROVE  /\ Attach!lengthTo(q, i) \in Nat
           /\ Attach!lengthTo(q, i) <= Attach!lengthTo(q, j)
           /\ Attach!lengthTo(q, 0) = 0
  <1> DEFINE places == [k \in 1..Len(q) |-> {k} \X DOMAIN q[k]]
  <1>1. \A k \in 1..Len(q) : IsFiniteSet(places[k])
    <2>1. SUFFICES ASSUME NEW k \in 1..Len(q) PROVE IsFiniteSet({k} \X DOMAIN q[k])
      OBVIOUS
    <2>2. Len(q[k]) \in Nat /\ DOMAIN q[k] = 1..Len(q[k])
      BY DEF Line
    <2>3. IsFiniteSet(1..Len(q[k]))
      BY <2>2, FS_Interval
    <2>4. IsFiniteSet({k})
      BY FS_Singleton
    <2> QED
      BY <2>2, <2>3, <2>4, FS_Product
  <1>2. \A m \in 0..Len(q) : Attach!placesTo(q, m) = UNION {places[k] : k \in 1..m}
    <2>1. SUFFICES ASSUME NEW m \in 0..Len(q)
                   PROVE  {{k} \X DOMAIN q[k] : k \in 1..m} = {places[k] : k \in 1..m}
      BY DEF Attach!placesTo
    <2>2. \A k \in 1..m : k \in 1..Len(q)
      OBVIOUS
    <2>3. \A k \in 1..m : places[k] = {k} \X DOMAIN q[k]
      BY <2>2
    <2> HIDE DEF places
    <2> QED
      BY <2>3
  <1> HIDE DEF places
  <1>3. \A m \in 0..Len(q) : IsFiniteSet(Attach!placesTo(q, m))
    <2>1. SUFFICES ASSUME NEW m \in 0..Len(q) PROVE IsFiniteSet(UNION {places[k] : k \in 1..m})
      BY <1>2
    <2>2. IsFiniteSet(1..m)
      BY FS_Interval
    <2>3. IsFiniteSet({places[k] : k \in 1..m})
      BY <2>2, ImageIsFinite
    <2>4. \A T \in {places[k] : k \in 1..m} : IsFiniteSet(T)
      BY <1>1
    <2> QED
      BY <2>3, <2>4, FS_UNION
  <1>4. Attach!placesTo(q, i) \subseteq Attach!placesTo(q, j)
    <2>1. 1..i \subseteq 1..j
      OBVIOUS
    <2> QED
      BY <1>2, <2>1
  <1>5. Attach!placesTo(q, 0) = {}
    BY <1>2
  <1>6. \A m \in 0..Len(q) : Attach!lengthTo(q, m) = Cardinality(Attach!placesTo(q, m))
    BY Counted DEF Attach!lengthTo
  <1>7. Attach!lengthTo(q, i) \in Nat
    BY <1>3, <1>6, FS_CardinalityType
  <1>8. Attach!lengthTo(q, i) <= Attach!lengthTo(q, j)
    BY <1>3, <1>4, <1>6, FS_Subset
  <1>9. Attach!lengthTo(q, 0) = 0
    <2>1. 0 \in 0..Len(q)
      OBVIOUS
    <2> QED
      BY <1>5, <1>6, <2>1, FS_EmptySet
  <1> QED
    BY <1>7, <1>8, <1>9

(* The inputs that go are the first, and of the next no more than it has.   *)
LEMMA FirstGo ==
    ASSUME NEW q \in Seq(Line), NEW over \in Nat
    PROVE  LET gone == Cardinality({i \in 1..Len(q) : Attach!lengthTo(q, i) <= over})
           IN  gone \in 0..Len(q) /\ Attach!lengthTo(q, gone) <= over
  <1> DEFINE Gone == {i \in 1..Len(q) : Attach!lengthTo(q, i) <= over}
  <1>1. Len(q) \in Nat /\ Gone \subseteq Nat /\ \A i \in Gone : i <= Len(q)
    OBVIOUS
  <1>2. CASE Gone = {}
    <2>1. Attach!lengthTo(q, 0) = 0
      BY <1>1, LengthGrows
    <2>2. Cardinality(Gone) = 0
      BY <1>2, FS_EmptySet
    <2> HIDE DEF Gone
    <2>3. 0 \in 0..Len(q) /\ Attach!lengthTo(q, 0) <= over
      BY <1>1, <2>1
    <2> QED
      BY <2>2, <2>3 DEF Gone
  <1>3. CASE Gone # {}
    <2>1. PICK h \in Gone : \A i \in Gone : h >= i
      BY <1>1, <1>3, GreatestOf
    <2>2. ASSUME NEW i \in 1..h PROVE i \in Gone
      <3>1. i \in 0..Len(q) /\ h \in 0..Len(q) /\ i <= h
        BY <1>1, <2>1
      <3>2. Attach!lengthTo(q, i) <= Attach!lengthTo(q, h)
        BY <3>1, LengthGrows
      <3>3. /\ Attach!lengthTo(q, i) \in Nat /\ Attach!lengthTo(q, h) \in Nat
            /\ Attach!lengthTo(q, h) <= over
        BY <2>1, <3>1, LengthGrows
      <3> QED
        BY <3>1, <3>2, <3>3
    <2>3. Gone = 1..h
      BY <1>1, <2>1, <2>2
    <2>4. Cardinality(Gone) = h
      <3>1. h \in Nat /\ h >= 1
        BY <1>1, <2>1
      <3> HIDE DEF Gone
      <3> QED
        BY <2>3, <3>1, FS_Interval
    <2> QED
      BY <1>1, <2>1, <2>4
  <1> QED
    BY <1>2, <1>3

(* What is left of a queue is the end of it, with the beginning of its      *)
(* first input cut.                                                         *)
Ends(r, q) ==
    \E gone \in 0..Len(q), cut \in [1..Len(q) -> Nat] :
      /\ Len(r) = Len(q) - gone
      /\ \A i \in 1..Len(r) : \A a \in 1..Len(r[i]) :
           /\ a + cut[gone + i] \in 1..Len(q[gone + i])
           /\ r[i][a] = q[gone + i][a + cut[gone + i]]

LEMMA TrimmedEnds ==
    ASSUME CapIsNatural, NEW q \in Seq(Line)
    PROVE  Attach!trimmed(q) \in Seq(Line) /\ Ends(Attach!trimmed(q), q)
  <1> DEFINE over == Attach!lengthTo(q, Len(q)) - MaxQueued
             gone == Attach!Cardinality({i \in 1..Len(q) : Attach!lengthTo(q, i) <= over})
             k == over - Attach!lengthTo(q, gone)
             r == [i \in 1..(Len(q) - gone) |->
                     IF i = 1 THEN SubSeq(q[gone + 1], k + 1, Len(q[gone + 1])) ELSE q[gone + i]]
  <1>1. Len(q) \in Nat /\ over \in Int /\ \A i \in 1..Len(q) : q[i] \in Line /\ Len(q[i]) \in Nat
    BY LengthGrows DEF CapIsNatural, Line
  <1>2. CASE over <= 0
    <2>1. Attach!trimmed(q) = q
      BY <1>2 DEF Attach!trimmed
    <2> DEFINE z == [i \in 1..Len(q) |-> 0]
    <2>2. z \in [1..Len(q) -> Nat] /\ 0 \in 0..Len(q)
      BY <1>1
    <2>3. \A i \in 1..Len(q) : 0 + i = i /\ z[i] = 0
      BY <1>1
    <2>5. \A i \in 1..Len(q) : \A a \in 1..Len(q[i]) :
             a + z[0 + i] \in 1..Len(q[0 + i]) /\ q[i][a] = q[0 + i][a + z[0 + i]]
      BY <1>1, <2>3
    <2> HIDE DEF z, over
    <2>4. Len(q) = Len(q) - 0
      BY <1>1
    <2>6. Ends(q, q)
      BY <2>2, <2>4, <2>5 DEF Ends
    <2> QED
      BY <2>1, <2>6
  <1>3. CASE ~(over <= 0)
    <2>1. Attach!trimmed(q) = r
      <3>1. \A x : (over - x) + 1 = over - x + 1
        OBVIOUS
      <3> HIDE DEF over
      <3> QED
        BY <1>3 DEF Attach!trimmed, over
    <2> HIDE DEF over
    <2>2. over \in Nat
      BY <1>1, <1>3
    <2>3. gone \in 0..Len(q) /\ Attach!lengthTo(q, gone) <= over
      BY <2>2, FirstGo, Counted
    <2> HIDE DEF gone
    <2>4. k \in Nat
      <3>1. Attach!lengthTo(q, gone) \in Nat
        BY <2>3, LengthGrows
      <3> QED
        BY <2>2, <2>3, <3>1
    <2> HIDE DEF k
    <2> DEFINE cut == [i \in 1..Len(q) |-> IF i = gone + 1 THEN k ELSE 0]
    <2>5. cut \in [1..Len(q) -> Nat]
      BY <2>4
    <2>6. ASSUME NEW i \in 1..(Len(q) - gone)
          PROVE  /\ r[i] \in Line
                 /\ \A a \in 1..Len(r[i]) : /\ a + cut[gone + i] \in 1..Len(q[gone + i])
                                            /\ r[i][a] = q[gone + i][a + cut[gone + i]]
      <3>1. gone + i \in 1..Len(q) /\ i \in Nat /\ gone \in Nat
        BY <1>1, <2>3
      <3>2. CASE i = 1
        <4> DEFINE s == q[gone + 1]
                   u == SubSeq(s, k + 1, Len(s))
        <4>1. s \in Seq(Nat) /\ Len(s) \in Nat /\ cut[gone + i] = k /\ r[i] = u /\ q[gone + i] = s
          BY <1>1, <3>1, <3>2 DEF Line
        <4> HIDE DEF s, r, cut
        <4>2. CASE k <= Len(s)
          <5>1. Len(u) = Len(s) - k /\ u \in Seq(Nat)
            BY <2>4, <4>1, <4>2
          <5>2. \A a \in 1..Len(u) : a + k \in 1..Len(s) /\ u[a] = s[a + k]
            BY <2>4, <4>1, <4>2, <5>1
          <5> HIDE DEF u
          <5> QED
            BY <2>4, <4>1, <4>2, <5>1, <5>2 DEF Line
        <4>3. CASE k > Len(s)
          <5>1. u \in Seq(Nat) /\ Len(u) = 0
            BY <2>4, <4>1, <4>3
          <5> HIDE DEF u
          <5> QED
            BY <4>1, <5>1 DEF Line
        <4> QED
          BY <2>4, <4>1, <4>2, <4>3
      <3>3. CASE i # 1
        <4>1. r[i] = q[gone + i] /\ cut[gone + i] = 0
          BY <3>1, <3>3
        <4> HIDE DEF r, cut
        <4> QED
          BY <1>1, <3>1, <4>1
      <3> QED
        BY <3>2, <3>3
    <2>7. r \in Seq(Line) /\ Len(r) = Len(q) - gone
      <3>1. Len(q) - gone \in Nat
        BY <1>1, <2>3
      <3>2. \A i \in 1..(Len(q) - gone) : r[i] \in Line
        BY <2>6
      <3>3. r \in [1..(Len(q) - gone) -> Line]
        BY <3>2
      <3> HIDE DEF r
      <3> QED
        BY <3>1, <3>3
    <2> HIDE DEF r, cut
    <2> QED
      BY <2>1, <2>3, <2>5, <2>6, <2>7 DEF Ends
  <1> QED
    BY <1>2, <1>3

LEMMA FollowsTrimmed ==
    ASSUME CapIsNatural, NEW g \in Line, NEW q \in Seq(Line), NEW n \in Nat, Follows(g, q, n)
    PROVE  Attach!trimmed(q) \in Seq(Line) /\ Follows(g, Attach!trimmed(q), n)
  <1> DEFINE r == Attach!trimmed(q)
  <1>1. r \in Seq(Line)
    BY TrimmedEnds
  <1>2. PICK gone \in 0..Len(q), cut \in [1..Len(q) -> Nat] :
               /\ Len(r) = Len(q) - gone
               /\ \A i \in 1..Len(r) : \A a \in 1..Len(r[i]) :
                    /\ a + cut[gone + i] \in 1..Len(q[gone + i])
                    /\ r[i][a] = q[gone + i][a + cut[gone + i]]
    BY TrimmedEnds DEF Ends
  <1> HIDE DEF r
  <1>3. /\ Len(q) \in Nat /\ gone \in Nat
        /\ \A i \in 1..Len(r) : /\ gone + i \in 1..Len(q) /\ cut[gone + i] \in Nat
                                /\ DOMAIN r[i] = 1..Len(r[i])
                                /\ DOMAIN q[gone + i] = 1..Len(q[gone + i])
    <2>1. \A s \in Line : DOMAIN s = 1..Len(s)
      BY DEF Line
    <2>2. Len(q) \in Nat /\ gone \in Nat /\ Len(r) = Len(q) - gone
      BY <1>2
    <2>3. \A i \in 1..Len(r) : gone + i \in 1..Len(q)
      BY <2>2
    <2>4. \A i \in 1..Len(r) : r[i] \in Line
      BY <1>1
    <2>5. \A i \in 1..Len(q) : q[i] \in Line /\ cut[i] \in Nat
      BY <1>2
    <2> QED
      BY <2>1, <2>2, <2>3, <2>4, <2>5
  <1>4. ASSUME NEW i \in 1..Len(r)
        PROVE  /\ Attach!Rises(r[i]) /\ Precedes(g, r[i])
               /\ \A a \in 1..Len(r[i]) : r[i][a] < n
    <2>1. /\ Attach!Rises(q[gone + i]) /\ Precedes(g, q[gone + i])
          /\ \A a \in 1..Len(q[gone + i]) : q[gone + i][a] < n
      BY <1>3 DEF Follows
    <2>2. Attach!Rises(r[i])
      <3>1. SUFFICES ASSUME NEW a \in 1..Len(r[i]), NEW b \in 1..Len(r[i]), a < b
                     PROVE  r[i][a] < r[i][b]
        BY <1>3 DEF Attach!Rises
      <3>2. a + cut[gone + i] < b + cut[gone + i]
        BY <1>3, <3>1
      <3>3. /\ a + cut[gone + i] \in 1..Len(q[gone + i]) /\ b + cut[gone + i] \in 1..Len(q[gone + i])
            /\ r[i][a] = q[gone + i][a + cut[gone + i]] /\ r[i][b] = q[gone + i][b + cut[gone + i]]
        BY <1>2, <3>1
      <3> QED
        BY <1>3, <2>1, <3>2, <3>3 DEF Attach!Rises
    <2> QED
      BY <1>2, <2>1, <2>2 DEF Precedes
  <1>5. ASSUME NEW i \in 1..Len(r), NEW j \in 1..Len(r), i < j PROVE Precedes(r[i], r[j])
    <2>1. Precedes(q[gone + i], q[gone + j])
      <3>1. gone + i < gone + j
        BY <1>3, <1>5
      <3> QED
        BY <1>3, <3>1 DEF Follows
    <2> QED
      BY <1>2, <2>1 DEF Precedes
  <1>6. Follows(g, r, n)
    BY <1>4, <1>5 DEF Follows
  <1> QED
    BY <1>1, <1>6 DEF r

-----------------------------------------------------------------------------
(* What is shown: it rises and lies before what was applied; a terminal     *)
(* that has no grid yet was shown nothing, and the grid is what it gets     *)
(* first.                                                                   *)
DownMsg == [t : {"grid"}, offset : {0}] \cup [t : {"frame"}, offset : Nat, len : Nat]

OutInv == /\ applied \in Nat /\ journal \in Nat /\ sawGrid \in BOOLEAN /\ watched \in BOOLEAN
          /\ down \in Seq(DownMsg) /\ shown \in Line
          /\ Attach!Rises(shown) /\ \A a \in 1..Len(shown) : shown[a] < applied
          /\ ~sawGrid => /\ shown = <<>>
                         /\ down # <<>> => down[1].t = "grid"
                         /\ watched => down # <<>>

outVars == <<applied, journal, sawGrid, watched, down, shown>>

(* A frame that is not skipped goes behind all that was shown.              *)
LEMMA FrameShown ==
    ASSUME NEW u \in Line, NEW n \in Nat, Attach!Rises(u), \A a \in 1..Len(u) : u[a] < n,
           NEW m, m.offset \in Nat, m.len \in Nat, n <= m.offset
    PROVE  LET w == u \o Attach!bytesFrom(m.offset, m.len)
           IN  /\ w \in Line /\ Attach!Rises(w)
               /\ \A a \in 1..Len(w) : w[a] < m.offset + m.len
  <1> DEFINE o == m.offset
             l == m.len
             s == [i \in 1..l |-> o + i - 1]
             w == u \o s
  <1>1. o \in Nat /\ l \in Nat /\ n <= o
    OBVIOUS
  <1> HIDE DEF o, l
  <1>2. s \in Seq(Nat) /\ Len(s) = l /\ \A i \in 1..l : s[i] = o + i - 1
    BY <1>1
  <1> HIDE DEF s
  <1>3. /\ w \in Line /\ Len(w) = Len(u) + l /\ DOMAIN w = 1..Len(w) /\ Len(u) \in Nat
        /\ DOMAIN u = 1..Len(u)
        /\ \A a \in 1..Len(w) : w[a] = IF a <= Len(u) THEN u[a] ELSE s[a - Len(u)]
    <2>1. u \in Seq(Nat) /\ s \in Seq(Nat) /\ Len(s) = l
      BY <1>2 DEF Line
    <2>2. w \in Seq(Nat) /\ Len(w) = Len(u) + Len(s)
      BY <2>1, Concatenated
    <2>3. \A a \in 1..Len(w) : w[a] = IF a <= Len(u) THEN u[a] ELSE s[a - Len(u)]
      BY <2>1, Concatenated
    <2>4. DOMAIN w = 1..Len(w) /\ Len(u) \in Nat /\ DOMAIN u = 1..Len(u)
      BY <2>1, <2>2
    <2> QED
      BY <2>1, <2>2, <2>3, <2>4 DEF Line
  <1> HIDE DEF w
  <1>4. \A a \in 1..Len(w) : \/ a \in 1..Len(u) /\ w[a] = u[a] /\ w[a] \in Nat /\ w[a] < n
                             \/ a > Len(u) /\ w[a] = o + (a - Len(u)) - 1
    <2>1. SUFFICES ASSUME NEW a \in 1..Len(w), a > Len(u)
                   PROVE  w[a] = o + (a - Len(u)) - 1
      BY <1>3 DEF Line
    <2>2. a - Len(u) \in 1..l
      BY <1>1, <1>3, <2>1
    <2> QED
      BY <1>2, <1>3, <2>1, <2>2
  <1>5. \A a \in 1..Len(w) : w[a] < o + l
    BY <1>1, <1>3, <1>4
  <1>6. ASSUME NEW a \in 1..Len(w), NEW b \in 1..Len(w), a < b PROVE w[a] < w[b]
    <2>1. CASE b \in 1..Len(u)
      <3>1. a \in 1..Len(u)
        BY <1>3, <1>6, <2>1
      <3> QED
        BY <1>3, <1>6, <2>1, <3>1 DEF Attach!Rises
    <2>2. CASE a \in 1..Len(u) /\ b > Len(u)
      BY <1>1, <1>3, <1>4, <2>2
    <2>3. CASE a > Len(u)
      BY <1>1, <1>3, <1>4, <1>6, <2>3
    <2> QED
      BY <1>3, <1>6, <2>1, <2>2, <2>3
  <1>7. Attach!Rises(w)
    BY <1>3, <1>6 DEF Attach!Rises
  <1> QED
    BY <1>3, <1>5, <1>7 DEF w, s, o, l, Attach!bytesFrom

(* The answer to an attach begins with the grid.                            *)
LEMMA ReplayGrid ==
    ASSUME journal \in Nat
    PROVE  /\ Attach!replay \in Seq(DownMsg) /\ Attach!replay # <<>>
           /\ Attach!replay[1].t = "grid"
  <1>1. [t |-> "grid", offset |-> 0] \in DownMsg
    BY DEF DownMsg
  <1>2. [t |-> "frame", offset |-> 0, len |-> journal] \in DownMsg
    BY DEF DownMsg
  <1>3. CASE journal = 0
    <2>1. Attach!replay = <<[t |-> "grid", offset |-> 0]>> \o <<>>
      BY <1>3 DEF Attach!replay
    <2> QED
      BY <1>1, <2>1
  <1>4. CASE journal # 0
    <2>1. Attach!replay = <<[t |-> "grid", offset |-> 0]>>
                          \o <<[t |-> "frame", offset |-> 0, len |-> journal]>>
      BY <1>4 DEF Attach!replay
    <2> QED
      BY <1>1, <1>2, <2>1
  <1> QED
    BY <1>3, <1>4

LEMMA StepOut ==
    ASSUME OutInv, Attach!Next \/ UNCHANGED terminal
    PROVE  OutInv'
  <1>1. ASSUME UNCHANGED outVars PROVE OutInv'
    BY <1>1 DEF OutInv, outVars, Attach!Rises
  <1>2. CASE UNCHANGED terminal
    BY <1>1, <1>2 DEF terminal, outVars
  <1>3. CASE Attach!connect \/ Attach!onopen \/ Attach!supervisor
    BY <1>1, <1>3 DEF Attach!connect, Attach!onopen, Attach!supervisor, outVars
  <1>4. ASSUME NEW n \in 1..2, Attach!input(n) PROVE OutInv'
    BY <1>1, <1>4 DEF Attach!input, outVars
  <1>5. CASE Attach!onclose \/ Attach!close
    <2>1. /\ down' = <<>> /\ watched' = FALSE
          /\ UNCHANGED <<applied, journal, sawGrid, shown>>
      BY <1>5 DEF Attach!onclose, Attach!close
    <2>2. <<>> \in Seq(DownMsg)
      OBVIOUS
    <2> QED
      BY <2>1, <2>2 DEF OutInv, Attach!Rises
  <1>6. ASSUME NEW n \in 1..2, Attach!broadcastFrame(n) PROVE OutInv'
    <2>1. UNCHANGED <<applied, sawGrid, shown, watched>> /\ journal' = journal + n
      BY <1>6 DEF Attach!broadcastFrame
    <2> DEFINE m == [t |-> "frame", offset |-> journal, len |-> n]
    <2>2. m \in DownMsg /\ journal' \in Nat
      BY <1>6, <2>1 DEF DownMsg, OutInv
    <2>3. CASE ~watched
      <3>1. down' = down
        BY <1>6, <2>3 DEF Attach!broadcastFrame
      <3> QED
        BY <2>1, <2>2, <3>1 DEF OutInv, Attach!Rises
    <2>4. CASE watched
      <3>1. down' = Append(down, m)
        BY <1>6, <2>4 DEF Attach!broadcastFrame
      <3>2. down' \in Seq(DownMsg) /\ down' # <<>> /\ (down # <<>> => down'[1] = down[1])
        BY <2>2, <3>1 DEF OutInv
      <3> HIDE DEF m
      <3> QED
        BY <2>1, <2>2, <2>4, <3>2 DEF OutInv, Attach!Rises
    <2> QED
      BY <2>3, <2>4
  <1>7. CASE Attach!onClientMessage
    <2>1. UNCHANGED <<applied, journal, sawGrid, shown>>
      BY <1>7 DEF Attach!onClientMessage
    <2>2. CASE UNCHANGED <<watched, down>>
      BY <1>1, <2>1, <2>2 DEF outVars
    <2>3. CASE watched' = TRUE /\ down' = down \o Attach!replay
      <3>1. /\ Attach!replay \in Seq(DownMsg) /\ Attach!replay # <<>>
            /\ Attach!replay[1].t = "grid"
        BY ReplayGrid DEF OutInv
      <3>2. /\ down' \in Seq(DownMsg) /\ down' # <<>>
            /\ down'[1] = IF down = <<>> THEN Attach!replay[1] ELSE down[1]
        BY <2>3, <3>1 DEF OutInv
      <3> QED
        BY <2>1, <2>3, <3>1, <3>2 DEF OutInv, Attach!Rises
    <2> QED
      BY <1>7, <2>2, <2>3 DEF Attach!onClientMessage
  <1>8. CASE Attach!onMessage
    <2> DEFINE m == Head(down)
    <2>1. /\ down' = Tail(down) /\ down # <<>> /\ UNCHANGED <<watched, journal>>
          /\ \/ UNCHANGED <<sawGrid, applied, shown>> /\ (Attach!skipGrid(m) \/ Attach!skipFrame(m))
             \/ /\ m.t = "grid" /\ ~Attach!skipGrid(m)
                /\ sawGrid' = TRUE /\ applied' = m.offset /\ UNCHANGED shown
             \/ /\ m.t = "frame" /\ ~Attach!skipFrame(m)
                /\ applied' = m.offset + m.len
                /\ shown' = Attach!onFrame(m)
                /\ UNCHANGED sawGrid
      BY <1>8 DEF Attach!onMessage
    <2>2. down' \in Seq(DownMsg) /\ m \in DownMsg /\ m = down[1]
      BY <2>1 DEF OutInv
    <2>3. /\ m.t \in {"grid", "frame"} /\ m.offset \in Nat
          /\ m.t = "grid" => m.offset = 0
          /\ m.t = "frame" => m.len \in Nat
      BY <2>2 DEF DownMsg
    <2>4. ~sawGrid => m.t = "grid"
      BY <2>1, <2>2 DEF OutInv
    <2> HIDE DEF m
    <2>5. CASE UNCHANGED <<sawGrid, applied, shown>> /\ (Attach!skipGrid(m) \/ Attach!skipFrame(m))
      <3>1. sawGrid
        BY <2>4, <2>5 DEF Attach!skipGrid, Attach!skipFrame
      <3> QED
        BY <2>1, <2>2, <2>5, <3>1 DEF OutInv, Attach!Rises
    <2>6. CASE /\ m.t = "grid" /\ ~Attach!skipGrid(m)
               /\ sawGrid' = TRUE /\ applied' = m.offset /\ UNCHANGED shown
      <3>1. ~sawGrid
        BY <2>3, <2>6 DEF Attach!skipGrid, OutInv
      <3>2. shown = <<>>
        BY <3>1 DEF OutInv
      <3> QED
        BY <2>1, <2>2, <2>3, <2>6, <3>2 DEF OutInv, Attach!Rises
    <2>7. CASE /\ m.t = "frame" /\ ~Attach!skipFrame(m)
               /\ applied' = m.offset + m.len /\ shown' = Attach!onFrame(m)
               /\ UNCHANGED sawGrid
      <3>1. applied <= m.offset /\ m.len \in Nat
        BY <2>3, <2>7 DEF Attach!skipFrame, OutInv
      <3>2. /\ shown' \in Line /\ Attach!Rises(shown')
            /\ \A a \in 1..Len(shown') : shown'[a] < m.offset + m.len
        BY <2>3, <2>7, <3>1, FrameShown DEF OutInv, Attach!onFrame
      <3>3. applied' \in Nat
        BY <2>3, <2>7, <3>1
      <3>4. sawGrid /\ sawGrid'
        BY <2>4, <2>7
      <3>5. /\ journal' \in Nat /\ watched' \in BOOLEAN /\ sawGrid' \in BOOLEAN
        BY <2>1, <3>4, <2>7 DEF OutInv
      <3>6. \A a \in 1..Len(shown') : shown'[a] < applied'
        BY <2>7, <3>2
      <3> QED
        BY <2>2, <3>2, <3>3, <3>4, <3>5, <3>6 DEF OutInv, Attach!Rises
    <2> QED
      BY <2>1, <2>5, <2>6, <2>7
  <1> QED
    BY <1>2, <1>3, <1>4, <1>5, <1>6, <1>7, <1>8 DEF Attach!Next

-----------------------------------------------------------------------------
(* What is handed on: it rises, and what is on its way or kept follows it.  *)
UpMsg == [t : {"attach"}] \cup [t : {"input"}, bytes : Line]

bytesOf(m) == IF m.t = "input" THEN m.bytes ELSE <<>>
bytesIn(u) == [i \in 1..Len(u) |-> bytesOf(u[i])]

InInv == /\ typed \in Nat /\ attached \in BOOLEAN
         /\ up \in Seq(UpMsg) /\ queued \in Seq(Line) /\ given \in Line
         /\ IF ws = "open" THEN queued = <<>> ELSE up = <<>>
         /\ Attach!Rises(given)
         /\ Follows(given, bytesIn(up), typed)
         /\ Follows(given, queued, typed)

inVars == <<ws, up, queued, given, typed, attached>>

LEMMA BytesInUp ==
    ASSUME NEW u \in Seq(UpMsg)
    PROVE  /\ bytesIn(u) \in Seq(Line) /\ Len(bytesIn(u)) = Len(u)
           /\ \A i \in 1..Len(u) : bytesIn(u)[i] = bytesOf(u[i])
  <1>1. \A m \in UpMsg : bytesOf(m) \in Line
    BY DEF UpMsg, bytesOf, Line
  <1>2. \A i \in 1..Len(u) : bytesOf(u[i]) \in Line
    BY <1>1
  <1>3. Len(u) \in Nat
    OBVIOUS
  <1> QED
    BY <1>2, <1>3 DEF bytesIn

(* Nothing is on its way: what was given lies before what is typed next.    *)
LEMMA FollowsNone ==
    ASSUME NEW g, NEW q, NEW n, Follows(g, q, n)
    PROVE  Follows(g, <<>>, n) /\ Follows(g, bytesIn(<<>>), n)
  BY DEF Follows, bytesIn

(* Bytes that were not typed yet do not matter.                             *)
LEMMA FollowsLater ==
    ASSUME NEW g \in Line, NEW q \in Seq(Line), NEW n \in Nat, Follows(g, q, n),
           NEW k \in Nat, n <= k
    PROVE  Follows(g, q, k)
  <1>1. \A i \in 1..Len(q) : q[i] \in Line
    OBVIOUS
  <1>2. \A a \in 1..Len(g) : g[a] \in Nat /\ g[a] < n /\ g[a] < k
    BY DEF Line, Follows
  <1>3. \A i \in 1..Len(q) : \A a \in 1..Len(q[i]) : q[i][a] \in Nat /\ q[i][a] < n /\ q[i][a] < k
    BY <1>1 DEF Line, Follows
  <1> QED
    BY <1>2, <1>3 DEF Follows

(* The typed bytes, and the end of them that fits the queue.                *)
LEMMA TypedBytes ==
    ASSUME CapIsNatural, NEW n \in Nat, NEW k \in 1..2
    PROVE  LET b == Attach!bytesFrom(n, k)
               c == IF Len(b) > MaxQueued THEN SubSeq(b, Len(b) - MaxQueued + 1, Len(b)) ELSE b
           IN  /\ b \in Line /\ Attach!Rises(b) /\ \A a \in 1..Len(b) : n <= b[a] /\ b[a] < n + k
               /\ c \in Line /\ Attach!Rises(c) /\ \A a \in 1..Len(c) : n <= c[a] /\ c[a] < n + k
  <1> DEFINE b == [i \in 1..k |-> n + i - 1]
             d == Len(b) - MaxQueued
             c == IF Len(b) > MaxQueued THEN SubSeq(b, d + 1, Len(b)) ELSE b
  <1>1. /\ b \in Seq(Nat) /\ Len(b) = k /\ DOMAIN b = 1..k /\ k \in Nat
        /\ \A i \in 1..k : b[i] = n + i - 1
    OBVIOUS
  <1> HIDE DEF b
  <1>2. /\ Attach!Rises(b) /\ \A a \in 1..Len(b) : n <= b[a] /\ b[a] < n + k
    BY <1>1 DEF Attach!Rises
  <1>3. /\ c \in Line /\ Attach!Rises(c) /\ \A a \in 1..Len(c) : n <= c[a] /\ c[a] < n + k
    <2>1. CASE Len(b) > MaxQueued
      <3>1. d \in Nat /\ d <= Len(b) /\ c = SubSeq(b, d + 1, Len(b))
        BY <1>1, <2>1 DEF CapIsNatural
      <3> HIDE DEF d, c
      <3>2. c \in Seq(Nat) /\ Len(c) = Len(b) - d
        BY <1>1, <3>1
      <3>3. \A a \in 1..Len(c) : a + d \in 1..Len(b) /\ c[a] = b[a + d]
        BY <1>1, <3>1, <3>2
      <3>4. \A a \in 1..Len(c) : c[a] = n + (a + d) - 1
        BY <1>1, <3>3
      <3>5. DOMAIN c = 1..Len(c) /\ d \in Nat /\ Len(c) \in Nat
        BY <3>1, <3>2
      <3>6. ASSUME NEW i \in 1..Len(c), NEW j \in 1..Len(c), i < j PROVE c[i] < c[j]
        BY <3>4, <3>5, <3>6
      <3>7. Attach!Rises(c)
        BY <3>5, <3>6 DEF Attach!Rises
      <3>8. \A a \in 1..Len(c) : n <= c[a] /\ c[a] < n + k
        BY <1>2, <3>3
      <3> QED
        BY <3>2, <3>7, <3>8 DEF Line
    <2>2. CASE ~(Len(b) > MaxQueued)
      <3>1. c = b
        BY <2>2
      <3> HIDE DEF c
      <3> QED
        BY <1>1, <1>2, <3>1 DEF Line
    <2> QED
      BY <2>1, <2>2
  <1> QED
    BY <1>1, <1>2, <1>3 DEF b, c, d, Line, Attach!bytesFrom

(* What is typed while there is no socket is kept behind what was.          *)
LEMMA QueuedFollows ==
    ASSUME CapIsNatural, InInv, NEW k \in 1..2
    PROVE  LET q == Attach!queueInput(Attach!bytesFrom(typed, k))
           IN  q \in Seq(Line) /\ Follows(given, q, typed + k)
  <1> DEFINE b == Attach!bytesFrom(typed, k)
             c == IF Len(b) > MaxQueued THEN SubSeq(b, Len(b) - MaxQueued + 1, Len(b)) ELSE b
             q == Attach!queueInput(b)
  <1>1. c \in Line /\ Attach!Rises(c) /\ \A a \in 1..Len(c) : typed <= c[a] /\ c[a] < typed + k
    BY TypedBytes DEF InInv
  <1>2. q = IF MaxQueued = 0 THEN queued ELSE Attach!trimmed(Append(queued, c))
    BY DEF Attach!queueInput
  <1> HIDE DEF b, c, q
  <1>3. /\ typed \in Nat /\ typed + k \in Nat /\ typed <= typed + k
        /\ queued \in Seq(Line) /\ given \in Line /\ Follows(given, queued, typed)
    BY DEF InInv
  <1>4. q \in Seq(Line) /\ Follows(given, q, typed + k)
    <2>1. CASE MaxQueued = 0
      BY <1>2, <1>3, <2>1, FollowsLater
    <2>2. CASE MaxQueued # 0
      <3>1. Append(queued, c) \in Seq(Line) /\ Follows(given, Append(queued, c), typed + k)
        BY <1>1, <1>3, FollowsAppend
      <3>2. q = Attach!trimmed(Append(queued, c))
        BY <1>2, <2>2
      <3> QED
        BY <1>3, <3>1, <3>2, FollowsTrimmed
    <2> QED
      BY <2>1, <2>2
  <1> QED
    BY <1>4 DEF q, b

(* The kept input goes behind the attach.                                   *)
LEMMA FlushFollows ==
    ASSUME NEW q \in Seq(Line), NEW g \in Line, NEW n \in Nat, Follows(g, q, n), NEW u,
           u = <<[t |-> "attach"]>> \o [i \in DOMAIN q |-> [t |-> "input", bytes |-> q[i]]]
    PROVE  u \in Seq(UpMsg) /\ Follows(g, bytesIn(u), n)
  <1> DEFINE s == [i \in DOMAIN q |-> [t |-> "input", bytes |-> q[i]]]
             z == <<[t |-> "attach"]>>
             r == bytesIn(u)
  <1>1. Len(q) \in Nat /\ DOMAIN q = 1..Len(q) /\ \A i \in 1..Len(q) : q[i] \in Line
    OBVIOUS
  <1>2. /\ \A i \in 1..Len(q) : s[i] = [t |-> "input", bytes |-> q[i]] /\ s[i] \in UpMsg
        /\ s = [i \in 1..Len(q) |-> s[i]]
    BY <1>1 DEF UpMsg
  <1>3. z \in Seq(UpMsg) /\ Len(z) = 1 /\ z[1] = [t |-> "attach"]
    BY DEF UpMsg
  <1>4. u = z \o s
    OBVIOUS
  <1> HIDE DEF s, z
  <1>5. s \in Seq(UpMsg) /\ Len(s) = Len(q)
    BY <1>1, <1>2
  <1>6. /\ u \in Seq(UpMsg) /\ Len(u) = Len(q) + 1
        /\ u[1] = [t |-> "attach"] /\ \A i \in 1..Len(q) : u[i + 1] = s[i]
    <2>1. /\ u \in Seq(UpMsg) /\ Len(u) = Len(q) + 1
          /\ \A a \in 1..Len(u) : u[a] = IF a <= 1 THEN z[a] ELSE s[a - 1]
      <3>1. /\ z \o s \in Seq(UpMsg) /\ Len(z \o s) = Len(z) + Len(s)
            /\ \A a \in 1..Len(z \o s) : (z \o s)[a] = IF a <= Len(z) THEN z[a] ELSE s[a - Len(z)]
        <4>1. z \in Seq(UpMsg) /\ s \in Seq(UpMsg)
          BY <1>3, <1>5
        <4> QED
          BY ONLY <4>1, Concatenated, Zenon
      <3>2. /\ Len(u) = 1 + Len(q) /\ u \in Seq(UpMsg)
            /\ \A a \in 1..Len(u) : u[a] = IF a <= 1 THEN z[a] ELSE s[a - 1]
        BY <1>3, <1>4, <1>5, <3>1
      <3>3. 1 + Len(q) = Len(q) + 1
        BY <1>1
      <3> QED
        BY ONLY <3>2, <3>3
    <2>2. 1 \in 1..Len(u) /\ \A i \in 1..Len(q) : i + 1 \in 1..Len(u) /\ ~(i + 1 <= 1) /\ (i + 1) - 1 = i
      BY <1>1, <2>1
    <2>3. u[1] = [t |-> "attach"]
      BY <1>3, <2>1, <2>2
    <2>4. \A i \in 1..Len(q) : u[i + 1] = s[i]
      BY <2>1, <2>2
    <2> QED
      BY <2>1, <2>3, <2>4
  <1>7. /\ r \in Seq(Line) /\ Len(r) = Len(q) + 1
        /\ \A i \in 1..Len(u) : r[i] = bytesOf(u[i])
    BY <1>6, BytesInUp
  <1> HIDE DEF r
  <1>8. r[1] = <<>>
    <2>1. 1 \in 1..Len(u)
      BY <1>1, <1>6
    <2>2. bytesOf([t |-> "attach"]) = <<>>
      BY DEF bytesOf
    <2> QED
      BY <1>6, <1>7, <2>1, <2>2
  <1>9. \A i \in 2..Len(r) : i - 1 \in 1..Len(q) /\ r[i] = q[i - 1]
    <2>1. SUFFICES ASSUME NEW i \in 2..Len(r) PROVE i - 1 \in 1..Len(q) /\ r[i] = q[i - 1]
      OBVIOUS
    <2>2. i - 1 \in 1..Len(q) /\ i \in 1..Len(u) /\ u[(i - 1) + 1] = s[i - 1] /\ (i - 1) + 1 = i
      BY <1>1, <1>6, <1>7, <2>1
    <2>3. r[i] = bytesOf(s[i - 1])
      BY <1>7, <2>2
    <2> QED
      BY <1>2, <2>2, <2>3 DEF bytesOf
  <1>10. \A i \in 1..Len(r) : i = 1 \/ i \in 2..Len(r)
    BY <1>1, <1>7
  <1>11. \A x : Precedes(x, <<>>) /\ Precedes(<<>>, x)
    BY DEF Precedes
  <1>12. Attach!Rises(<<>>)
    BY DEF Attach!Rises
  <1>13. \A i \in 1..Len(r) : /\ Attach!Rises(r[i]) /\ Precedes(g, r[i])
                              /\ \A a \in 1..Len(r[i]) : r[i][a] < n
    <2>1. SUFFICES ASSUME NEW i \in 1..Len(r)
                   PROVE  /\ Attach!Rises(r[i]) /\ Precedes(g, r[i])
                          /\ \A a \in 1..Len(r[i]) : r[i][a] < n
      OBVIOUS
    <2>2. CASE i = 1
      <3>1. r[i] = <<>> /\ Len(r[i]) = 0
        BY <1>8, <2>2
      <3> QED
        BY <1>11, <1>12, <3>1
    <2>3. CASE i \in 2..Len(r)
      BY <1>9, <2>3 DEF Follows
    <2> QED
      BY <1>10, <2>2, <2>3
  <1>14. ASSUME NEW i \in 1..Len(r), NEW j \in 1..Len(r), i < j PROVE Precedes(r[i], r[j])
    <2>1. CASE i = 1
      BY <1>8, <1>11, <2>1
    <2>2. CASE i \in 2..Len(r)
      <3>1. j \in 2..Len(r) /\ i - 1 < j - 1
        BY <1>7, <1>1, <1>14, <2>2
      <3> QED
        BY <1>9, <2>2, <3>1 DEF Follows
    <2> QED
      BY <1>10, <2>1, <2>2
  <1>15. Follows(g, r, n)
    BY <1>13, <1>14 DEF Follows
  <1> QED
    BY <1>6, <1>15 DEF r

LEMMA StepIn ==
    ASSUME CapIsNatural, InInv, Attach!Next \/ UNCHANGED terminal
    PROVE  InInv'
  <1>t. /\ typed \in Nat /\ attached \in BOOLEAN
        /\ up \in Seq(UpMsg) /\ queued \in Seq(Line) /\ given \in Line
        /\ ws = "open" => queued = <<>>
        /\ ws # "open" => up = <<>>
        /\ Attach!Rises(given)
        /\ Follows(given, bytesIn(up), typed)
        /\ Follows(given, queued, typed)
    BY DEF InInv
  <1>e. <<>> \in Seq(UpMsg) /\ <<>> \in Seq(Line)
    OBVIOUS
  <1>p. ASSUME /\ typed' \in Nat /\ attached' \in BOOLEAN
               /\ up' \in Seq(UpMsg) /\ queued' \in Seq(Line) /\ given' \in Line
               /\ ws' = "open" => queued' = <<>>
               /\ ws' # "open" => up' = <<>>
               /\ Attach!Rises(given')
               /\ Follows(given', bytesIn(up'), typed')
               /\ Follows(given', queued', typed')
        PROVE  InInv'
    BY <1>p DEF InInv, Attach!Rises, Follows, Precedes, bytesIn, bytesOf
  <1>1. ASSUME UNCHANGED inVars PROVE InInv'
    BY <1>t, <1>p, <1>1 DEF inVars
  <1>2. CASE UNCHANGED terminal
    BY <1>1, <1>2 DEF terminal, inVars
  <1>3. CASE Attach!onMessage
    BY <1>1, <1>3 DEF Attach!onMessage, inVars
  <1>4. ASSUME NEW n \in 1..2, Attach!broadcastFrame(n) PROVE InInv'
    BY <1>1, <1>4 DEF Attach!broadcastFrame, inVars
  <1>5. CASE Attach!supervisor
    <2>1. UNCHANGED <<ws, up, queued, given, typed>> /\ attached' \in BOOLEAN
      BY <1>5 DEF Attach!supervisor
    <2> QED
      BY <1>t, <1>p, <2>1
  <1>6. CASE Attach!connect
    <2>1. ws # "open" /\ ws' # "open" /\ UNCHANGED <<up, queued, given, typed, attached>>
      BY <1>6 DEF Attach!connect
    <2> QED
      BY <1>t, <1>p, <2>1
  <1>7. CASE Attach!onopen
    <2>1. /\ ws = "connecting" /\ ws' = "open" /\ queued' = <<>>
          /\ up' = <<[t |-> "attach"]>> \o [i \in DOMAIN queued |-> [t |-> "input", bytes |-> queued[i]]]
          /\ UNCHANGED <<given, typed, attached>>
      BY <1>7 DEF Attach!onopen, Attach!flushQueuedInput
    <2>2. up' \in Seq(UpMsg) /\ Follows(given, bytesIn(up'), typed)
      BY <1>t, <2>1, FlushFollows
    <2>3. Follows(given, queued', typed)
      BY <1>t, <2>1, FollowsNone
    <2> QED
      BY <1>t, <1>p, <1>e, <2>1, <2>2, <2>3
  <1>8. CASE Attach!onclose
    <2>1. ws' = "none" /\ up' = <<>> /\ UNCHANGED <<queued, given, typed, attached>>
      BY <1>8 DEF Attach!onclose
    <2>2. Follows(given, bytesIn(up'), typed)
      BY <1>t, <2>1, FollowsNone
    <2> QED
      BY <1>t, <1>p, <1>e, <2>1, <2>2
  <1>9. CASE Attach!close
    <2>1. ws' = "none" /\ up' = <<>> /\ queued' = <<>> /\ UNCHANGED <<given, typed, attached>>
      BY <1>9 DEF Attach!close
    <2>2. Follows(given, bytesIn(up'), typed) /\ Follows(given, queued', typed)
      BY <1>t, <2>1, FollowsNone
    <2> QED
      BY <1>t, <1>p, <1>e, <2>1, <2>2
  <1>10. ASSUME NEW n \in 1..2, Attach!input(n) PROVE InInv'
    <2> DEFINE b == Attach!bytesFrom(typed, n)
    <2>1. /\ typed' = typed + n /\ UNCHANGED <<ws, given, attached>>
          /\ \/ ws = "open" /\ up' = Append(up, [t |-> "input", bytes |-> b]) /\ UNCHANGED queued
             \/ ws # "open" /\ queued' = Attach!queueInput(b) /\ UNCHANGED up
      BY <1>10 DEF Attach!input, Attach!Open
    <2>2. typed' \in Nat /\ typed <= typed'
      BY <1>t, <1>10, <2>1
    <2>3. CASE ws = "open" /\ up' = Append(up, [t |-> "input", bytes |-> b]) /\ UNCHANGED queued
      <3>1. b \in Line /\ Attach!Rises(b) /\ \A a \in 1..Len(b) : typed <= b[a] /\ b[a] < typed + n
        BY <1>t, <1>10, TypedBytes
      <3> HIDE DEF b
      <3> DEFINE m == [t |-> "input", bytes |-> b]
      <3>2. m \in UpMsg /\ bytesOf(m) = b
        BY <3>1 DEF UpMsg, bytesOf
      <3> HIDE DEF m
      <3>3. /\ up' \in Seq(UpMsg) /\ Len(up') = Len(up) + 1 /\ up'[Len(up) + 1] = m
            /\ \A i \in 1..Len(up) : up'[i] = up[i]
        BY <1>t, <2>3, <3>2 DEF m
      <3>4. /\ bytesIn(up) \in Seq(Line) /\ Len(bytesIn(up)) = Len(up)
            /\ \A i \in 1..Len(up) : bytesIn(up)[i] = bytesOf(up[i])
        BY <1>t, BytesInUp
      <3>5. bytesIn(up') = Append(bytesIn(up), b)
        <4>1. /\ bytesIn(up') \in Seq(Line) /\ Len(bytesIn(up')) = Len(up')
              /\ \A i \in 1..Len(up') : bytesIn(up')[i] = bytesOf(up'[i])
          BY <3>3, BytesInUp
        <4> DEFINE x == bytesIn(up')
                   y == bytesIn(up)
        <4>2. Len(up) \in Nat
          BY <1>t
        <4> HIDE DEF x, y
        <4>3. /\ x \in Seq(Line) /\ y \in Seq(Line) /\ Len(x) = Len(y) + 1 /\ x[Len(y) + 1] = b
              /\ \A i \in 1..Len(y) : x[i] = y[i]
          BY <3>2, <3>3, <3>4, <4>1, <4>2 DEF x, y
        <4>4. x = Append(y, b)
          BY <3>1, <4>3
        <4> QED
          BY <4>4 DEF x, y
      <3>6. Follows(given, bytesIn(up'), typed')
        BY <1>t, <2>1, <2>2, <3>1, <3>4, <3>5, FollowsAppend
      <3>7. Follows(given, queued, typed')
        BY <1>t, <2>2, FollowsLater
      <3> QED
        BY <1>t, <1>p, <2>1, <2>2, <2>3, <3>3, <3>6, <3>7
    <2>4. CASE ws # "open" /\ queued' = Attach!queueInput(b) /\ UNCHANGED up
      <3>1. queued' \in Seq(Line) /\ Follows(given, queued', typed')
        BY <1>10, <2>1, <2>4, QueuedFollows
      <3>2. bytesIn(up) \in Seq(Line)
        BY <1>t, BytesInUp
      <3>3. Follows(given, bytesIn(up), typed')
        BY <1>t, <2>2, <3>2, FollowsLater
      <3> HIDE DEF b
      <3> QED
        BY <1>t, <1>p, <2>1, <2>2, <2>4, <3>1, <3>3
    <2> QED
      BY <2>1, <2>3, <2>4
  <1>11. CASE Attach!onClientMessage
    <2> DEFINE m == Head(up)
               y == bytesIn(up)
    <2>1. /\ up # <<>> /\ up' = Tail(up) /\ UNCHANGED <<ws, queued, typed, attached>>
          /\ \/ m.t = "attach" /\ UNCHANGED given
             \/ m.t = "input" /\ given' = IF attached THEN given \o m.bytes ELSE given
      BY <1>11 DEF Attach!onClientMessage
    <2>2. /\ y \in Seq(Line) /\ Len(y) = Len(up) /\ \A i \in 1..Len(up) : y[i] = bytesOf(up[i])
      BY <1>t, BytesInUp
    <2>3. up' \in Seq(UpMsg) /\ Len(up') = Len(up) - 1 /\ \A i \in 1..Len(up') : up'[i] = up[i + 1]
      BY <1>t, <2>1
    <2>4. y # <<>> /\ Head(y) = bytesOf(m)
      <3>1. Len(up) \in Nat \ {0} /\ m = up[1]
        BY <1>t, <2>1
      <3> HIDE DEF y, m
      <3> QED
        BY <2>2, <3>1
    <2>5. bytesIn(up') = Tail(y)
      <3>1. /\ bytesIn(up') \in Seq(Line) /\ Len(bytesIn(up')) = Len(up')
            /\ \A i \in 1..Len(up') : bytesIn(up')[i] = bytesOf(up'[i])
        BY <2>3, BytesInUp
      <3> DEFINE x == bytesIn(up')
      <3>2. Len(up) \in Nat \ {0}
        BY <1>t, <2>1
      <3> HIDE DEF x, y
      <3>3. /\ x \in Seq(Line) /\ y \in Seq(Line) /\ Len(x) = Len(y) - 1 /\ y # <<>>
            /\ \A i \in 1..Len(x) : x[i] = y[i + 1]
        BY <2>2, <2>3, <2>4, <3>1, <3>2 DEF x
      <3>4. x = Tail(y)
        BY <3>3
      <3> QED
        BY <3>4 DEF x
    <2> HIDE DEF y
    <2>6. /\ Follows(given, Tail(y), typed) /\ Follows(given \o Head(y), Tail(y), typed)
          /\ given \o Head(y) \in Line /\ Attach!Rises(given \o Head(y))
      BY <1>t, <2>2, <2>4, FollowsTail DEF y
    <2>7. given' \in {given, given \o Head(y)}
      BY <2>1, <2>4 DEF bytesOf
    <2>8. queued = <<>>
      BY <1>t, <2>1
    <2>9. /\ given' \in Line /\ Follows(given', bytesIn(up'), typed)
          /\ Attach!Rises(given')
      <3>1. CASE given' = given
        BY <1>t, <2>5, <2>6, <3>1
      <3>2. CASE given' = given \o Head(y)
        BY <2>5, <2>6, <3>2
      <3> QED
        BY <2>7, <3>1, <3>2
    <2>10. Follows(given', queued', typed)
      BY <2>1, <2>8, <2>9, FollowsNone
    <2>11. ws' = "open"
      BY <1>t, <2>1
    <2> QED
      BY <1>t, <1>p, <2>1, <2>3, <2>8, <2>9, <2>10, <2>11
  <1> QED
    BY <1>2, <1>3, <1>4, <1>5, <1>6, <1>7, <1>8, <1>9, <1>10, <1>11 DEF Attach!Next

(* Output is shown and input handed on once and in order, however often the *)
(* socket is lost between (computer-do.ts, ws/attach.ts).                   *)
THEOREM OnceInOrderAlways ==
    ASSUME CapIsNatural
    PROVE  Spec => []OnceInOrder
  <1> DEFINE TermInv == focus = "terminal" => OutInv /\ InInv
  <1>1. Init => TermInv
    <2>1. SUFFICES ASSUME Init, focus = "terminal" PROVE OutInv /\ InInv
      OBVIOUS
    <2>2. Attach!Init
      BY <2>1 DEF Init
    <2>3. OutInv
      <3>1. /\ applied = 0 /\ journal = 0 /\ sawGrid = FALSE /\ watched = FALSE
            /\ down = <<>> /\ shown = <<>>
        BY <2>2 DEF Attach!Init
      <3>2. <<>> \in Seq(DownMsg) /\ <<>> \in Line /\ Len(<<>>) = 0
        BY DEF Line
      <3>3. /\ applied \in Nat /\ journal \in Nat /\ sawGrid \in BOOLEAN /\ watched \in BOOLEAN
            /\ ~watched
        BY <3>1
      <3>4. Attach!Rises(shown) /\ \A a \in 1..Len(shown) : shown[a] < applied
        BY <3>1, <3>2 DEF Attach!Rises
      <3> QED
        BY <3>1, <3>2, <3>3, <3>4 DEF OutInv
    <2>4. InInv
      BY <2>2 DEF Attach!Init, InInv, Attach!Rises, Follows, bytesIn, Line
    <2> QED
      BY <2>3, <2>4
  <1>2. TermInv /\ [Next]_vars => TermInv'
    <2>1. SUFFICES ASSUME TermInv, [Next]_vars, focus' = "terminal" PROVE OutInv' /\ InInv'
      OBVIOUS
    <2>2. focus = "terminal" /\ (Attach!Next \/ UNCHANGED terminal)
      BY <2>1, FocusStays
    <2> QED
      BY <2>1, <2>2, StepOut, StepIn
  <1>3. TermInv => OnceInOrder
    BY DEF OnceInOrder, Attach!OnceInOrder, OutInv, InInv
  <1> QED
    BY <1>1, <1>2, <1>3, PTL DEF Spec

-----------------------------------------------------------------------------
(* The wire's values.  What a field's guard takes is no wider than a number *)
(* holds, so that neither coding changes what is taken.                     *)

FieldTypes == {"str", "str?", "bytes", "bool", "enum", "u16", "u32", "u64", "i32", "i32?"}
WireValue == [t : {"int", "str", "known", "bytes", "bool", "null", "absent", "fraction",
                   "refused"}, n : Int]
OnWire(m) == \E tag, field, type, value :
               /\ m = [tag |-> tag, field |-> field, type |-> type, value |-> value]
               /\ type \in FieldTypes /\ value \in WireValue
WellTyped(S) == \A s \in S : s.type \in FieldTypes

LEMMA SummaryTypes == \A tag : WellTyped(Channel!diffSummary(tag))
  BY DEF Channel!Shape, Channel!diffSummary, FieldTypes, WellTyped

LEMMA SupervisorTypes == WellTyped(Channel!supervisorMessage)
  <1> USE DEF Channel!Shape, FieldTypes, WellTyped
  <1>1. WellTyped(Channel!Shape("journal_frame", [run |-> "str", offset |-> "u64", bytes |-> "bytes"]))
    OBVIOUS
  <1>2. WellTyped(Channel!Shape("run_heartbeat", [run |-> "str"]))
    OBVIOUS
  <1>3. WellTyped(Channel!Shape("hello", [computer |-> "str", epoch |-> "u64", token |-> "str",
                                          proto_version |-> "u32"]))
    OBVIOUS
  <1>4. WellTyped(Channel!Shape("run_started", [run |-> "str", pre_run_manifest |-> "str"]))
    OBVIOUS
  <1>5. WellTyped(Channel!Shape("run_completed", [run |-> "str", exit |-> "enum", code |-> "i32",
                                                  signal |-> "i32", post_run_manifest |-> "str"]))
    OBVIOUS
  <1>6. WellTyped(Channel!Shape("snapshot_written", [manifest |-> "str", epoch |-> "u64",
                                                     reason |-> "enum"]))
    OBVIOUS
  <1>7. WellTyped(Channel!Shape("head_advance_request", [manifest |-> "str", epoch |-> "u64"]))
    OBVIOUS
  <1>8. WellTyped(Channel!Shape("attention", [run |-> "str", kind |-> "enum"]))
    OBVIOUS
  <1>9. WellTyped(Channel!Shape("rollback_detected",
                    [disk_manifest |-> "str", recorded_manifest |-> "str?", run |-> "str",
                     control_offset |-> "u64", disk_offset |-> "u64", replayed |-> "bool"]))
    OBVIOUS
  <1>10. /\ WellTyped(Channel!diffSummary("run_completed"))
         /\ WellTyped(Channel!diffSummary("rollback_detected"))
    BY SummaryTypes
  <1> QED
    BY <1>1, <1>2, <1>3, <1>4, <1>5, <1>6, <1>7, <1>8, <1>9, <1>10
    DEF Channel!supervisorMessage

LEMMA ControlTypes == WellTyped(Channel!controlMessage)
  <1> USE DEF Channel!Shape, FieldTypes, WellTyped
  <1>1. WellTyped(Channel!Shape("journal_ack", [run |-> "str", offset |-> "u64"]))
    OBVIOUS
  <1>2. WellTyped(Channel!Shape("input", [run |-> "str", bytes |-> "bytes"]))
    OBVIOUS
  <1>3. WellTyped(Channel!Shape("resize", [run |-> "str", cols |-> "u16", rows |-> "u16"]))
    OBVIOUS
  <1>4. WellTyped(Channel!Shape("hello_ack", [run |-> "str", offset |-> "u64"]))
    OBVIOUS
  <1>5. WellTyped(Channel!Shape("start_run", [run |-> "str", argv |-> "str", env_names |-> "str",
                                              cwd |-> "str"]))
    OBVIOUS
  <1>6. WellTyped(Channel!Shape("stop_run", [run |-> "str"]))
    OBVIOUS
  <1>7. WellTyped(Channel!Shape("snapshot_now", [reason |-> "enum"]))
    OBVIOUS
  <1>8. WellTyped(Channel!Shape("head_advance_result", [accepted |-> "bool",
                                                        current_epoch |-> "u64"]))
    OBVIOUS
  <1>9. WellTyped(Channel!Shape("restore_to_manifest", [manifest |-> "str"]))
    OBVIOUS
  <1> QED
    BY <1>1, <1>2, <1>3, <1>4, <1>5, <1>6, <1>7, <1>8, <1>9 DEF Channel!controlMessage

LEMMA BrowserTypes == WellTyped(Channel!clientToDo) /\ WellTyped(Channel!doToClient)
  <1> USE DEF Channel!Shape, FieldTypes, WellTyped
  <1>1. WellTyped(Channel!Shape("input", [run |-> "str", bytes |-> "bytes"]))
    OBVIOUS
  <1>2. WellTyped(Channel!Shape("attach", [run |-> "str", cols |-> "u16", rows |-> "u16"]))
    OBVIOUS
  <1>3. WellTyped(Channel!Shape("resize", [run |-> "str", cols |-> "u16", rows |-> "u16"]))
    OBVIOUS
  <1>4. WellTyped(Channel!Shape("detach", [run |-> "str"]))
    OBVIOUS
  <1>5. WellTyped(Channel!Shape("frame", [run |-> "str", offset |-> "u64", bytes |-> "bytes"]))
    OBVIOUS
  <1>6. WellTyped(Channel!Shape("grid",
                    [run |-> "str", baseOffset |-> "u64", cols |-> "u16", rows |-> "u16",
                     cursorCol |-> "u16", cursorRow |-> "u16", cursorVisible |-> "bool",
                     ch |-> "str", attrs |-> "u32"]))
    OBVIOUS
  <1>7. WellTyped(Channel!Shape("run_status", [run |-> "str", alive |-> "bool",
                                               exitCode |-> "i32?"]))
    OBVIOUS
  <1>8. WellTyped(Channel!clientToDo)
    BY <1>1, <1>2, <1>3, <1>4 DEF Channel!clientToDo
  <1>9. WellTyped(Channel!doToClient)
    BY <1>5, <1>6, <1>7 DEF Channel!doToClient
  <1> QED
    BY <1>8, <1>9

LEMMA WideIsRefused ==
    ASSUME Channel!WidthsAreOrdered, NEW type \in FieldTypes, NEW v \in WireValue
    PROVE  /\ v.t = "int" /\ v.n > MAX_SAFE => ~Channel!guard(type, v)
           /\ v.t = "refused" => ~Channel!guard(type, v)
           /\ v.t = "int" /\ v.n <= MAX_SAFE /\ type = "u64" =>
                (Channel!guard(type, v) <=> v.n >= 0)
           /\ v.t # "int" /\ type = "u64" => ~Channel!guard(type, v)
  <1> DEFINE half == U32_MAX \div 2
  <1>1. U16_MAX \in Nat /\ U32_MAX \in Nat /\ MAX_SAFE \in Nat
        /\ U16_MAX <= MAX_SAFE /\ U32_MAX <= MAX_SAFE /\ half \in Nat /\ half <= MAX_SAFE
    BY DEF Channel!WidthsAreOrdered
  <1> HIDE DEF half
  <1>2. v.n \in Int
    BY DEF WireValue
  <1> QED
    BY <1>1, <1>2 DEF Channel!guard, Channel!within, FieldTypes, half

LEMMA OutcomeIs ==
    ASSUME Channel!WidthsAreOrdered, NEW m, OnWire(m), route \in {"up", "down", "client", "view"}
    PROVE  Channel!outcome(m) = Channel!accepted(m)
  <1> DEFINE v == m.value
             dec == [m EXCEPT !.value = Channel!decodeCbor(@)]
             enc == [m EXCEPT !.value = Channel!encodeCbor(@)]
             wide == v.t = "int" /\ v.n > MAX_SAFE
  <1> PICK tag, field, type, value :
             /\ m = [tag |-> tag, field |-> field, type |-> type, value |-> value]
             /\ type \in FieldTypes /\ value \in WireValue
    BY DEF OnWire
  <1>1. /\ v \in WireValue /\ m.type \in FieldTypes /\ v.n \in Int
        /\ MAX_SAFE \in Nat
    BY DEF WireValue, Channel!WidthsAreOrdered
  <1>2. CASE wide
    <2>1. /\ Channel!decodeCbor(v) \in WireValue /\ Channel!decodeCbor(v).t = "int"
          /\ Channel!decodeCbor(v).n > MAX_SAFE
      <3>1. v.n - ((v.n - MAX_SAFE - 1) % 2) \in Int /\ v.n - ((v.n - MAX_SAFE - 1) % 2) > MAX_SAFE
        BY <1>1, <1>2
      <3>2. Channel!decodeCbor(v) = [v EXCEPT !.n = v.n - ((v.n - MAX_SAFE - 1) % 2)]
        BY <1>2 DEF Channel!decodeCbor
      <3> QED
        BY <1>1, <1>2, <3>1, <3>2 DEF WireValue
    <2>2. Channel!encodeCbor(v) \in WireValue /\ Channel!encodeCbor(v).t = "refused"
      BY <1>1, <1>2 DEF Channel!encodeCbor, WireValue
    <2>3. ~Channel!validate(m)
      BY <1>1, <1>2, WideIsRefused DEF Channel!validate
    <2>4. dec.type = m.type /\ dec.value = Channel!decodeCbor(v) /\ enc.type = m.type
          /\ enc.value = Channel!encodeCbor(v)
      OBVIOUS
    <2>5. ~Channel!validate(dec) /\ ~Channel!validate(enc)
      BY <1>1, <2>1, <2>2, <2>4, WideIsRefused DEF Channel!validate
    <2>6. ~Channel!rustTakes(enc)
      BY <1>1, <2>2, <2>4, WideIsRefused DEF Channel!rustTakes
    <2> HIDE DEF dec, enc
    <2> QED
      BY <2>3, <2>5, <2>6 DEF Channel!outcome, Channel!accepted, dec, enc
  <1>3. CASE ~wide
    <2>1. Channel!decodeCbor(v) = v /\ Channel!encodeCbor(v) = v
      BY <1>3 DEF Channel!decodeCbor, Channel!encodeCbor
    <2>2. dec = m /\ enc = m
      BY <2>1
    <2>3. Channel!validate(m) <=> Channel!rustTakes(m)
      BY <1>1, <1>3, WideIsRefused DEF Channel!validate, Channel!rustTakes
    <2> HIDE DEF dec, enc
    <2>4. Channel!outcome(m) = IF Channel!validate(m) THEN <<m>> ELSE <<>>
      <3>1. CASE route = "up"
        BY <2>2, <3>1 DEF Channel!outcome, dec, enc
      <3>2. CASE route = "down"
        BY <2>2, <2>3, <3>2 DEF Channel!outcome, dec, enc
      <3>3. CASE route = "client"
        BY <2>2, <2>3, <3>3 DEF Channel!outcome, dec, enc
      <3>4. CASE route = "view"
        BY <2>2, <3>4 DEF Channel!outcome, dec, enc
      <3> QED
        BY <3>1, <3>2, <3>3, <3>4
    <2> QED
      BY <2>4 DEF Channel!accepted
  <1> QED
    BY <1>2, <1>3

-----------------------------------------------------------------------------
(* The stream.  What has been pushed and what has not make up the frames    *)
(* that were not taken yet, wherever it is cut.                             *)

Cat(x, y) == x \o y
Taken(y, n) == SubSeq(y, 1, n)
Past(y, n) == SubSeq(y, n + 1, Len(y))

LEMMA CatIs ==
    ASSUME NEW T, NEW x \in Seq(T), NEW y \in Seq(T)
    PROVE  /\ Cat(x, y) \in Seq(T) /\ Len(Cat(x, y)) = Len(x) + Len(y)
           /\ Len(x) \in Nat /\ Len(y) \in Nat
           /\ \A a \in 1..(Len(x) + Len(y)) : Cat(x, y)[a] = IF a <= Len(x) THEN x[a] ELSE y[a - Len(x)]
  BY Concatenated DEF Cat

LEMMA PiecesAre ==
    ASSUME NEW T, NEW y \in Seq(T), NEW n \in 0..Len(y)
    PROVE  /\ Taken(y, n) \in Seq(T) /\ Len(Taken(y, n)) = n
           /\ \A a \in 1..n : Taken(y, n)[a] = y[a]
           /\ Past(y, n) \in Seq(T) /\ Len(Past(y, n)) = Len(y) - n
           /\ \A a \in 1..(Len(y) - n) : Past(y, n)[a] = y[n + a]
  <1>1. /\ Taken(y, n) \in Seq(T) /\ Len(Taken(y, n)) = n
        /\ \A a \in 1..n : Taken(y, n)[a] = y[a]
    BY DEF Taken
  <1>2. /\ Past(y, n) \in Seq(T) /\ Len(Past(y, n)) = Len(y) - n
        /\ \A a \in 1..(Len(y) - n) : Past(y, n)[a] = y[n + a]
    BY DEF Past
  <1> QED
    BY ONLY <1>1, <1>2

LEMMA CutElsewhere ==
    ASSUME NEW T, NEW x \in Seq(T), NEW y \in Seq(T), NEW n \in 1..Len(y)
    PROVE  /\ Cat(x, Taken(y, n)) \in Seq(T) /\ Past(y, n) \in Seq(T)
           /\ Cat(Cat(x, Taken(y, n)), Past(y, n)) = Cat(x, y)
  <1> DEFINE p == Taken(y, n)
             q == Past(y, n)
             u == Cat(x, p)
             v == Cat(u, q)
             w == Cat(x, y)
  <1>1. /\ Len(y) \in Nat /\ n \in 0..Len(y) /\ n <= Len(y)
    OBVIOUS
  <1>2. /\ p \in Seq(T) /\ Len(p) = n /\ \A a \in 1..n : p[a] = y[a]
        /\ q \in Seq(T) /\ Len(q) = Len(y) - n /\ \A a \in 1..(Len(y) - n) : q[a] = y[n + a]
    <2>1. y \in Seq(T) /\ n \in 0..Len(y)
      BY <1>1
    <2> QED
      BY ONLY <2>1, PiecesAre
  <1> HIDE DEF p, q
  <1>3. /\ u \in Seq(T) /\ Len(u) = Len(x) + n /\ Len(x) \in Nat
        /\ \A a \in 1..(Len(x) + n) : u[a] = IF a <= Len(x) THEN x[a] ELSE p[a - Len(x)]
    BY <1>2, CatIs
  <1> HIDE DEF u
  <1>4. /\ v \in Seq(T) /\ Len(v) = Len(u) + Len(q)
        /\ \A a \in 1..(Len(u) + Len(q)) : v[a] = IF a <= Len(u) THEN u[a] ELSE q[a - Len(u)]
    <2>1. q \in Seq(T) /\ u \in Seq(T)
      BY <1>2, <1>3
    <2> QED
      BY ONLY <2>1, CatIs
  <1>5. /\ w \in Seq(T) /\ Len(w) = Len(x) + Len(y)
        /\ \A a \in 1..(Len(x) + Len(y)) : w[a] = IF a <= Len(x) THEN x[a] ELSE y[a - Len(x)]
    BY CatIs
  <1> HIDE DEF v, w
  <1>6. Len(v) = Len(w)
    BY <1>1, <1>2, <1>3, <1>4, <1>5
  <1>7. ASSUME NEW a \in 1..Len(v) PROVE v[a] = w[a]
    <2>1. a \in Nat /\ a \in 1..(Len(x) + Len(y)) /\ Len(u) + Len(q) = Len(x) + Len(y)
      BY <1>1, <1>2, <1>3, <1>4
    <2>2. CASE a <= Len(x)
      BY <1>1, <1>3, <1>4, <1>5, <2>1, <2>2
    <2>3. CASE a > Len(x) /\ a <= Len(x) + n
      <3>1. a - Len(x) \in 1..n /\ ~(a <= Len(x)) /\ a \in 1..(Len(x) + n)
        BY <1>1, <1>3, <2>1, <2>3
      <3>2. v[a] = u[a] /\ u[a] = p[a - Len(x)] /\ w[a] = y[a - Len(x)]
        BY <1>3, <1>4, <1>5, <2>1, <2>3, <3>1
      <3> QED
        BY <1>2, <3>1, <3>2
    <2>4. CASE a > Len(x) + n
      <3>1. /\ a - (Len(x) + n) \in 1..(Len(y) - n) /\ ~(a <= Len(x)) /\ ~(a <= Len(u))
            /\ n + (a - (Len(x) + n)) = a - Len(x) /\ a - Len(u) = a - (Len(x) + n)
        BY <1>1, <1>3, <2>1, <2>4
      <3>2. v[a] = q[a - (Len(x) + n)] /\ w[a] = y[a - Len(x)]
        BY <1>4, <1>5, <2>1, <3>1
      <3> QED
        BY <1>2, <3>1, <3>2
    <2> QED
      BY <1>1, <1>3, <2>1, <2>2, <2>3, <2>4
  <1>8. v = w
    BY <1>4, <1>5, <1>6, <1>7, SeqEqual
  <1> QED
    BY <1>2, <1>3, <1>8 DEF p, q, u, v, w

LEMMA FirstPiece ==
    ASSUME NEW T, NEW x \in Seq(T), NEW y \in Seq(T), NEW f \in Seq(T), NEW r \in Seq(T),
           x \o y = f \o r
    PROVE  \A a \in 1..Len(x) : a <= Len(f) => x[a] = f[a]
  <1>1. /\ Len(x) \in Nat /\ Len(y) \in Nat /\ Len(f) \in Nat /\ Len(r) \in Nat
        /\ \A a \in 1..(Len(x) + Len(y)) : a <= Len(x) => (x \o y)[a] = x[a]
        /\ \A a \in 1..(Len(f) + Len(r)) : a <= Len(f) => (f \o r)[a] = f[a]
    OBVIOUS
  <1>2. SUFFICES ASSUME NEW a \in 1..Len(x), a <= Len(f) PROVE x[a] = f[a]
    OBVIOUS
  <1>3. a \in 1..(Len(x) + Len(y)) /\ a \in 1..(Len(f) + Len(r))
    BY <1>1, <1>2
  <1> QED
    BY <1>1, <1>2, <1>3

(* What is left of the pushed once the first piece is taken.                *)
LEMMA Peeled ==
    ASSUME NEW T, NEW x \in Seq(T), NEW y \in Seq(T), NEW f \in Seq(T), NEW r \in Seq(T),
           Cat(x, y) = Cat(f, r), Len(f) <= Len(x)
    PROVE  Past(x, Len(f)) \in Seq(T) /\ Cat(Past(x, Len(f)), y) = r
  <1> DEFINE s == Cat(x, y)
             z == Past(x, Len(f))
             w == Cat(z, y)
  <1>1. /\ Len(x) \in Nat /\ Len(y) \in Nat /\ Len(f) \in Nat /\ Len(r) \in Nat
        /\ Len(s) = Len(x) + Len(y) /\ Len(s) = Len(f) + Len(r)
        /\ \A a \in 1..Len(s) : s[a] = IF a <= Len(x) THEN x[a] ELSE y[a - Len(x)]
        /\ \A a \in 1..Len(s) : s[a] = IF a <= Len(f) THEN f[a] ELSE r[a - Len(f)]
    <2>1. /\ Len(s) = Len(x) + Len(y) /\ Len(x) \in Nat /\ Len(y) \in Nat
          /\ \A a \in 1..(Len(x) + Len(y)) : s[a] = IF a <= Len(x) THEN x[a] ELSE y[a - Len(x)]
      BY CatIs
    <2>2. s = Cat(f, r)
      OBVIOUS
    <2> HIDE DEF s
    <2>3. /\ Len(s) = Len(f) + Len(r) /\ Len(f) \in Nat /\ Len(r) \in Nat
          /\ \A a \in 1..(Len(f) + Len(r)) : s[a] = IF a <= Len(f) THEN f[a] ELSE r[a - Len(f)]
      BY <2>2, CatIs
    <2> QED
      BY ONLY <2>1, <2>3
  <1>0. y \in Seq(T)
    OBVIOUS
  <1>2. Len(f) \in 0..Len(x)
    BY <1>1
  <1>3. /\ z \in Seq(T) /\ Len(z) = Len(x) - Len(f)
        /\ \A a \in 1..(Len(x) - Len(f)) : z[a] = x[Len(f) + a]
    BY <1>2, PiecesAre
  <1> HIDE DEF s, z
  <1>4. /\ w \in Seq(T) /\ Len(w) = Len(z) + Len(y)
        /\ \A a \in 1..(Len(z) + Len(y)) : w[a] = IF a <= Len(z) THEN z[a] ELSE y[a - Len(z)]
    <2>1. z \in Seq(T)
      BY <1>3
    <2> QED
      BY ONLY <1>0, <2>1, CatIs
  <1> HIDE DEF w
  <1>5. Len(w) = Len(r)
    <2>1. /\ Len(s) = Len(x) + Len(y) /\ Len(s) = Len(f) + Len(r)
          /\ Len(x) \in Nat /\ Len(y) \in Nat /\ Len(f) \in Nat /\ Len(r) \in Nat
      BY <1>1
    <2>2. Len(z) = Len(x) - Len(f) /\ Len(w) = Len(z) + Len(y)
      BY <1>3, <1>4
    <2>3. \A a, b, c, d \in Nat : a + b = c + d => (a - c) + b = d
      OBVIOUS
    <2>4. Len(x) + Len(y) = Len(f) + Len(r)
      BY ONLY <2>1
    <2>5. (Len(x) - Len(f)) + Len(y) = Len(r)
      BY ONLY <2>1, <2>3, <2>4
    <2> QED
      BY ONLY <2>2, <2>5
  <1>6. ASSUME NEW a \in 1..Len(r) PROVE w[a] = r[a]
    <2>1. /\ a \in Nat /\ Len(f) + a \in 1..Len(s) /\ ~(Len(f) + a <= Len(f))
          /\ (Len(f) + a) - Len(f) = a /\ a \in 1..(Len(z) + Len(y)) /\ Len(z) \in Nat
      BY <1>1, <1>3, <1>4, <1>5
    <2>2. s[Len(f) + a] = r[a]
      BY <1>1, <2>1
    <2>3. CASE a <= Len(z)
      <3>1. a \in 1..(Len(x) - Len(f)) /\ Len(f) + a <= Len(x)
        BY <1>1, <1>3, <2>1, <2>3
      <3>2. w[a] = z[a] /\ z[a] = x[Len(f) + a] /\ s[Len(f) + a] = x[Len(f) + a]
        BY <1>1, <1>3, <1>4, <2>1, <2>3, <3>1
      <3> QED
        BY <2>2, <3>2
    <2>4. CASE ~(a <= Len(z))
      <3>1. (Len(f) + a) - Len(x) = a - Len(z) /\ ~(Len(f) + a <= Len(x))
        BY <1>1, <1>3, <2>1, <2>4
      <3>2. w[a] = y[a - Len(z)] /\ s[Len(f) + a] = y[(Len(f) + a) - Len(x)]
        BY <1>1, <1>4, <2>1, <2>4, <3>1
      <3> QED
        BY <2>2, <3>1, <3>2
    <2> QED
      BY <2>3, <2>4
  <1>7. w = r
    BY <1>4, <1>5, <1>6, SeqEqual
  <1> QED
    BY <1>3, <1>7 DEF w, z

LEMMA Beginnings ==
    ASSUME NEW T, NEW x \in Seq(T), NEW y \in Seq(T)
    PROVE  Channel!IsPrefix(<<>>, x) /\ Channel!IsPrefix(x, x \o y) /\ Channel!IsPrefix(x, x)
  <1>1. SubSeq(x \o y, 1, Len(x)) = x
    OBVIOUS
  <1>2. SubSeq(x, 1, Len(x)) = x
    OBVIOUS
  <1>3. SubSeq(x, 1, 0) = <<>> /\ SubSeq(<<>>, 1, 0) = <<>>
    OBVIOUS
  <1>4. Len(x \o y) = Len(x) + Len(y) /\ Len(x) \in Nat /\ Len(y) \in Nat
    OBVIOUS
  <1> QED
    BY <1>1, <1>2, <1>3, <1>4 DEF Channel!IsPrefix

Byte == [msg : 1..2, at : Nat]
Unheard(i) == IF i = 0 THEN Channel!frame(1, lens[1]) \o Channel!frame(2, lens[2])
              ELSE IF i = 1 THEN Channel!frame(2, lens[2]) ELSE <<>>
HeardOf(i) == IF i = 0 THEN <<>>
              ELSE IF i = 1 THEN Channel!accepted(sent[1])
              ELSE Channel!accepted(sent[1]) \o Channel!accepted(sent[2])

WireTypes == /\ route \in {"up", "down", "client", "view"}
             /\ \A k \in 1..2 : OnWire(sent[k])
             /\ lens \in [1..2 -> Nat \ {0}]
             /\ buf \in Seq(Byte) /\ wire \in Seq(Byte)

(* Taken i messages, the rest is on its way, its beginning in the buffer.   *)
WireInv == /\ WireTypes
           /\ \E i \in 0..2 : buf \o wire = Unheard(i) /\ heard = HeardOf(i)

LEMMA FrameIs ==
    ASSUME Channel!WidthsAreOrdered, NEW k \in 1..2, NEW n \in Nat
    PROVE  /\ Channel!frame(k, n) \in Seq(Byte)
           /\ Len(Channel!frame(k, n)) = HeaderLen + n
           /\ \A p \in 1..(HeaderLen + n) : /\ Channel!frame(k, n)[p].msg = k
                                            /\ Channel!frame(k, n)[p].at = p
  <1>1. HeaderLen \in Nat /\ HeaderLen + n \in Nat
    BY DEF Channel!WidthsAreOrdered
  <1>2. \A p \in 1..(HeaderLen + n) : [msg |-> k, at |-> p] \in Byte
    BY <1>1 DEF Byte
  <1>3. Channel!frame(k, n) \in [1..(HeaderLen + n) -> Byte]
    BY <1>2 DEF Channel!frame
  <1>4. \A p \in 1..(HeaderLen + n) : /\ Channel!frame(k, n)[p].msg = k
                                      /\ Channel!frame(k, n)[p].at = p
    BY DEF Channel!frame
  <1> QED
    BY <1>1, <1>3, <1>4

LEMMA UnheardIs ==
    ASSUME Channel!WidthsAreOrdered, WireTypes, NEW i \in 0..1
    PROVE  /\ Unheard(i + 1) \in Seq(Byte)
           /\ Unheard(i) = Channel!frame(i + 1, lens[i + 1]) \o Unheard(i + 1)
  <1>1. lens[1] \in Nat /\ lens[2] \in Nat
    BY DEF WireTypes
  <1>2. Channel!frame(1, lens[1]) \in Seq(Byte) /\ Channel!frame(2, lens[2]) \in Seq(Byte)
    <2>1. 1 \in 1..2 /\ 2 \in 1..2
      OBVIOUS
    <2>2. \A n \in Nat : /\ Channel!frame(1, n) \in Seq(Byte)
                         /\ Channel!frame(2, n) \in Seq(Byte)
      BY <2>1, FrameIs
    <2> QED
      BY <1>1, <2>2
  <1>3. CASE i = 0
    BY <1>2, <1>3 DEF Unheard
  <1>4. CASE i = 1
    <2>1. Unheard(2) = <<>> /\ Unheard(1) = Channel!frame(2, lens[2])
      BY DEF Unheard
    <2>2. Channel!frame(2, lens[2]) \o <<>> = Channel!frame(2, lens[2])
      BY <1>2, ConcatEmptySeq
    <2>3. <<>> \in Seq(Byte)
      OBVIOUS
    <2>4. i + 1 = 2
      BY <1>4
    <2> HIDE DEF Unheard
    <2>5. Unheard(i + 1) = <<>> /\ Unheard(i) = Channel!frame(2, lens[2])
      BY <1>4, <2>1, <2>4
    <2> QED
      BY <2>2, <2>3, <2>4, <2>5
  <1> QED
    BY <1>3, <1>4

(* With a header in the buffer, its length is the first frame's.            *)
LEMMA PrefixIs ==
    ASSUME Channel!WidthsAreOrdered, WireTypes, NEW i \in 0..1, buf \o wire = Unheard(i),
           Len(buf) >= HeaderLen
    PROVE  Channel!prefix = lens[i + 1]
  <1> DEFINE j == i + 1
             n == lens[j]
             f == Channel!frame(j, n)
             r == Unheard(j)
             h == SubSeq(buf, 1, HeaderLen)
  <1>1. j \in 1..2 /\ n \in Nat /\ HeaderLen \in Nat \ {0} /\ buf \in Seq(Byte) /\ wire \in Seq(Byte)
    BY DEF WireTypes, Channel!WidthsAreOrdered
  <1> HIDE DEF j, n
  <1>2. /\ f \in Seq(Byte) /\ Len(f) = HeaderLen + n
        /\ \A p \in 1..(HeaderLen + n) : f[p].msg = j /\ f[p].at = p
    BY <1>1, FrameIs
  <1>3. r \in Seq(Byte) /\ buf \o wire = f \o r
    BY UnheardIs DEF j, n
  <1> HIDE DEF f, r
  <1>4. \A a \in 1..Len(buf) : a <= Len(f) => buf[a] = f[a]
    <2>1. buf \in Seq(Byte) /\ wire \in Seq(Byte) /\ f \in Seq(Byte) /\ r \in Seq(Byte)
      BY <1>1, <1>2, <1>3
    <2>2. buf \o wire = f \o r
      BY <1>3
    <2> QED
      BY <2>1, <2>2, FirstPiece
  <1>5. \A p \in 1..HeaderLen : h[p] = buf[p]
    BY <1>1
  <1> HIDE DEF h
  <1>6. \A p \in 1..HeaderLen : h[p].msg = j /\ h[p].at = p
    <2>1. \A p \in 1..HeaderLen :
             p \in 1..Len(buf) /\ p <= Len(f) /\ p \in 1..(HeaderLen + n)
      BY <1>1, <1>2
    <2> QED
      BY <1>2, <1>4, <1>5, <2>1
  <1>7. h[1].msg = j
    BY <1>1, <1>6
  <1>8. Channel!prefix = lens[j]
    BY <1>6, <1>7 DEF Channel!prefix, h
  <1> QED
    BY <1>8 DEF j

LEMMA StepPush ==
    ASSUME Channel!WidthsAreOrdered, WireInv, NEW n \in 1..(HeaderLen + 1), Channel!push(n)
    PROVE  WireInv'
  <1>1. n \in 1..Len(wire) /\ buf \in Seq(Byte) /\ wire \in Seq(Byte)
    BY DEF WireInv, WireTypes, Channel!push, Channel!WidthsAreOrdered
  <1>2. /\ buf' = buf \o SubSeq(wire, 1, n) /\ wire' = SubSeq(wire, n + 1, Len(wire))
        /\ UNCHANGED <<route, sent, lens, heard>>
    BY DEF Channel!push
  <1>3. buf' \in Seq(Byte) /\ wire' \in Seq(Byte) /\ buf' \o wire' = buf \o wire
    <2>1. /\ Cat(buf, Taken(wire, n)) \in Seq(Byte) /\ Past(wire, n) \in Seq(Byte)
          /\ Cat(Cat(buf, Taken(wire, n)), Past(wire, n)) = Cat(buf, wire)
      BY <1>1, CutElsewhere
    <2>2. buf' = Cat(buf, Taken(wire, n)) /\ wire' = Past(wire, n)
      BY <1>2 DEF Cat, Taken, Past
    <2>3. buf' \in Seq(Byte) /\ wire' \in Seq(Byte) /\ Cat(buf', wire') = Cat(buf, wire)
      BY <2>1, <2>2
    <2> QED
      BY <2>3 DEF Cat
  <1>4. WireTypes'
    BY <1>2, <1>3 DEF WireInv, WireTypes
  <1>5. \A i : Unheard(i)' = Unheard(i) /\ HeardOf(i)' = HeardOf(i)
    BY <1>2 DEF Unheard, HeardOf
  <1> QED
    BY <1>2, <1>3, <1>4, <1>5 DEF WireInv

LEMMA StepBody ==
    ASSUME Channel!WidthsAreOrdered, WireInv, Channel!nextBody
    PROVE  WireInv'
  <1>1. PICK i \in 0..2 : buf \o wire = Unheard(i) /\ heard = HeardOf(i)
    BY DEF WireInv
  <1>2. /\ WireTypes /\ buf \in Seq(Byte) /\ wire \in Seq(Byte)
        /\ HeaderLen \in Nat \ {0} /\ Len(buf) \in Nat
    BY DEF WireInv, WireTypes, Channel!WidthsAreOrdered
  <1>3. Len(buf) >= HeaderLen
    BY <1>2 DEF Channel!nextBody, Channel!incomplete
  <1>4. i \in 0..1
    <2>1. CASE i = 2
      <3>1. buf \o wire = <<>>
        BY <1>1, <2>1 DEF Unheard
      <3>2. Len(buf) = 0
        BY <1>2, <3>1
      <3> QED
        BY <1>2, <1>3, <3>2
    <2> QED
      BY <2>1
  <1> DEFINE j == i + 1
             n == lens[j]
             f == Channel!frame(j, n)
             r == Unheard(j)
             body == SubSeq(buf, HeaderLen + 1, HeaderLen + n)
  <1>5. j \in 1..2 /\ n \in Nat \ {0} /\ HeaderLen + n \in Nat
    BY <1>2, <1>4 DEF WireTypes
  <1>6. Channel!prefix = n
    BY <1>1, <1>2, <1>3, <1>4, PrefixIs
  <1>7. r \in Seq(Byte) /\ buf \o wire = f \o r
    BY <1>1, <1>2, <1>4, UnheardIs
  <1> HIDE DEF j, n, r
  <1>8. /\ f \in Seq(Byte) /\ Len(f) = HeaderLen + n
        /\ \A p \in 1..(HeaderLen + n) : f[p].msg = j /\ f[p].at = p
    BY <1>5, FrameIs
  <1> HIDE DEF f
  <1>9. Len(buf) >= HeaderLen + n
    <2>1. ~(Len(buf) < HeaderLen + Channel!prefix)
      BY DEF Channel!nextBody, Channel!incomplete
    <2> QED
      BY <1>2, <1>5, <1>6, <2>1
  <1>10. /\ \A a \in 1..(HeaderLen + n) : buf[a] = f[a]
         /\ SubSeq(buf, HeaderLen + n + 1, Len(buf)) \in Seq(Byte)
         /\ SubSeq(buf, HeaderLen + n + 1, Len(buf)) \o wire = r
    <2>1. \A a \in 1..Len(buf) : a <= Len(f) => buf[a] = f[a]
      BY <1>2, <1>7, <1>8, FirstPiece
    <2>2. Len(f) <= Len(buf)
      BY <1>8, <1>9, <1>2, <1>5
    <2>3. buf \in Seq(Byte) /\ wire \in Seq(Byte) /\ f \in Seq(Byte) /\ r \in Seq(Byte)
      BY <1>2, <1>7, <1>8
    <2>6. buf \o wire = f \o r
      BY <1>7
    <2>5. Past(buf, Len(f)) \in Seq(Byte) /\ Cat(Past(buf, Len(f)), wire) = r
      <3>1. Cat(buf, wire) = Cat(f, r)
        BY <2>6 DEF Cat
      <3> QED
        BY ONLY <2>2, <2>3, <3>1, Peeled
    <2>7. /\ SubSeq(buf, HeaderLen + n + 1, Len(buf)) = Past(buf, Len(f))
          /\ Past(buf, Len(f)) \o wire = Cat(Past(buf, Len(f)), wire)
      BY <1>8 DEF Past, Cat
    <2>4. \A a \in 1..(HeaderLen + n) : a \in 1..Len(buf) /\ a <= Len(f)
      BY <1>2, <1>5, <1>8, <1>9
    <2> QED
      BY <1>8, <2>1, <2>4, <2>5, <2>7
  <1>11. /\ body # <<>> /\ Len(body) = n /\ DOMAIN body = 1..n
         /\ \A p \in 1..n : body[p] = buf[HeaderLen + p]
    <2>1. HeaderLen + 1 \in 1..(Len(buf) + 1) /\ HeaderLen + n \in HeaderLen..Len(buf)
      BY <1>2, <1>5, <1>9
    <2>2. Len(body) = n
      BY <1>2, <1>5, <2>1
    <2>3. \A p \in 1..n : body[p] = buf[HeaderLen + p]
      BY <1>2, <1>5, <2>1
    <2>4. body \in Seq(Byte)
      BY <1>2, <1>5, <2>1
    <2> HIDE DEF body
    <2>5. body # <<>> /\ DOMAIN body = 1..n
      BY <1>5, <2>2, <2>4
    <2> QED
      BY <2>2, <2>3, <2>5
  <1> HIDE DEF body
  <1>12. \A p \in 1..n : body[p].msg = j /\ body[p].at = HeaderLen + p
    <2>1. SUFFICES ASSUME NEW p \in 1..n PROVE body[p].msg = j /\ body[p].at = HeaderLen + p
      OBVIOUS
    <2>2. HeaderLen + p \in 1..(HeaderLen + n)
      BY <1>2, <1>5
    <2> QED
      BY <1>8, <1>10, <1>11, <2>2
  <1>13. body[1].msg = j /\ Len(body) = lens[body[1].msg]
    BY <1>5, <1>11, <1>12 DEF n
  <1>14. /\ heard' = heard \o Channel!outcome(sent[j])
         /\ buf' = SubSeq(buf, HeaderLen + n + 1, Len(buf))
         /\ UNCHANGED <<route, sent, lens, wire>>
    BY <1>6, <1>11, <1>12, <1>13 DEF Channel!nextBody, body
  <1>15. Channel!outcome(sent[j]) = Channel!accepted(sent[j])
    BY <1>2, <1>5, OutcomeIs DEF WireTypes
  <1>16. HeardOf(i) \o Channel!accepted(sent[j]) = HeardOf(j)
    <2>1. CASE i = 0
      <3>1. <<>> \o Channel!accepted(sent[1]) = Channel!accepted(sent[1])
        BY DEF Channel!accepted
      <3> QED
        BY <2>1, <3>1 DEF HeardOf, j
    <2>2. CASE i = 1
      BY <2>2 DEF HeardOf, j
    <2> QED
      BY <1>4, <2>1, <2>2
  <1>17. WireTypes'
    BY <1>2, <1>10, <1>14 DEF WireTypes
  <1>18. \A k : Unheard(k)' = Unheard(k) /\ HeardOf(k)' = HeardOf(k)
    BY <1>14 DEF Unheard, HeardOf
  <1>19. buf' \o wire' = Unheard(j)' /\ heard' = HeardOf(j)'
    BY <1>1, <1>10, <1>14, <1>15, <1>16, <1>18 DEF r
  <1>20. j \in 0..2
    BY <1>5
  <1> QED
    BY <1>17, <1>19, <1>20 DEF WireInv

LEMMA InitWire ==
    ASSUME Channel!WidthsAreOrdered, Channel!Init
    PROVE  WireInv
  <1>1. route \in {"up", "down", "client", "view"}
    BY DEF Channel!Init, Channel!shapes
  <1>2. lens \in [1..2 -> Nat \ {0}]
    <2>1. lens \in [1..2 -> BodyLens] /\ BodyLens \subseteq Nat \ {0}
      BY DEF Channel!Init, Channel!WidthsAreOrdered
    <2> QED
      BY <2>1
  <1>3. PICK s \in Channel!shapes[route], v \in Channel!ints \cup Channel!others :
             sent = <<Channel!Message(s, v), Channel!ordinary(route)>>
    BY DEF Channel!Init
  <1>4. s.type \in FieldTypes
    BY <1>1, SupervisorTypes, ControlTypes, BrowserTypes DEF WellTyped, Channel!shapes
  <1>5. v \in WireValue
    <2>1. Channel!Edges \subseteq Int
      BY DEF Channel!Edges, Channel!WidthsAreOrdered
    <2> QED
      BY <2>1 DEF WireValue, Channel!ints, Channel!others
  <1>6. OnWire(Channel!Message(s, v))
    BY <1>4, <1>5 DEF OnWire, Channel!Message
  <1>7. OnWire(Channel!ordinary(route))
    <2>1. [t |-> "str", n |-> 0] \in WireValue /\ "str" \in FieldTypes
      BY DEF WireValue, FieldTypes
    <2> QED
      BY <2>1 DEF OnWire, Channel!ordinary
  <1>8. \A k \in 1..2 : OnWire(sent[k])
    BY <1>3, <1>6, <1>7
  <1>9. /\ buf = <<>> /\ heard = <<>>
        /\ wire = Channel!frame(1, lens[1]) \o Channel!frame(2, lens[2])
    BY DEF Channel!Init
  <1>10. wire \in Seq(Byte) /\ <<>> \in Seq(Byte)
    <2>1. lens[1] \in Nat /\ lens[2] \in Nat
      BY <1>2
    <2>2. 1 \in 1..2 /\ 2 \in 1..2 /\ \A n \in Nat : /\ Channel!frame(1, n) \in Seq(Byte)
                                                     /\ Channel!frame(2, n) \in Seq(Byte)
      BY FrameIs
    <2>3. Channel!frame(1, lens[1]) \in Seq(Byte) /\ Channel!frame(2, lens[2]) \in Seq(Byte)
      BY <2>1, <2>2
    <2> QED
      BY <1>9, <2>3
  <1>11. <<>> \o wire = wire
    BY <1>10, ConcatEmptySeq
  <1>12. buf \o wire = Unheard(0) /\ heard = HeardOf(0)
    BY <1>9, <1>11 DEF Unheard, HeardOf
  <1> QED
    BY <1>1, <1>2, <1>8, <1>9, <1>10, <1>12 DEF WireInv, WireTypes

LEMMA HeardFollows ==
    ASSUME Channel!WidthsAreOrdered, WireInv
    PROVE  Channel!HeardAsSent
  <1>1. PICK i \in 0..2 : buf \o wire = Unheard(i) /\ heard = HeardOf(i)
    BY DEF WireInv
  <1> DEFINE T == {sent[1], sent[2]}
             x == Channel!accepted(sent[1])
             y == Channel!accepted(sent[2])
  <1>2. x \in Seq(T) /\ y \in Seq(T)
    BY DEF Channel!accepted
  <1>3. x \o y \in Seq(T)
    BY <1>2
  <1>4. Channel!IsPrefix(heard, x \o y)
    <2>1. heard = <<>> \/ heard = x \/ heard = x \o y
      BY <1>1 DEF HeardOf
    <2> HIDE DEF x, y, T
    <2>2. /\ Channel!IsPrefix(<<>>, x \o y) /\ Channel!IsPrefix(x, x \o y)
          /\ Channel!IsPrefix(x \o y, x \o y)
      BY <1>2, <1>3, Beginnings
    <2> QED
      BY <2>1, <2>2
  <1>5. ASSUME wire = <<>>, Channel!incomplete PROVE heard = x \o y
    <2>1. CASE i = 2
      BY <1>1, <2>1 DEF HeardOf
    <2>2. CASE i \in 0..1
      <3>1. /\ WireTypes /\ buf \in Seq(Byte) /\ wire \in Seq(Byte)
            /\ HeaderLen \in Nat \ {0} /\ Len(buf) \in Nat /\ lens[i + 1] \in Nat /\ i + 1 \in 1..2
        BY <2>2 DEF WireInv, WireTypes, Channel!WidthsAreOrdered
      <3> DEFINE f == Channel!frame(i + 1, lens[i + 1])
                 r == Unheard(i + 1)
      <3>2. r \in Seq(Byte) /\ buf \o wire = f \o r
        BY <1>1, <2>2, <3>1, UnheardIs
      <3>3. f \in Seq(Byte) /\ Len(f) = HeaderLen + lens[i + 1]
        BY <3>1, FrameIs
      <3> HIDE DEF f, r
      <3>4. Len(buf) + Len(wire) = Len(f) + Len(r)
        <4>1. buf \in Seq(Byte) /\ wire \in Seq(Byte) /\ f \in Seq(Byte) /\ r \in Seq(Byte)
          BY <3>1, <3>2, <3>3
        <4>2. /\ Len(buf \o wire) = Len(buf) + Len(wire)
              /\ Len(f \o r) = Len(f) + Len(r)
          BY <4>1
        <4> QED
          BY <3>2, <4>2
      <3>5. Len(wire) = 0 /\ Len(r) \in Nat
        BY <1>5, <3>2
      <3>6. Len(buf) >= HeaderLen + lens[i + 1] /\ Len(buf) >= HeaderLen
        BY <3>1, <3>3, <3>4, <3>5
      <3>7. Channel!prefix = lens[i + 1]
        BY <1>1, <2>2, <3>1, <3>6, PrefixIs
      <3> QED
        BY <1>5, <3>1, <3>6, <3>7 DEF Channel!incomplete
    <2> QED
      BY <2>1, <2>2
  <1> QED
    BY <1>4, <1>5 DEF Channel!HeardAsSent

(* Whatever is sent and wherever the stream is cut, the far end hears what  *)
(* is inside the contract, once, in order and as it was sent (cbor.ts,      *)
(* framing.ts, validate.ts).                                                *)
THEOREM HeardAsSentAlways ==
    ASSUME Channel!WidthsAreOrdered
    PROVE  Spec => []HeardAsSent
  <1> DEFINE J == focus = "wire" => WireInv
  <1>1. Init => J
    BY InitWire DEF Init
  <1>2. J /\ [Next]_vars => J'
    <2>1. SUFFICES ASSUME WireInv, [Next]_vars, focus = "wire", focus' = "wire" PROVE WireInv'
      BY FocusStays
    <2>2. Channel!Next \/ UNCHANGED channel
      BY <2>1, FocusStays
    <2>3. CASE UNCHANGED channel
      BY <2>1, <2>3 DEF channel, WireInv, WireTypes, Unheard, HeardOf
    <2>4. CASE Channel!Next
      BY <2>1, <2>4, StepPush, StepBody DEF Channel!Next
    <2> QED
      BY <2>2, <2>3, <2>4
  <1>3. J => HeardAsSent
    BY HeardFollows DEF HeardAsSent
  <1> QED
    BY <1>1, <1>2, <1>3, PTL DEF Spec

-----------------------------------------------------------------------------
(* The layout of a computer's workspace.                                    *)

(* A component that was not hydrated has nothing to save; and as long as the *)
(* page was not edited, it shows what it was mounted with, or what was saved. *)
Unhydrated == /\ inst.timer = None /\ inst.sync # "error" /\ saves[Len(saves)] = <<>>
              /\ ~page.edited => layout = inst.initial
Hydrated == /\ page.read
            /\ ~page.edited => /\ layout = inst.lastSaved /\ inst.timer = None
                               /\ saves[Len(saves)] = <<>>

Rendered == [hydrated |-> inst.hydrated, initial |-> inst.initial, lastSaved |-> inst.lastSaved,
             timer |-> inst.timer, sync |-> inst.sync]
Visited == [read |-> page.read, edited |-> page.edited]
Asked == [status |-> query.status, data |-> query.data, flight |-> query.flight]

TabInv == /\ \E S : saves \in Seq(Seq(S))
          /\ page = Visited /\ page.read \in BOOLEAN /\ page.edited \in BOOLEAN
          /\ query = Asked /\ (query.status = "success" => page.read)
          /\ inst # None => /\ inst = Rendered /\ inst.hydrated \in BOOLEAN /\ saves # <<>>
                            /\ inst.hydrated => Hydrated
                            /\ ~inst.hydrated => Unhydrated

LEMMA Widened ==
    ASSUME NEW S, NEW cs \in Seq(Seq(S)), NEW x
    PROVE  cs \in Seq(Seq(S \cup {x}))
  <1>1. Seq(S) \subseteq Seq(S \cup {x})
    BY SeqMonotonic
  <1> QED
    BY <1>1, SeqMonotonic

(* A save is queued last in the last chain, unless there is nothing to save. *)
LEMMA Queued ==
    ASSUME NEW S, NEW cs \in Seq(Seq(S)), cs # <<>>, NEW saved, NEW what
    PROVE  LET new == Tab!enqueueSave(cs, saved, what)
           IN /\ \E U : new \in Seq(Seq(U))
              /\ Len(new) = Len(cs) /\ DOMAIN new = DOMAIN cs
              /\ \A k \in DOMAIN cs : k # Len(cs) => new[k] = cs[k]
              /\ what = saved => new = cs
  <1> DEFINE U == S \cup {what}
             new == Tab!enqueueSave(cs, saved, what)
             more == [cs EXCEPT ![Len(cs)] = Append(@, what)]
  <1>1. cs \in Seq(Seq(U)) /\ what \in U
    BY Widened
  <1> HIDE DEF U
  <1>2. Len(cs) \in 1..Len(cs) /\ DOMAIN cs = 1..Len(cs) /\ Len(cs) \in Nat
    BY <1>1
  <1>3. Append(cs[Len(cs)], what) \in Seq(U)
    BY <1>1, <1>2
  <1>4. /\ more \in Seq(Seq(U)) /\ Len(more) = Len(cs) /\ DOMAIN more = DOMAIN cs
        /\ \A k \in DOMAIN cs : k # Len(cs) => more[k] = cs[k]
    BY <1>1, <1>2, <1>3, ExceptSeq
  <1>5. new = cs \/ (what # saved /\ new = more)
    BY DEF Tab!enqueueSave
  <1>6. what = saved => new = cs
    BY DEF Tab!enqueueSave
  <1> HIDE DEF new, more
  <1> QED
    BY <1>1, <1>4, <1>5, <1>6 DEF new

(* What a step leaves alone.                                                *)
LEMMA TabStays ==
    ASSUME TabInv, UNCHANGED tab
    PROVE  TabInv' /\ Tab!SavesOnlyChanges
  BY DEF TabInv, Hydrated, Unhydrated, Rendered, Visited, Asked, tab, Tab!SavesOnlyChanges

LEMMA StepOpen ==
    ASSUME TabInv, Tab!openComputer
    PROVE  TabInv' /\ Tab!SavesOnlyChanges
  <1> DEFINE l == IF layout = None THEN Tab!defaultLayout ELSE layout
             i == [hydrated |-> FALSE, initial |-> l, lastSaved |-> None,
                   timer |-> None, sync |-> "loading"]
             h == Tab!hydrate(i, query, l)
  <1>1. /\ inst' = h.inst /\ layout' = h.layout /\ saves' = Append(saves, <<>>)
        /\ UNCHANGED <<query, remote, page, edits, fetches, loads>>
    BY DEF Tab!openComputer
  <1> HIDE DEF l
  <1>2. /\ i = [hydrated |-> i.hydrated, initial |-> i.initial, lastSaved |-> i.lastSaved,
                timer |-> i.timer, sync |-> i.sync]
        /\ ~i.hydrated /\ i.hydrated = FALSE /\ i.timer = None /\ i.sync # "error" /\ l = i.initial
    OBVIOUS
  <1> HIDE DEF i
  <1>3. PICK S : saves \in Seq(Seq(S))
    BY DEF TabInv
  <1>4. /\ saves' \in Seq(Seq(S)) /\ saves' # <<>> /\ saves'[Len(saves')] = <<>>
        /\ \A k \in DOMAIN saves : saves'[k] = saves[k]
    BY <1>1, <1>3
  <1>5. page.edited \in BOOLEAN /\ (query.status = "success" => page.read)
        /\ page = Visited /\ page.read \in BOOLEAN /\ query = Asked
    BY DEF TabInv
  <1>6. /\ inst' = Rendered'
        /\ query.status = "success" => inst'.hydrated = TRUE
        /\ query.status # "success" => inst' = i /\ layout' = l
        /\ query.status = "success" =>
             inst'.timer = None /\ (~page.edited => layout' = inst'.lastSaved)
    <2> HIDE DEF h
    <2>1. h = Tab!hydrate(i, query, l)
      BY DEF h
    <2>2. CASE query.status = "success"
      <3> DEFINE restored == Tab!deserializeLayout(query.data)
                 kept == IF restored = None THEN l ELSE restored
      <3>1. /\ h.inst = [i EXCEPT !.hydrated = TRUE, !.sync = "saved", !.lastSaved = kept]
            /\ h.layout = IF restored # None /\ l = i.initial THEN restored ELSE l
        BY <1>2, <2>1, <2>2 DEF Tab!hydrate
      <3>2. h.layout = kept
        BY <1>2, <3>1
      <3> HIDE DEF kept
      <3>3. h.inst = [hydrated |-> TRUE, initial |-> i.initial, lastSaved |-> kept,
                      timer |-> None, sync |-> "saved"]
        BY <1>2, <3>1
      <3> QED
        BY <1>1, <2>2, <3>2, <3>3 DEF Rendered
    <2>3. CASE query.status # "success"
      <3>1. h.inst = i /\ h.layout = l
        BY <2>1, <2>3 DEF Tab!hydrate
      <3> QED
        BY <1>1, <1>2, <2>3, <3>1 DEF Rendered
    <2> QED
      BY <2>2, <2>3
  <1>7. TabInv'
    <2>1. CASE query.status = "success"
      BY <1>1, <1>4, <1>5, <1>6, <2>1 DEF TabInv, Hydrated, Visited, Asked
    <2>2. CASE query.status # "success"
      BY <1>1, <1>2, <1>4, <1>5, <1>6, <2>2 DEF TabInv, Unhydrated, Visited, Asked
    <2> QED
      BY <2>1, <2>2
  <1>8. Tab!SavesOnlyChanges
    <2>1. \A k \in DOMAIN saves : Len(saves[k]) \in Nat
      BY <1>3
    <2> QED
      BY <1>4, <2>1 DEF Tab!SavesOnlyChanges
  <1> QED
    BY <1>7, <1>8

(* A step that queues at most one more save, and only where it may.         *)
LEMMA OneMore ==
    ASSUME NEW S, saves \in Seq(Seq(S)), saves # <<>>, NEW saved, NEW what,
           saves' = Tab!enqueueSave(saves, saved, what),
           what # saved => page.read /\ page.edited
    PROVE  /\ \E U : saves' \in Seq(Seq(U))
           /\ Len(saves') = Len(saves) /\ saves' # <<>>
           /\ ~page.edited => saves' = saves
           /\ Tab!SavesOnlyChanges
  <1>1. /\ \E U : saves' \in Seq(Seq(U))
        /\ Len(saves') = Len(saves) /\ DOMAIN saves' = DOMAIN saves
        /\ what = saved => saves' = saves
    BY Queued
  <1>2. saves' # <<>>
    BY <1>1
  <1>3. \A k \in DOMAIN saves : Len(saves[k]) \in Nat
    OBVIOUS
  <1>4. Tab!SavesOnlyChanges
    BY <1>1, <1>3 DEF Tab!SavesOnlyChanges
  <1> QED
    BY <1>1, <1>2, <1>4

LEMMA StepLeave ==
    ASSUME TabInv, Tab!goFleet \/ Tab!resetForSession
    PROVE  TabInv' /\ Tab!SavesOnlyChanges
  <1>1. /\ inst # None /\ inst' = None
        /\ saves' = IF inst.hydrated THEN Tab!enqueueSave(saves, inst.lastSaved, layout) ELSE saves
    BY DEF Tab!goFleet, Tab!resetForSession, Tab!unmounted
  <1>2. /\ inst.hydrated \in BOOLEAN /\ saves # <<>>
        /\ inst.hydrated => Hydrated
    BY <1>1 DEF TabInv
  <1>3. PICK S : saves \in Seq(Seq(S))
    BY DEF TabInv
  <1>4. (\E U : saves' \in Seq(Seq(U))) /\ Tab!SavesOnlyChanges
    <2>1. CASE inst.hydrated
      <3>1. layout # inst.lastSaved => page.read /\ page.edited
        BY <1>2, <2>1 DEF Hydrated
      <3>2. saves' = Tab!enqueueSave(saves, inst.lastSaved, layout)
        BY <1>1, <2>1
      <3> QED
        BY <1>2, <1>3, <3>1, <3>2, OneMore
    <2>2. CASE ~inst.hydrated
      <3>1. saves' = saves
        BY <1>1, <2>2
      <3>2. \A k \in DOMAIN saves : Len(saves[k]) \in Nat
        BY <1>3
      <3> QED
        BY <1>3, <3>1, <3>2 DEF Tab!SavesOnlyChanges
    <2> QED
      BY <1>2, <2>1, <2>2
  <1>5. /\ query' = Asked' /\ (query'.status = "success" => page'.read)
        /\ page' = Visited' /\ page'.read \in BOOLEAN /\ page'.edited \in BOOLEAN
    <2>1. /\ query = Asked /\ (query.status = "success" => page.read)
          /\ page = Visited /\ page.read \in BOOLEAN /\ page.edited \in BOOLEAN
      BY DEF TabInv
    <2>2. CASE Tab!goFleet
      BY <2>1, <2>2 DEF Tab!goFleet, Asked, Visited
    <2>3. CASE Tab!resetForSession
      BY <2>3 DEF Tab!resetForSession, Tab!NoQuery, Asked, Visited
    <2> QED
      BY <2>2, <2>3
  <1> QED
    BY <1>1, <1>4, <1>5 DEF TabInv

LEMMA StepReload ==
    ASSUME TabInv, Tab!Reload
    PROVE  TabInv' /\ Tab!SavesOnlyChanges
  <1>1. /\ saves' = <<>> /\ inst' = None /\ query' = Tab!NoQuery
        /\ page' = [read |-> FALSE, edited |-> FALSE]
    BY DEF Tab!Reload
  <1>2. saves' \in Seq(Seq({})) /\ DOMAIN saves' = {}
    BY <1>1
  <1> QED
    BY <1>1, <1>2 DEF TabInv, Asked, Visited, Tab!NoQuery, Tab!SavesOnlyChanges

(* The steps after which no chain is longer.                                *)
LEMMA NoneLonger ==
    ASSUME TabInv, UNCHANGED saves
    PROVE  Tab!SavesOnlyChanges
  <1>1. PICK S : saves \in Seq(Seq(S))
    BY DEF TabInv
  <1>2. \A k \in DOMAIN saves : Len(saves[k]) \in Nat
    BY <1>1
  <1> QED
    BY <1>2 DEF Tab!SavesOnlyChanges

LEMMA StepFetch ==
    ASSUME TabInv, Tab!fetchLayout
    PROVE  TabInv' /\ Tab!SavesOnlyChanges
  <1>1. /\ query' = [query EXCEPT !.flight = [got |-> remote]]
        /\ UNCHANGED <<layout, inst, saves, page>>
    BY DEF Tab!fetchLayout
  <1>2. query' = Asked' /\ query'.status = query.status
    BY <1>1 DEF TabInv, Asked
  <1>3. Tab!SavesOnlyChanges
    BY <1>1, NoneLonger
  <1> QED
    BY <1>1, <1>2, <1>3 DEF TabInv, Hydrated, Unhydrated, Rendered, Visited

LEMMA StepAnswer ==
    ASSUME TabInv, Tab!Read \/ Tab!ReadFails
    PROVE  TabInv' /\ Tab!SavesOnlyChanges
  <1> DEFINE h == Tab!hydrate(inst, query', layout)
  <1>1. /\ inst # None /\ inst' = h.inst /\ layout' = h.layout /\ UNCHANGED saves
    BY DEF Tab!Read, Tab!ReadFails, Tab!answer
  <1>2. /\ query' = Asked' /\ (query'.status = "success" => page'.read)
        /\ page' = Visited' /\ page'.read \in BOOLEAN /\ page'.edited = page.edited
        /\ page.read => page'.read
    <2>1. /\ query = Asked /\ (query.status = "success" => page.read)
          /\ page = Visited /\ page.read \in BOOLEAN /\ page.edited \in BOOLEAN
      BY DEF TabInv
    <2>2. CASE Tab!Read
      BY <2>1, <2>2 DEF Tab!Read, Tab!answer, Asked, Visited
    <2>3. CASE Tab!ReadFails
      BY <2>1, <2>3 DEF Tab!ReadFails, Tab!answer, Asked, Visited
    <2> QED
      BY <2>2, <2>3
  <1>3. /\ inst = Rendered /\ inst.hydrated \in BOOLEAN /\ saves # <<>>
        /\ inst.hydrated => Hydrated
        /\ ~inst.hydrated => Unhydrated
        /\ page.edited \in BOOLEAN /\ \E S : saves \in Seq(Seq(S))
    BY <1>1 DEF TabInv
  <1>4. CASE inst.hydrated
    <2>1. inst' = inst /\ layout' = layout
      BY <1>1, <1>4 DEF Tab!hydrate
    <2>2. Hydrated'
      BY <1>1, <1>2, <1>3, <1>4, <2>1 DEF Hydrated
    <2>3. TabInv'
      BY <1>1, <1>2, <1>3, <1>4, <2>1, <2>2 DEF TabInv, Rendered
    <2> QED
      BY <1>1, <2>3, NoneLonger
  <1>5. CASE ~inst.hydrated
    <2>1. /\ inst' = Rendered'
          /\ query'.status = "success" => inst'.hydrated = TRUE
          /\ query'.status # "success" => inst' = inst /\ layout' = layout
          /\ query'.status = "success" =>
               inst'.timer = None /\ (~page.edited => layout' = inst'.lastSaved)
      <3> HIDE DEF h
      <3>0. h = Tab!hydrate(inst, query', layout)
        BY DEF h
      <3>1. /\ inst.hydrated = FALSE /\ inst.timer = None
            /\ inst = [hydrated |-> inst.hydrated, initial |-> inst.initial,
                       lastSaved |-> inst.lastSaved, timer |-> inst.timer, sync |-> inst.sync]
        BY <1>3, <1>5 DEF Unhydrated, Rendered
      <3>2. CASE query'.status = "success"
        <4> DEFINE restored == Tab!deserializeLayout(query'.data)
                   kept == IF restored = None THEN layout ELSE restored
        <4>1. /\ h.inst = [inst EXCEPT !.hydrated = TRUE, !.sync = "saved",
                                       !.lastSaved = kept]
              /\ h.layout = IF restored # None /\ layout = inst.initial
                            THEN restored ELSE layout
          BY <3>0, <3>1, <3>2 DEF Tab!hydrate
        <4>2. ~page.edited => h.layout = kept
          BY <1>3, <1>5, <4>1 DEF Unhydrated
        <4> HIDE DEF kept
        <4>3. h.inst = [hydrated |-> TRUE, initial |-> inst.initial, lastSaved |-> kept,
                        timer |-> None, sync |-> "saved"]
          BY <3>1, <4>1
        <4> QED
          BY <1>1, <3>2, <4>2, <4>3 DEF Rendered
      <3>3. CASE query'.status # "success"
        <4>1. h.inst = inst /\ h.layout = layout
          BY <3>0, <3>3 DEF Tab!hydrate
        <4> QED
          BY <1>1, <3>1, <3>3, <4>1 DEF Rendered
      <3> QED
        BY <3>2, <3>3
    <2>2. CASE query'.status = "success"
      <3>1. Hydrated' /\ inst'.hydrated = TRUE
        BY <1>1, <1>2, <1>3, <1>5, <2>1, <2>2 DEF Hydrated, Unhydrated
      <3> QED
        BY <1>1, <1>2, <1>3, <2>1, <3>1, NoneLonger DEF TabInv
    <2>3. CASE query'.status # "success"
      <3>1. Unhydrated' /\ inst' = inst
        BY <1>1, <1>2, <1>3, <1>5, <2>1, <2>3 DEF Unhydrated
      <3> QED
        BY <1>1, <1>2, <1>3, <1>5, <2>1, <3>1, NoneLonger DEF TabInv
    <2> QED
      BY <2>2, <2>3
  <1> QED
    BY <1>3, <1>4, <1>5

LEMMA StepEdit ==
    ASSUME TabInv, Tab!Edit
    PROVE  TabInv' /\ Tab!SavesOnlyChanges
  <1>1. PICK l, n : Tab!set(l, n)
    BY DEF Tab!Edit, Tab!addPane, Tab!splitFocused, Tab!closeFocused, Tab!moveFocus,
           Tab!pointAt, Tab!resizeFocusedSplit
  <1>2. /\ inst # None /\ layout' = l
        /\ inst' = IF l = layout THEN inst ELSE Tab!persist(inst, l)
        /\ page' = [page EXCEPT !.edited = @ \/ l # layout]
        /\ UNCHANGED <<query, saves>>
    BY <1>1 DEF Tab!set
  <1>3. Tab!SavesOnlyChanges
    BY <1>2, NoneLonger
  <1>4. /\ inst = Rendered /\ inst.hydrated \in BOOLEAN /\ saves # <<>>
        /\ inst.hydrated => Hydrated
        /\ ~inst.hydrated => Unhydrated
        /\ page = Visited /\ page.read \in BOOLEAN /\ page.edited \in BOOLEAN
        /\ query = Asked /\ (query.status = "success" => page.read)
        /\ \E S : saves \in Seq(Seq(S))
    BY <1>2 DEF TabInv
  <1>5. CASE l = layout
    <2>1. page' = page /\ inst' = inst /\ layout' = layout
      BY <1>2, <1>4, <1>5 DEF Visited
    <2> QED
      BY <1>2, <1>3, <2>1 DEF TabInv, Hydrated, Unhydrated, Rendered, Visited, Asked
  <1>6. CASE l # layout
    <2>1. page' = Visited' /\ page'.read = page.read /\ page'.edited = TRUE
      BY <1>2, <1>4, <1>6 DEF Visited
    <2>2. inst' = Tab!persist(inst, l)
      BY <1>2, <1>6
    <2>3. /\ inst' = Rendered' /\ inst'.hydrated = inst.hydrated /\ inst'.sync = inst.sync
          /\ ~inst.hydrated => inst'.timer = inst.timer
      BY <1>4, <2>2 DEF Tab!persist, Rendered
    <2>4. /\ inst'.hydrated => Hydrated'
          /\ ~inst'.hydrated => Unhydrated'
      BY <1>2, <1>4, <2>1, <2>3 DEF Hydrated, Unhydrated
    <2>5. TabInv'
      BY <1>2, <1>4, <2>1, <2>3, <2>4 DEF TabInv, Asked
    <2> QED
      BY <1>3, <2>5
  <1> QED
    BY <1>5, <1>6

LEMMA StepTimer ==
    ASSUME TabInv, Tab!SaveTimer \/ Tab!RetrySave
    PROVE  TabInv' /\ Tab!SavesOnlyChanges
  <1> DEFINE what == IF Tab!SaveTimer THEN inst.timer ELSE layout
  <1>1. inst # None /\ UNCHANGED <<layout, query, page>>
    BY DEF Tab!SaveTimer, Tab!RetrySave
  <1>2. /\ inst = Rendered /\ inst.hydrated \in BOOLEAN /\ saves # <<>>
        /\ inst.hydrated => Hydrated
        /\ ~inst.hydrated => Unhydrated
        /\ page = Visited /\ page.read \in BOOLEAN /\ page.edited \in BOOLEAN
        /\ query = Asked /\ (query.status = "success" => page.read)
    BY <1>1 DEF TabInv
  <1>3. PICK S : saves \in Seq(Seq(S))
    BY DEF TabInv
  <1>4. inst.hydrated
    BY <1>2 DEF Unhydrated, Tab!SaveTimer, Tab!RetrySave
  <1>5. page.read /\ page.edited
    BY <1>2, <1>4 DEF Hydrated, Tab!SaveTimer, Tab!RetrySave
  <1>6. PICK w : saves' = Tab!enqueueSave(saves, inst.lastSaved, w)
    BY DEF Tab!SaveTimer, Tab!RetrySave
  <1>7. (\E U : saves' \in Seq(Seq(U))) /\ saves' # <<>> /\ Tab!SavesOnlyChanges
    BY <1>2, <1>3, <1>5, <1>6, OneMore
  <1>8. inst' = Rendered' /\ inst'.hydrated = inst.hydrated
    BY <1>2 DEF Rendered, Tab!SaveTimer, Tab!RetrySave
  <1>9. Hydrated'
    BY <1>1, <1>5 DEF Hydrated
  <1> QED
    BY <1>1, <1>2, <1>4, <1>7, <1>8, <1>9 DEF TabInv, Visited, Asked

LEMMA StepSave ==
    ASSUME TabInv, NEW k \in DOMAIN saves, NEW taken, NEW answered, Tab!saveLayout(k, taken, answered)
    PROVE  TabInv' /\ Tab!SavesOnlyChanges
  <1> DEFINE what == Head(saves[k])
             current == inst # None /\ k = Len(saves)
  <1>1. /\ saves[k] # <<>> /\ saves' = [saves EXCEPT ![k] = Tail(@)]
        /\ UNCHANGED <<layout, query, page>>
        /\ inst' = IF ~current THEN inst
                   ELSE IF answered THEN [inst EXCEPT !.lastSaved = what, !.sync = "saved"]
                   ELSE [inst EXCEPT !.sync = "error"]
    BY DEF Tab!saveLayout
  <1> HIDE DEF what
  <1>2. PICK S : saves \in Seq(Seq(S))
    BY DEF TabInv
  <1>3. /\ k \in 1..Len(saves) /\ saves[k] \in Seq(S) /\ DOMAIN saves = 1..Len(saves)
        /\ Tail(saves[k]) \in Seq(S) /\ Len(Tail(saves[k])) = Len(saves[k]) - 1
        /\ Len(saves) \in 1..Len(saves)
    BY <1>1, <1>2
  <1>4. /\ saves' \in Seq(Seq(S)) /\ Len(saves') = Len(saves) /\ saves' # <<>>
        /\ \A j \in DOMAIN saves : saves'[j] = IF j = k THEN Tail(saves[k]) ELSE saves[j]
    BY <1>1, <1>2, <1>3, ExceptSeq
  <1>5. Tab!SavesOnlyChanges
    <2>1. \A j \in DOMAIN saves : Len(saves[j]) \in Nat
      BY <1>2
    <2>2. \A j \in DOMAIN saves : ~(Len(saves'[j]) > Len(saves[j]))
      <3>1. SUFFICES ASSUME NEW j \in DOMAIN saves PROVE ~(Len(saves'[j]) > Len(saves[j]))
        OBVIOUS
      <3>2. CASE j = k
        <4>1. saves'[j] = Tail(saves[k])
          BY <1>4, <3>2
        <4>2. Len(saves[k]) \in Nat
          BY <2>1, <1>3
        <4> QED
          BY <1>3, <3>2, <4>1, <4>2
      <3>3. CASE j # k
        BY <1>4, <2>1, <3>3
      <3> QED
        BY <3>2, <3>3
    <2> QED
      BY <2>2 DEF Tab!SavesOnlyChanges
  <1>6. /\ page = Visited /\ page.read \in BOOLEAN /\ page.edited \in BOOLEAN
        /\ query = Asked /\ (query.status = "success" => page.read)
    BY DEF TabInv
  <1>7. CASE inst = None
    <2>1. inst' = None
      BY <1>1, <1>7
    <2> QED
      BY <1>1, <1>4, <1>5, <1>6, <2>1 DEF TabInv, Visited, Asked
  <1>8. CASE inst # None
    <2>1. /\ inst = Rendered /\ inst.hydrated \in BOOLEAN
          /\ inst.hydrated => Hydrated
          /\ ~inst.hydrated => Unhydrated
      BY <1>8 DEF TabInv
    <2>2. CASE k = Len(saves)
      <3>1. inst.hydrated /\ page.read /\ page.edited
        BY <1>1, <1>6, <2>1, <2>2 DEF Hydrated, Unhydrated
      <3>2. inst' = Rendered' /\ inst'.hydrated = inst.hydrated
        BY <1>1, <2>1, <2>2 DEF Rendered
      <3>3. Hydrated'
        BY <1>1, <3>1 DEF Hydrated
      <3> QED
        BY <1>1, <1>4, <1>5, <1>6, <2>1, <3>1, <3>2, <3>3 DEF TabInv, Visited, Asked
    <2>3. CASE k # Len(saves)
      <3>1. inst' = inst /\ saves'[Len(saves')] = saves[Len(saves)]
        BY <1>1, <1>3, <1>4, <2>3
      <3> QED
        BY <1>1, <1>4, <1>5, <1>6, <2>1, <3>1
        DEF TabInv, Visited, Asked, Hydrated, Unhydrated, Rendered
    <2> QED
      BY <2>2, <2>3
  <1> QED
    BY <1>7, <1>8

LEMMA StepTab ==
    ASSUME TabInv, Tab!Next \/ UNCHANGED tab
    PROVE  TabInv' /\ Tab!SavesOnlyChanges
  <1>1. CASE UNCHANGED tab
    BY <1>1, TabStays
  <1>2. CASE Tab!Next
    BY <1>2, StepOpen, StepLeave, StepReload, StepFetch, StepAnswer, StepEdit, StepTimer,
       StepSave DEF Tab!Next, Tab!Save
  <1> QED
    BY <1>1, <1>2

(* A save is only queued by a page that has read the stored layout and was  *)
(* edited: whatever reads fail, components are mounted and sessions end, no *)
(* default is put over what is stored (ui.ts, Workspace.tsx).               *)
THEOREM NeverClobbersEver == Spec => [][focus = "workspace" => Tab!SavesOnlyChanges]_vars
  <1> DEFINE J == focus = "workspace" => TabInv
  <1>1. Init => J
    <2>1. Tab!Init => TabInv
      <3>1. <<>> \in Seq(Seq({}))
        OBVIOUS
      <3> QED
        BY <3>1 DEF Tab!Init, TabInv, Tab!NoQuery, Visited, Asked
    <2> QED
      BY <2>1 DEF Init
  <1>2. J /\ [Next]_vars => J'
    BY FocusStays, StepTab
  <1>3. J /\ [Next]_vars => [focus = "workspace" => Tab!SavesOnlyChanges]_vars
    BY FocusStays, StepTab
  <1> QED
    BY <1>1, <1>2, <1>3, PTL DEF Spec

=============================================================================
