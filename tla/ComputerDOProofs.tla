--------------------------- MODULE ComputerDOProofs ---------------------------
(***************************************************************************)
(* What the model of the computer's Durable Object promises for every      *)
(* number of runs, generations, faults and commands: first its type        *)
(* invariant and the fencing of generations, which look at epochs only,    *)
(* then what becomes of a computer's runs, of a wake, of a rotation, of a  *)
(* generation that ends and of what is waited for, which follow the        *)
(* control of the handlers.                                                *)
(***************************************************************************)
EXTENDS ComputerDO, FiniteSetTheorems, TLAPS

-----------------------------------------------------------------------------
(* Memory.  Gen(e, h) is the set of memories of generation e with head h;  *)
(* nearly every piece of a handler maps Gen(e, h) to itself.               *)

Gen(e, h) == {y \in Meta : y.epoch = e /\ y.head = h}

LEMMA Bounds ==
    /\ 0 \in Epochs /\ 0 \in 0..MaxStrikes
    /\ 0 \in 0..(MaxStreak + 1) /\ 0 \in 0..(WakeRetries + 1)
  BY ConstAssumption DEF Epochs

(* Counting up to a bound stays within it (livenessStrikes, recoveryStreak *)
(* and wakeFailures).                                                      *)
LEMMA CappedType ==
    ASSUME NEW bound \in Nat, NEW n \in 0..bound
    PROVE  Capped(n + 1, bound) \in 0..bound
  BY DEF Capped

LEMMA SetGen ==
    ASSUME NEW e, NEW h, NEW x \in Gen(e, h), NEW S \in SUBSET Deadlines
    PROVE  Set(x, S) \in Gen(e, h) /\ Clear(x, S) \in Gen(e, h)
  BY DEF Set, Clear, Gen, Meta

LEMMA ArmLivenessGen ==
    ASSUME NEW e, NEW h, NEW x \in Gen(e, h), NEW rn
    PROVE  armLiveness(x, rn) \in Gen(e, h)
  BY SetGen DEF armLiveness, Deadlines

LEMMA ArmTierGen ==
    ASSUME NEW e, NEW h, NEW x \in Gen(e, h), NEW rn
    PROVE  armTier(x, rn) \in Gen(e, h)
  <1>1. [x EXCEPT !.stale = FALSE] \in Gen(e, h)
    BY DEF Gen, Meta
  <1> QED
    BY <1>1, SetGen, ArmLivenessGen DEF armTier, Deadlines

LEMMA TouchGen ==
    ASSUME NEW e, NEW h, NEW x \in Gen(e, h), NEW rn
    PROVE  touch(x, rn) \in Gen(e, h)
  <1>1. [x EXCEPT !.stale = TRUE] \in Gen(e, h)
    BY DEF Gen, Meta
  <1>2. [x EXCEPT !.coldPending = FALSE] \in Gen(e, h)
    BY DEF Gen, Meta
  <1> QED
    BY <1>1, <1>2, SetGen, ArmTierGen DEF touch, Deadlines

(* A mint makes the next generation and leaves the head alone.             *)
LEMMA MintedGen ==
    ASSUME NEW e, NEW h, NEW x \in Gen(e, h), x.epoch < MaxEpoch
    PROVE  Minted(x) \in Gen(e + 1, h)
  <1>1. x.epoch + 1 \in Epochs /\ x.epoch + 1 = e + 1
    BY ConstAssumption DEF Gen, Meta, Epochs
  <1>2. [x EXCEPT !.state = "waking", !.epoch = @ + 1, !.token = x.epoch + 1,
                  !.lost = FALSE, !.strikes = 0,
                  !.coldPending = FALSE, !.rotation = FALSE] \in Gen(e + 1, h)
    BY <1>1, Bounds DEF Gen, Meta
  <1> QED
    BY <1>2, SetGen DEF Minted, Deadlines

LEMMA AwakenedGen ==
    ASSUME NEW e, NEW h, NEW x \in Gen(e, h), NEW rn
    PROVE  Awakened(x, rn) \in Gen(e, h)
  <1>1. [x EXCEPT !.state = "awake", !.failures = 0] \in Gen(e, h)
    BY Bounds DEF Gen, Meta
  <1> QED
    BY <1>1, SetGen, TouchGen DEF Awakened, Deadlines

LEMMA FailedWakeGen ==
    ASSUME NEW e, NEW h, NEW x \in Gen(e, h), NEW resumable, NEW work
    PROVE  FailedWake(x, resumable, work) \in Gen(e, h)
  <1> DEFINE n == Capped(x.failures + 1, WakeRetries + 1)
             y == Clear([x EXCEPT !.failures = n],
                        {"waking", "liveness", "credential", "wakeRetry"})
             z == IF n <= WakeRetries /\ work THEN Set(y, {"wakeRetry"}) ELSE y
  <1>1. n \in 0..(WakeRetries + 1)
    BY ConstAssumption, CappedType DEF Gen, Meta
  <1>2. [x EXCEPT !.failures = n] \in Gen(e, h)
    BY <1>1 DEF Gen, Meta
  <1>3. z \in Gen(e, h)
    BY <1>2, SetGen DEF Deadlines
  <1>4. [z EXCEPT !.stale = FALSE] \in Gen(e, h)
    BY <1>3 DEF Gen, Meta
  <1>5. [z EXCEPT !.token = 0, !.handle = 0] \in Gen(e, h)
    BY <1>3, Bounds DEF Gen, Meta
  <1> QED
    BY <1>4, <1>5, SetGen DEF FailedWake, Deadlines

LEMMA RecoveredGen ==
    ASSUME NEW e, NEW h, NEW x \in Gen(e, h)
    PROVE  Recovered(x) \in Gen(e, h)
  <1>1. Capped(x.streak + 1, MaxStreak + 1) \in 0..(MaxStreak + 1)
    BY ConstAssumption, CappedType DEF Gen, Meta
  <1>2. [x EXCEPT !.handle = 0, !.token = 0, !.state = "cold",
                  !.coldPending = FALSE, !.rotation = FALSE, !.lost = FALSE,
                  !.strikes = 0, !.streak = Capped(@ + 1, MaxStreak + 1)] \in Gen(e, h)
    BY <1>1, Bounds DEF Gen, Meta
  <1> QED
    BY <1>2, SetGen DEF Recovered, Deadlines

LEMMA FinalizedGen ==
    ASSUME NEW e, NEW h, NEW x \in Gen(e, h)
    PROVE  Finalized(x) \in Gen(e, h)
  <1>1. [x EXCEPT !.handle = 0, !.token = 0, !.state = "cold",
                  !.lost = FALSE, !.strikes = 0] \in Gen(e, h)
    BY Bounds DEF Gen, Meta
  <1> QED
    BY <1>1, SetGen DEF Finalized, Deadlines

LEMMA SleptGen ==
    ASSUME NEW e, NEW h, NEW x \in Gen(e, h)
    PROVE  Slept(x) \in Gen(e, h)
  <1>1. [x EXCEPT !.state = "warm"] \in Gen(e, h)
    BY DEF Gen, Meta
  <1> QED
    BY <1>1, SetGen, ArmTierGen DEF Slept, Deadlines
-----------------------------------------------------------------------------
(* What a step does to memory, storage and the suspended operations, and   *)
(* what it does to the connections and the instances.                      *)

Disk == [meta : Meta, alarm : BOOLEAN]
Stored(e, h) == {d \in Disk : d.meta = disk.meta \/ d.meta \in Gen(e, h)}

(* Memory is left in Gen(e, h), storage holds that or what it held before, *)
(* and no materialize has been asked for.                                  *)
Mem(e, h) ==
    /\ m' \in Gen(e, h)
    /\ disk' \in Stored(e, h)
    /\ task' \in [Tasks -> Local]
    /\ Due' => Due

(* The next generation is in memory and in storage.                        *)
Mint(e, h) ==
    /\ m' \in Gen(e + 1, h)
    /\ disk' \in Disk /\ disk'.meta = m'
    /\ task' \in [Tasks -> Local]

(* No instance appears, and none changes the epoch it was given.           *)
Link ==
    /\ sup' \in Epochs
    /\ auth' \in SUBSET Instances
    /\ inst' \in [Instances -> Instance]
    /\ \A i \in Instances : /\ inst'[i].epoch = inst[i].epoch
                            /\ inst[i].st = "none" => inst'[i].st = "none"

Rest ==
    /\ run' \in [Runs -> RunRow]
    /\ ph' \in [Instances -> [Runs -> Phases]]
    /\ faults' \in 0..MaxFaults
    /\ asks' \in 0..MaxAsks
    /\ deleted' \in BOOLEAN /\ (deleted => deleted')

LEMMA CallType ==
    ASSUME NEW pc \in Pcs, NEW i \in Epochs
    PROVE  Call(pc, i) \in Local /\ Call(pc, i).pc = pc
  BY DEF Call, Local

LEMMA IdleType == Idle \in Local /\ Idle.pc = "idle"
  BY CallType, Bounds DEF Idle, Pcs

LEMMA ArmedStored ==
    ASSUME NEW e, NEW h, NEW x \in Gen(e, h)
    PROVE  Armed(x) \in Stored(e, h) /\ Armed(x).meta = x
  BY DEF Armed, Stored, Disk, Gen

LEMMA PersistedStored ==
    ASSUME NEW e, NEW h, NEW x \in Gen(e, h), NEW d \in Stored(e, h)
    PROVE  Persisted(x, d) \in Stored(e, h)
  BY DEF Persisted, Stored, Disk, Gen

LEMMA TouchedStored ==
    ASSUME NEW e, NEW h, NEW x \in Gen(e, h), NEW d \in Stored(e, h)
    PROVE  Touched(x, d) \in Stored(e, h)
  BY ArmedStored, PersistedStored DEF Touched

LEMMA DiskStored ==
    ASSUME TypeOK, NEW e, NEW h
    PROVE  disk \in Stored(e, h)
  BY DEF TypeOK, Stored, Disk

LEMMA MemoryGen ==
    ASSUME TypeOK
    PROVE  m \in Gen(m.epoch, m.head)
  BY DEF TypeOK, Gen

(* An operation that suspends itself at anything but a materialize.        *)
LEMMA AwaitMem ==
    ASSUME TypeOK, NEW e, NEW h, NEW p \in Tasks,
           NEW c \in Local, c.pc # "materialize",
           NEW x \in Gen(e, h), NEW d \in Stored(e, h), Await(p, c, x, d)
    PROVE  Mem(e, h)
  BY DEF Await, Mem, Due, TypeOK, Tasks

LEMMA EndMem ==
    ASSUME TypeOK, NEW e, NEW h, NEW p \in Tasks,
           NEW x \in Gen(e, h), NEW d \in Stored(e, h), End(p, x, d)
    PROVE  Mem(e, h)
  BY AwaitMem, IdleType, ArmedStored DEF End

LEMMA SameMem ==
    ASSUME TypeOK, NEW e, NEW h,
           m' \in Gen(e, h), disk' \in Stored(e, h), task' = task
    PROVE  Mem(e, h)
  BY DEF Mem, Due, TypeOK

LEMMA SameLink ==
    ASSUME TypeOK, UNCHANGED <<sup, auth, inst>>
    PROVE  Link
  BY DEF Link, TypeOK

LEMMA InstanceLink ==
    ASSUME TypeOK, NEW i \in Instances, NEW new \in Instance,
           inst' = [inst EXCEPT ![i] = new], new.epoch = inst[i].epoch,
           inst[i].st = "none" => new.st = "none",
           sup' \in Epochs, auth' \in SUBSET Instances
    PROVE  Link
  BY DEF Link, TypeOK

LEMMA DropLink ==
    ASSUME TypeOK, dropSupervisorSockets
    PROVE  Link
  BY Bounds DEF Link, TypeOK, dropSupervisorSockets, Instance

LEMMA BeginWakeMint ==
    ASSUME NEW e, NEW h, NEW x \in Gen(e, h),
           NEW tk \in [Tasks -> Local], BeginWake(x, tk)
    PROVE  Mint(e, h)
  <1>1. Minted(x) \in Gen(e + 1, h)
    BY MintedGen DEF BeginWake
  <1>2. Armed(Minted(x)) \in Disk /\ Armed(Minted(x)).meta = Minted(x)
    BY <1>1, ArmedStored DEF Stored
  <1>3. Call("resume", x.handle) \in Local /\ Call("materialize", 0) \in Local
    BY CallType, Bounds DEF Gen, Meta, Pcs
  <1>4. task' \in [Tasks -> Local]
    BY <1>3 DEF BeginWake
  <1> QED
    BY <1>1, <1>2, <1>4 DEF BeginWake, Mint

LEMMA WakeInnerMem ==
    ASSUME TypeOK, NEW e, NEW h, NEW x \in Gen(e, h), NEW d \in Stored(e, h),
           NEW tk \in [Tasks -> Local], tk["wake"] = task["wake"],
           NEW rn, wakeInner(x, d, tk, rn)
    PROVE  Mem(e, h) \/ Mint(e, h)
  <1>1. CASE m' = touch(x, rn) /\ disk' = Touched(touch(x, rn), d) /\ task' = tk
    BY <1>1, TouchGen, TouchedStored DEF Mem, Due
  <1>2. CASE /\ m' = x /\ disk' = d
             /\ task' = [tk EXCEPT !["wake"] = Call("verify", x.handle)]
    <2>1. Call("verify", x.handle) \in Local /\ Call("verify", x.handle).pc = "verify"
      BY CallType DEF Gen, Meta, Pcs
    <2> QED
      BY <1>2, <2>1 DEF Mem, Due, Tasks
  <1>3. CASE BeginWake(x, tk)
    BY <1>3, BeginWakeMint
  <1> QED
    BY <1>1, <1>2, <1>3 DEF wakeInner

LEMMA WakeInBackgroundMem ==
    ASSUME TypeOK, NEW e, NEW h, NEW x \in Gen(e, h), NEW d \in Stored(e, h),
           NEW tk \in [Tasks -> Local], tk["wake"] = task["wake"],
           NEW rn, wakeInBackground(x, d, tk, rn)
    PROVE  Mem(e, h) \/ Mint(e, h)
  <1>1. CASE m' = x /\ disk' = d /\ task' = tk
    BY <1>1 DEF Mem, Due
  <1>2. CASE wakeInner(x, d, tk, rn)
    BY <1>2, WakeInnerMem
  <1> QED
    BY <1>1, <1>2 DEF wakeInBackground

LEMMA FailWakeEndMem ==
    ASSUME TypeOK, NEW e, NEW h, NEW p \in Tasks, NEW x \in Gen(e, h),
           NEW resumable, failWakeEnd(p, x, resumable)
    PROVE  Mem(e, h)
  <1>1. FailedWake(x, resumable, pendingWork(run)) \in Gen(e, h)
    BY FailedWakeGen
  <1>2. Call("sync", 0) \in Local /\ Call("sync", 0).pc = "sync"
    BY CallType, Bounds DEF Pcs
  <1> QED
    BY <1>1, <1>2, ArmedStored, AwaitMem DEF failWakeEnd

LEMMA FailWakeMem ==
    ASSUME TypeOK, NEW e, NEW h, NEW p \in Tasks, NEW x \in Gen(e, h),
           NEW resumable, NEW d \in Stored(e, h), failWake(p, x, resumable, d)
    PROVE  Mem(e, h)
  <1> DEFINE y == [x EXCEPT !.state = IF resumable THEN "warm" ELSE "cold"]
  <1>1. y \in Gen(e, h)
    BY DEF Gen, Meta
  <1>2. ASSUME failWakeEnd(p, y, resumable) PROVE Mem(e, h)
    BY <1>1, <1>2, FailWakeEndMem
  <1>3. Call("tear", x.handle) \in Local /\ Call("tear", x.handle).pc = "tear"
    BY CallType DEF Gen, Meta, Pcs
  <1> QED
    BY <1>1, <1>2, <1>3, AwaitMem DEF failWake

(* What an operation had read before its call is kept with the call.       *)
LEMMA ReadsType ==
    ASSUME NEW c \in Local, NEW w \in BOOLEAN, NEW b \in BOOLEAN
    PROVE  /\ [c EXCEPT !.rewake = b, !.work = w] \in Local
           /\ [c EXCEPT !.rewake = b, !.work = w].pc = c.pc
           /\ [c EXCEPT !.work = w, !.live = b] \in Local
           /\ [c EXCEPT !.work = w, !.live = b].pc = c.pc
  BY DEF Local

LEMMA RecoverSettlesMem ==
    ASSUME TypeOK, NEW e, NEW h, NEW x \in Gen(e, h), NEW d \in Stored(e, h),
           NEW tk \in [Tasks -> Local],
           tk["wake"] = task["wake"] \/ tk["wake"].pc # "materialize",
           RecoverSettles(x, d, tk)
    PROVE  Mem(e, h) /\ Link
  <1>1. Recovered(x) \in Gen(e, h)
    BY RecoveredGen
  <1>2. [tk EXCEPT !["recover"].pc = "settled"] \in [Tasks -> Local]
    BY DEF Local, Pcs
  <1>3. Mem(e, h)
    BY <1>1, <1>2, PersistedStored DEF RecoverSettles, Mem, Due, Tasks
  <1> QED
    BY <1>3, DropLink DEF RecoverSettles

LEMMA RecoverMem ==
    ASSUME TypeOK, NEW e, NEW h, NEW p \in Tasks, NEW x \in Gen(e, h),
           NEW d \in Stored(e, h), NEW rewake \in BOOLEAN,
           recover(p, x, d, rewake)
    PROVE  Mem(e, h) /\ Link
  <1> DEFINE tk == [task EXCEPT ![p] = Call("join", 0)]
             c  == [Call("destroy", x.handle) EXCEPT !.rewake = rewake,
                                                     !.work = pendingWork(run)]
             tc == [tk EXCEPT !["recover"] = c]
  <1>1. Call("join", 0) \in Local /\ Call("join", 0).pc = "join"
    BY CallType, Bounds DEF Pcs
  <1>2. Call("destroy", x.handle) \in Local
    BY CallType DEF Gen, Meta, Pcs
  <1>3. c \in Local
    BY <1>2, ReadsType DEF pendingWork
  <1>4. tk \in [Tasks -> Local] /\ tc \in [Tasks -> Local]
    BY <1>1, <1>3 DEF TypeOK
  <1>5. /\ tk["wake"] = task["wake"] \/ tk["wake"].pc # "materialize"
        /\ tc["wake"] = task["wake"] \/ tc["wake"].pc # "materialize"
    BY <1>1 DEF TypeOK, Tasks
  <1>6. CASE RecoverSettles(x, d, tc)
    BY <1>4, <1>5, <1>6, RecoverSettlesMem
  <1>7. CASE /\ m' = x /\ disk' = d /\ task' \in {tk, tc}
             /\ UNCHANGED <<sup, auth, inst>>
    BY <1>4, <1>5, <1>7, SameLink DEF Mem, Due
  <1> QED
    BY <1>6, <1>7 DEF recover

LEMMA FinalizeSettlesMem ==
    ASSUME TypeOK, NEW e, NEW h, NEW p \in Tasks, NEW x \in Gen(e, h),
           NEW d \in Stored(e, h), FinalizeSettles(p, x, d)
    PROVE  Mem(e, h)
  <1>1. Call("settled", 0) \in Local /\ Call("settled", 0).pc = "settled"
    BY CallType, Bounds DEF Pcs
  <1> QED
    BY <1>1, FinalizedGen, PersistedStored, AwaitMem DEF FinalizeSettles

(* A final manifest makes the head the current generation's.               *)
LEMMA FinalizeColdMem ==
    ASSUME TypeOK, NEW p \in Tasks, NEW x \in Gen(m.epoch, m.head),
           NEW final \in BOOLEAN,
           NEW d \in Stored(m.epoch, IF final THEN m.epoch ELSE m.head),
           finalizeCold(p, x, d, final)
    PROVE  Mem(m.epoch, IF final THEN m.epoch ELSE m.head)
  <1> DEFINE h == IF final THEN m.epoch ELSE m.head
             y == [x EXCEPT !.head = IF final THEN x.epoch ELSE @,
                            !.coldPending = FALSE, !.rotation = FALSE]
  <1>1. y \in Gen(m.epoch, h) /\ y.handle = x.handle
    BY DEF Gen, Meta
  <1>2. CASE FinalizeSettles(p, y, d)
    BY <1>1, <1>2, FinalizeSettlesMem
  <1>3. CASE Await(p, Call("destroy", x.handle), y, d)
    <2>1. Call("destroy", x.handle) \in Local /\ Call("destroy", x.handle).pc = "destroy"
      BY CallType DEF Gen, Meta, Pcs
    <2> QED
      BY <1>1, <1>3, <2>1, AwaitMem
  <1> QED
    BY <1>2, <1>3 DEF finalizeCold

LEMMA AskedLink ==
    ASSUME TypeOK, UNCHANGED <<sup, auth>>, sup # 0,
           inst' = [inst EXCEPT ![sup].prep = "asked"]
    PROVE  Link
  <1> DEFINE new == [inst[sup] EXCEPT !.prep = "asked"]
  <1>1. sup \in Instances /\ sup \in Epochs /\ auth \in SUBSET Instances
    BY Bounds DEF TypeOK, Epochs, Instances
  <1>2. inst[sup] \in Instance
    BY <1>1 DEF TypeOK
  <1>3. new \in Instance /\ new.epoch = inst[sup].epoch /\ new.st = inst[sup].st
    BY <1>2 DEF Instance
  <1>4. inst' = [inst EXCEPT ![sup] = new]
    OBVIOUS
  <1> HIDE DEF new
  <1> QED
    BY <1>1, <1>3, <1>4, InstanceLink

LEMMA PrepareForColdMem ==
    ASSUME TypeOK, NEW e, NEW h, NEW p \in Tasks, NEW x \in Gen(e, h),
           prepareForCold(p, x), UNCHANGED <<sup, auth>>
    PROVE  Mem(e, h) /\ Link
  <1> DEFINE y == Set([x EXCEPT !.coldPending = TRUE], {"cold"})
  <1>1. [x EXCEPT !.coldPending = TRUE] \in Gen(e, h)
    BY DEF Gen, Meta
  <1>2. y \in Gen(e, h)
    BY <1>1, SetGen DEF Deadlines
  <1>3. Mem(e, h)
    BY <1>2, IdleType, ArmedStored, AwaitMem DEF prepareForCold
  <1> QED
    BY <1>3, AskedLink, SameLink DEF prepareForCold

LEMMA BeginColdMem ==
    ASSUME TypeOK, NEW p \in Tasks, NEW x \in Gen(m.epoch, m.head),
           NEW d \in Stored(m.epoch, m.head),
           beginCold(p, x, d), UNCHANGED <<sup, auth>>
    PROVE  Mem(m.epoch, m.head) /\ Link
  <1>1. CASE finalizeCold(p, x, d, FALSE) /\ UNCHANGED inst
    BY <1>1, FinalizeColdMem, SameLink
  <1>2. CASE Await(p, Call("resumeCold", x.handle), x, d) /\ UNCHANGED inst
    <2>1. /\ Call("resumeCold", x.handle) \in Local
          /\ Call("resumeCold", x.handle).pc = "resumeCold"
      BY CallType DEF Gen, Meta, Pcs
    <2> QED
      BY <1>2, <2>1, AwaitMem, SameLink
  <1>3. CASE prepareForCold(p, x)
    BY <1>3, PrepareForColdMem
  <1> QED
    BY <1>1, <1>2, <1>3 DEF beginCold

LEMMA LivenessCheckMem ==
    ASSUME TypeOK, NEW e, NEW h, NEW p \in Tasks, NEW x \in Gen(e, h),
           NEW d \in Stored(e, h), livenessCheck(p, x, d)
    PROVE  Mem(e, h) /\ Link
  <1>1. [x EXCEPT !.lost = FALSE] \in Gen(e, h) /\ [x EXCEPT !.strikes = 0] \in Gen(e, h)
    BY Bounds DEF Gen, Meta
  <1>2. CASE /\ \/ End(p, x, d)
                \/ End(p, [x EXCEPT !.lost = FALSE], d)
                \/ End(p, armLiveness([x EXCEPT !.strikes = 0], run), d)
             /\ UNCHANGED <<sup, auth, inst>>
    BY <1>1, <1>2, ArmLivenessGen, EndMem, SameLink
  <1>3. CASE recover(p, x, d, TRUE)
    BY <1>3, RecoverMem
  <1>4. CASE /\ Await(p, [Call("probe", x.handle) EXCEPT
                            !.work = pendingWork(run), !.live = liveSupervisor], x, d)
             /\ UNCHANGED <<sup, auth, inst>>
    <2>1. Call("probe", x.handle) \in Local /\ Call("probe", x.handle).pc = "probe"
      BY CallType DEF Gen, Meta, Pcs
    <2>2. pendingWork(run) \in BOOLEAN /\ liveSupervisor \in BOOLEAN
      BY DEF pendingWork, liveSupervisor
    <2> QED
      BY <1>4, <2>1, <2>2, ReadsType, AwaitMem, SameLink
  <1> QED
    BY <1>2, <1>3, <1>4 DEF livenessCheck

-----------------------------------------------------------------------------
(* Every action of the model is one of six kinds of step.                  *)

Keeping   == Mem(m.epoch, m.head) /\ Link
Minting   == Mint(m.epoch, m.head) /\ Link
Advancing == Mem(m.epoch, m.epoch) /\ Link
Creating  ==
    /\ Due /\ ~Due'
    /\ task' \in [Tasks -> Local]
    /\ UNCHANGED <<m, disk, sup, auth>>
    /\ \E i \in Instances :
         inst[i].st = "none" /\ inst' = [inst EXCEPT ![i].st = "up", ![i].epoch = m.epoch]
Reviving  ==
    /\ m' \in Gen(disk.meta.epoch, disk.meta.head)
    /\ disk' \in Disk /\ disk'.meta = m'
    /\ task' \in [Tasks -> Local] /\ ~Due'
    /\ Link
Deleted   ==
    /\ deleted' /\ m' \in Meta /\ disk' \in Disk
    /\ task' \in [Tasks -> Local] /\ Link

Kind == Keeping \/ Minting \/ Advancing \/ Creating \/ Reviving \/ Deleted

LEMMA KindType ==
    ASSUME TypeOK, Kind, Rest
    PROVE  TypeOK'
  <1>1. CASE Keeping \/ Advancing
    BY <1>1 DEF Keeping, Advancing, Mem, Link, Gen, Stored, Disk, Rest, TypeOK
  <1>2. CASE Minting
    BY <1>2 DEF Minting, Mint, Link, Gen, Disk, Rest, TypeOK
  <1>3. CASE Creating
    <2>1. m.epoch \in Epochs
      BY DEF TypeOK, Meta
    <2>2. PICK i \in Instances :
            inst' = [inst EXCEPT ![i].st = "up", ![i].epoch = m.epoch]
      BY <1>3 DEF Creating
    <2>3. [inst[i] EXCEPT !.st = "up", !.epoch = m.epoch] \in Instance
      BY <2>1 DEF TypeOK, Instance
    <2>4. inst' \in [Instances -> Instance]
      BY <2>2, <2>3 DEF TypeOK
    <2> QED
      BY <1>3, <2>4 DEF Creating, Rest, TypeOK
  <1>4. CASE Reviving
    BY <1>4 DEF Reviving, Link, Gen, Disk, Rest, TypeOK
  <1>5. CASE Deleted
    BY <1>5 DEF Deleted, Link, Disk, Rest, TypeOK
  <1> QED
    BY <1>1, <1>2, <1>3, <1>4, <1>5 DEF Kind

LEMMA FaultType ==
    ASSUME TypeOK, NEW f, Fault(f)
    PROVE  faults' \in 0..MaxFaults
  BY ConstAssumption DEF TypeOK, Fault

LEMMA AskType ==
    ASSUME TypeOK, NEW op, Ask(op)
    PROVE  asks' \in 0..MaxAsks
  BY ConstAssumption DEF TypeOK, Ask

LEMMA OverType ==
    ASSUME TypeOK, NEW p \in Tasks, Over(p) \/ Refused(p) \/ Answered(p)
    PROVE  faults' \in 0..MaxFaults
  BY FaultType DEF Over, Refused, Answered, TypeOK

LEMMA SameRest ==
    ASSUME TypeOK, UNCHANGED <<run, ph, deleted>>,
           faults' \in 0..MaxFaults, asks' \in 0..MaxAsks
    PROVE  Rest
  BY DEF Rest, TypeOK

LEMMA DegradeType ==
    ASSUME NEW rn \in [Runs -> RunRow]
    PROVE  degradeInFlightRuns(rn) \in [Runs -> RunRow]
  <1> SUFFICES ASSUME NEW r \in Runs
               PROVE  degradeInFlightRuns(rn)[r] \in RunRow
    BY DEF degradeInFlightRuns
  <1>1. rn[r] \in RunRow /\ [rn[r] EXCEPT !.status = "interrupted"] \in RunRow
    BY DEF RunRow, Statuses
  <1>2. ASSUME rn[r].requeues < MaxRequeues
        PROVE  [rn[r] EXCEPT !.status = "queued", !.requeues = @ + 1] \in RunRow
    <2>1. rn[r].requeues + 1 \in 0..MaxRequeues
      BY <1>1, <1>2, ConstAssumption DEF RunRow
    <2> QED
      BY <1>1, <2>1 DEF RunRow, Statuses
  <1> QED
    BY <1>1, <1>2 DEF degradeInFlightRuns

LEMMA ClaimedType ==
    ASSUME NEW rn \in [Runs -> RunRow]
    PROVE  Claimed(rn) \in [Runs -> RunRow]
  BY DEF Claimed, RunRow, Statuses

LEMMA SentType ==
    ASSUME TypeOK, NEW i \in Instances, NEW rn
    PROVE  Sent(i, rn) \in [Instances -> [Runs -> Phases]]
  BY DEF Sent, TypeOK, Phases

-----------------------------------------------------------------------------
(* Waking.                                                                 *)

LEMMA WakingStep ==
    ASSUME TypeOK, Waking
    PROVE  Kind /\ Rest
  <1> USE MemoryGen, DiskStored
  <1>0. faults \in 0..MaxFaults /\ asks \in 0..MaxAsks /\ task \in [Tasks -> Local]
    BY DEF TypeOK
  <1>1. CASE Wake
    <2>1. Mem(m.epoch, m.head) \/ Mint(m.epoch, m.head)
      BY <1>0, <1>1, WakeInnerMem DEF Wake
    <2> QED
      BY <1>0, <1>1, <2>1, SameLink, AskType, SameRest
      DEF Wake, Kind, Keeping, Minting
  <1>2. CASE WakeVerified
    BY <1>0, <1>2, RecoverMem, SameRest DEF WakeVerified, Tasks, Kind, Keeping
  <1>3. CASE WakeMaterialized
    <2>1. [m EXCEPT !.handle = task["wake"].on] \in Gen(m.epoch, m.head)
      BY <1>0 DEF Gen, Meta, Tasks, Local
    <2>2. Call("sync", 0) \in Local /\ Call("sync", 0).pc = "sync"
      BY CallType, Bounds DEF Pcs
    <2>3. Mem(m.epoch, m.head)
      BY <1>3, <2>1, <2>2, AwakenedGen, ArmedStored, AwaitMem DEF WakeMaterialized, Tasks
    <2> QED
      BY <1>0, <1>3, <2>3, SameLink, SameRest DEF WakeMaterialized, Kind, Keeping
  <1>4. CASE WakeResumed
    <2>1. Call("sync", 0) \in Local /\ Call("sync", 0).pc = "sync"
      BY CallType, Bounds DEF Pcs
    <2>2. Mem(m.epoch, m.head)
      BY <1>4, <2>1, AwakenedGen, ArmedStored, AwaitMem DEF WakeResumed, Tasks
    <2> QED
      BY <1>0, <1>4, <2>2, SameLink, SameRest DEF WakeResumed, Kind, Keeping
  <1>5. CASE WakeRefused
    <2>1. Call("reprobe", m.handle) \in Local /\ Call("reprobe", m.handle).pc = "reprobe"
      BY CallType DEF TypeOK, Meta, Pcs
    <2>2. Mem(m.epoch, m.head)
      <3>1. CASE Await("wake", Call("reprobe", m.handle), m, disk)
        BY <2>1, <3>1, AwaitMem DEF Tasks
      <3>2. CASE failWake("wake", m, FALSE, disk)
        BY <3>2, FailWakeMem DEF Tasks
      <3> QED
        BY <1>5, <3>1, <3>2 DEF WakeRefused
    <2>3. Rest
      BY <1>0, <1>5, OverType, SameRest DEF WakeRefused, Tasks
    <2> QED
      BY <1>5, <2>2, <2>3, SameLink DEF WakeRefused, Kind, Keeping
  <1>6. CASE WakeReprobed
    <2>1. Mem(m.epoch, m.head) /\ Link
      BY <1>6, RecoverMem, FailWakeMem, SameLink DEF WakeReprobed, Tasks
    <2>2. faults' \in 0..MaxFaults
      BY <1>0, <1>6, FaultType DEF WakeReprobed, Gone, Alive, Unknown
    <2> QED
      BY <1>0, <1>6, <2>1, <2>2, SameRest DEF WakeReprobed, Kind, Keeping
  <1>7. ASSUME NEW p \in {"wake", "alarm"}, TornDown(p)
        PROVE  Kind /\ Rest
    <2>3. Mem(m.epoch, m.head)
      BY <1>7, FailWakeEndMem DEF TornDown, Tasks
    <2> QED
      BY <1>0, <1>7, <2>3, OverType, SameLink, SameRest DEF TornDown, Tasks, Kind, Keeping
  <1>8. ASSUME NEW p \in {"wake", "alarm"}, Synced(p)
        PROVE  Kind /\ Rest
    BY <1>0, <1>8, EndMem, SameLink, SameRest DEF Synced, Tasks, Kind, Keeping
  <1> QED
    BY <1>1, <1>2, <1>3, <1>4, <1>5, <1>6, <1>7, <1>8 DEF Waking

(* Recovery.                                                               *)

LEMMA RecoveringStep ==
    ASSUME TypeOK, Recovering
    PROVE  Kind /\ Rest
  <1> USE MemoryGen, DiskStored
  <1>0. /\ faults \in 0..MaxFaults /\ asks \in 0..MaxAsks
        /\ task \in [Tasks -> Local] /\ run \in [Runs -> RunRow]
    BY DEF TypeOK
  <1>1. CASE RecoverDestroyed
    <2>1. Mem(m.epoch, m.head) /\ Link
      BY <1>0, <1>1, RecoverSettlesMem DEF RecoverDestroyed
    <2> QED
      BY <1>0, <1>1, <2>1, OverType, SameRest DEF RecoverDestroyed, Tasks, Kind, Keeping
  <1>2. CASE RecoverEnds
    <2> DEFINE rn == degradeInFlightRuns(run)
               tk == [task EXCEPT !["recover"] = Idle]
    <2>1. rn \in [Runs -> RunRow]
      BY <1>0, DegradeType
    <2>2. tk \in [Tasks -> Local] /\ tk["wake"] = task["wake"]
      BY <1>0, IdleType DEF Tasks
    <2>3. Rest /\ Link
      BY <1>0, <1>2, <2>1, SameLink DEF RecoverEnds, Rest, TypeOK
    <2>4. CASE BeginWake(m, tk)
      BY <2>2, <2>3, <2>4, BeginWakeMint DEF Kind, Minting
    <2>5. CASE wakeInBackground(m, Persisted(m, disk), tk, rn)
      BY <2>2, <2>3, <2>5, PersistedStored, WakeInBackgroundMem DEF Kind, Keeping, Minting
    <2>6. CASE m' = m /\ disk' = Armed(m) /\ task' = tk
      BY <2>2, <2>3, <2>6, ArmedStored DEF Mem, Due, Kind, Keeping
    <2> QED
      BY <1>2, <2>4, <2>5, <2>6 DEF RecoverEnds
  <1>3. ASSUME NEW p \in {"alarm", "health", "rpc"}, Joined(p)
        PROVE  Kind /\ Rest
    BY <1>0, <1>3, EndMem, SameLink, SameRest DEF Joined, Tasks, Kind, Keeping
  <1> QED
    BY <1>1, <1>2, <1>3 DEF Recovering

-----------------------------------------------------------------------------
(* The alarm.                                                              *)

(* Clearing the slot of the deadline that is due is durable and changes    *)
(* nothing else.                                                           *)
LEMMA FiredGen ==
    ASSUME TypeOK, NEW name \in Deadlines
    PROVE  /\ Fired(name) \in Gen(m.epoch, m.head)
           /\ FiredDisk(name) \in Stored(m.epoch, m.head)
  <1>1. Fired(name) \in Gen(m.epoch, m.head)
    BY MemoryGen, SetGen DEF Fired
  <1> QED
    BY <1>1 DEF FiredDisk, Stored, Disk, Gen

LEMMA AlarmsStep ==
    ASSUME TypeOK, Alarms
    PROVE  Kind /\ Rest
  <1> USE MemoryGen, DiskStored
  <1>0. /\ faults \in 0..MaxFaults /\ asks \in 0..MaxAsks
        /\ task \in [Tasks -> Local]
        /\ "alarm" \in Tasks
    BY DEF TypeOK, Tasks
  <1>1. CASE AlarmEmpty
    <2>1. disk' \in Stored(m.epoch, m.head)
      BY <1>1 DEF AlarmEmpty, Stored, Disk, TypeOK
    <2> QED
      BY <1>0, <1>1, <2>1, SameMem, SameLink, SameRest DEF AlarmEmpty, Kind, Keeping
  <1>2. CASE onWakeRetryDeadline
    <2>1. /\ Fired("wakeRetry") \in Gen(m.epoch, m.head)
          /\ FiredDisk("wakeRetry") \in Stored(m.epoch, m.head)
      BY FiredGen DEF Deadlines
    <2>2. Mint(m.epoch, m.head) \/ Mem(m.epoch, m.head)
      BY <1>0, <1>2, <2>1, BeginWakeMint, EndMem DEF onWakeRetryDeadline
    <2> QED
      BY <1>0, <1>2, <2>2, SameLink, SameRest
      DEF onWakeRetryDeadline, Kind, Keeping, Minting
  <1>3. CASE onWakingDeadline
    <2> DEFINE x == Fired("waking")
               d == FiredDisk("waking")
    <2>1. x \in Gen(m.epoch, m.head) /\ d \in Stored(m.epoch, m.head)
      BY FiredGen DEF Deadlines
    <2>2. Set(x, {"waking"}) \in Gen(m.epoch, m.head)
      BY <2>1, SetGen DEF Deadlines
    <2>3. \/ End("alarm", x, d) \/ End("alarm", Set(x, {"waking"}), d)
          \/ failWake("alarm", x, FALSE, d)
      BY <1>3 DEF onWakingDeadline
    <2>4. Mem(m.epoch, m.head)
      BY <1>0, <2>1, <2>2, <2>3, EndMem, FailWakeMem
    <2> QED
      BY <1>0, <1>3, <2>4, SameLink, SameRest DEF onWakingDeadline, Kind, Keeping
  <1>4. CASE onLivenessDeadline
    <2>1. /\ Fired("liveness") \in Gen(m.epoch, m.head)
          /\ FiredDisk("liveness") \in Stored(m.epoch, m.head)
      BY FiredGen DEF Deadlines
    <2> QED
      BY <1>0, <1>4, <2>1, LivenessCheckMem, SameRest
      DEF onLivenessDeadline, Kind, Keeping
  <1>5. CASE onColdDeadline
    <2>1. /\ Fired("cold") \in Gen(m.epoch, m.head)
          /\ FiredDisk("cold") \in Stored(m.epoch, m.head)
      BY FiredGen DEF Deadlines
    <2>2. Mem(m.epoch, m.head)
      <3>1. CASE End("alarm", Fired("cold"), FiredDisk("cold"))
        BY <1>0, <2>1, <3>1, EndMem
      <3>2. CASE finalizeCold("alarm", Fired("cold"), FiredDisk("cold"), FALSE)
        BY <1>0, <2>1, <3>2, FinalizeColdMem
      <3> QED
        BY <1>5, <3>1, <3>2 DEF onColdDeadline
    <2> QED
      BY <1>0, <1>5, <2>2, SameLink, SameRest DEF onColdDeadline, Kind, Keeping
  <1>6. CASE onCredentialDeadline
    <2> DEFINE x == Fired("credential")
               d == FiredDisk("credential")
               y == [x EXCEPT !.rotation = TRUE]
    <2>1. x \in Gen(m.epoch, m.head) /\ d \in Stored(m.epoch, m.head)
      BY FiredGen DEF Deadlines
    <2>2. y \in Gen(m.epoch, m.head)
      BY <2>1 DEF Gen, Meta
    <2>3. UNCHANGED <<sup, auth>>
      BY <1>6 DEF onCredentialDeadline
    <2>4. CASE beginCold("alarm", y, d)
      BY <1>0, <1>6, <2>1, <2>2, <2>3, <2>4, BeginColdMem, SameRest
      DEF onCredentialDeadline, Kind, Keeping
    <2>5. CASE End("alarm", x, d) /\ UNCHANGED inst
      BY <1>0, <1>6, <2>1, <2>3, <2>5, EndMem, SameLink, SameRest
      DEF onCredentialDeadline, Kind, Keeping
    <2> QED
      BY <1>6, <2>4, <2>5 DEF onCredentialDeadline
  <1>7. CASE onTierDeadline
    <2> DEFINE x == Fired("tier")
               d == FiredDisk("tier")
    <2>1. x \in Gen(m.epoch, m.head) /\ d \in Stored(m.epoch, m.head)
      BY FiredGen DEF Deadlines
    <2>2. UNCHANGED <<sup, auth>> /\ Rest
      BY <1>0, <1>7, SameRest DEF onTierDeadline
    <2>3. armTier(x, run) \in Gen(m.epoch, m.head) /\ Slept(x) \in Gen(m.epoch, m.head)
      BY <2>1, ArmTierGen, SleptGen
    <2>4. CASE /\ \/ End("alarm", x, d) \/ End("alarm", armTier(x, run), d)
                  \/ End("alarm", Slept(x), d)
               /\ UNCHANGED inst
      BY <1>0, <2>1, <2>2, <2>3, <2>4, EndMem, SameLink DEF Kind, Keeping
    <2>5. CASE Await("alarm", Call("sleep", x.handle), x, d) /\ UNCHANGED inst
      <3>1. Call("sleep", x.handle) \in Local /\ Call("sleep", x.handle).pc = "sleep"
        BY <2>1, CallType DEF Gen, Meta, Pcs
      <3> QED
        BY <1>0, <2>1, <2>2, <2>5, <3>1, AwaitMem, SameLink DEF Kind, Keeping
    <2>6. CASE beginCold("alarm", x, d)
      BY <1>0, <2>1, <2>2, <2>6, BeginColdMem DEF Kind, Keeping
    <2> QED
      BY <1>7, <2>4, <2>5, <2>6 DEF onTierDeadline
  <1> QED
    BY <1>1, <1>2, <1>3, <1>4, <1>5, <1>6, <1>7 DEF Alarms

LEMMA CheckingStep ==
    ASSUME TypeOK, Checking
    PROVE  Kind /\ Rest
  <1> USE MemoryGen, DiskStored
  <1>0. faults \in 0..MaxFaults /\ asks \in 0..MaxAsks
    BY DEF TypeOK
  <1>1. CASE healthCheck
    BY <1>0, <1>1, LivenessCheckMem, AskType, SameRest
    DEF healthCheck, Tasks, Kind, Keeping
  <1>2. ASSUME NEW p \in {"alarm", "health"}, Probed(p)
        PROVE  Kind /\ Rest
    <2> DEFINE hit == [m EXCEPT !.strikes = Capped(@ + 1, MaxStrikes)]
    <2>1. Capped(m.strikes + 1, MaxStrikes) \in 0..MaxStrikes
      BY ConstAssumption, CappedType DEF TypeOK, Meta
    <2>2. hit \in Gen(m.epoch, m.head) /\ [m EXCEPT !.lost = FALSE] \in Gen(m.epoch, m.head)
      BY <2>1 DEF Gen, Meta
    <2>3. armLiveness(hit, run) \in Gen(m.epoch, m.head)
      BY <2>2, ArmLivenessGen
    <2>4. faults' \in 0..MaxFaults /\ UNCHANGED <<run, ph, asks, deleted>>
      BY <1>0, <1>2, FaultType DEF Probed, Gone, Alive, Unknown
    <2>5. \/ recover(p, m, disk, TRUE) \/ recover(p, hit, disk, TRUE)
          \/ /\ \/ End(p, armLiveness(hit, run), disk)
                \/ End(p, [m EXCEPT !.lost = FALSE], disk)
             /\ UNCHANGED <<sup, auth, inst>>
      BY <1>2 DEF Probed
    <2>6. Mem(m.epoch, m.head) /\ Link
      <3>1. CASE recover(p, m, disk, TRUE) \/ recover(p, hit, disk, TRUE)
        BY <2>2, <3>1, RecoverMem DEF Tasks
      <3>2. CASE /\ \/ End(p, armLiveness(hit, run), disk)
                    \/ End(p, [m EXCEPT !.lost = FALSE], disk)
                 /\ UNCHANGED <<sup, auth, inst>>
        BY <2>2, <2>3, <3>2, EndMem, SameLink DEF Tasks
      <3> QED
        BY <2>5, <3>1, <3>2
    <2> QED
      BY <1>0, <2>4, <2>6, SameRest DEF Kind, Keeping
  <1> QED
    BY <1>1, <1>2 DEF Checking

-----------------------------------------------------------------------------
(* Sleep, COLD and deletion.                                               *)

LEMMA SleepingStep ==
    ASSUME TypeOK, Sleeping
    PROVE  Kind /\ Rest
  <1> USE MemoryGen, DiskStored
  <1>0. /\ faults \in 0..MaxFaults /\ asks \in 0..MaxAsks
        /\ run \in [Runs -> RunRow] /\ m.handle \in Epochs
        /\ {"alarm", "rpc", "msg"} \subseteq Tasks
    BY DEF TypeOK, Tasks, Meta
  <1>1. CASE sleepNow
    <2>1. Call("sleep", m.handle) \in Local /\ Call("sleep", m.handle).pc = "sleep"
      BY <1>0, CallType DEF Pcs
    <2> QED
      BY <1>0, <1>1, <2>1, AwaitMem, SameLink, AskType, SameRest
      DEF sleepNow, Kind, Keeping
  <1>2. CASE deepSleepNow
    BY <1>0, <1>2, BeginColdMem, AskType, SameRest DEF deepSleepNow, Kind, Keeping
  <1>3. CASE TierSlept
    <2>1. Mem(m.epoch, m.head)
      BY <1>0, <1>3, SleptGen, EndMem DEF TierSlept
    <2> QED
      BY <1>0, <1>3, <2>1, OverType, SameLink, SameRest DEF TierSlept, Kind, Keeping
  <1>4. CASE RpcSlept
    <2> DEFINE y == [m EXCEPT !.state = "warm", !.lost = FALSE, !.stale = FALSE]
               z == Set(Clear(y, {"liveness"}), {"tier"})
    <2>1. y \in Gen(m.epoch, m.head)
      BY DEF Gen, Meta
    <2>2. z \in Gen(m.epoch, m.head)
      BY <2>1, SetGen DEF Deadlines
    <2>3. Mem(m.epoch, m.head)
      BY <1>0, <1>4, <2>2, IdleType, ArmedStored, AwaitMem DEF RpcSlept
    <2> QED
      BY <1>0, <1>4, <2>3, OverType, SameLink, SameRest DEF RpcSlept, Kind, Keeping
  <1>5. ASSUME NEW p \in {"alarm", "rpc"}, SleepRefused(p)
        PROVE  Kind /\ Rest
    <2>1. Call("sleepProbe", m.handle) \in Local /\ Call("sleepProbe", m.handle).pc = "sleepProbe"
      BY <1>0, CallType DEF Pcs
    <2>2. Mem(m.epoch, m.head) /\ Link
      <3>1. CASE recover(p, m, disk, TRUE)
        BY <1>0, <3>1, RecoverMem
      <3>2. CASE /\ Await(p, Call("sleepProbe", m.handle), m, disk)
                 /\ UNCHANGED <<sup, auth, inst>>
        BY <1>0, <2>1, <3>2, AwaitMem, SameLink
      <3> QED
        BY <1>5, <3>1, <3>2 DEF SleepRefused
    <2> QED
      BY <1>0, <1>5, <2>2, OverType, SameRest DEF SleepRefused, Kind, Keeping
  <1>6. ASSUME NEW p \in {"alarm", "rpc"}, SleepProbed(p)
        PROVE  Kind /\ Rest
    <2>1. Rest
      BY <1>0, <1>6, FaultType, SameRest DEF SleepProbed, Gone, Alive, Unknown
    <2>2. Mem(m.epoch, m.head) /\ Link
      <3>1. CASE recover(p, m, disk, TRUE)
        BY <1>0, <3>1, RecoverMem
      <3>2. CASE beginCold(p, m, disk) /\ UNCHANGED <<sup, auth>>
        BY <1>0, <3>2, BeginColdMem
      <3>3. CASE End(p, m, disk) /\ UNCHANGED <<sup, auth, inst>>
        BY <1>0, <3>3, EndMem, SameLink
      <3> QED
        BY <1>6, <3>1, <3>2, <3>3 DEF SleepProbed
    <2> QED
      BY <2>1, <2>2 DEF Kind, Keeping
  <1>7. ASSUME NEW p \in {"alarm", "rpc"}, ResumedForCold(p)
        PROVE  Kind /\ Rest
    <2>1. Rest
      BY <1>0, <1>7, OverType, SameRest DEF ResumedForCold
    <2>2. Mem(m.epoch, m.head) /\ Link
      <3>1. CASE prepareForCold(p, m)
        BY <1>0, <1>7, <3>1, PrepareForColdMem DEF ResumedForCold
      <3>2. CASE finalizeCold(p, m, disk, FALSE) /\ UNCHANGED inst
        BY <1>0, <1>7, <3>2, FinalizeColdMem, SameLink DEF ResumedForCold
      <3> QED
        BY <1>7, <3>1, <3>2 DEF ResumedForCold
    <2> QED
      BY <2>1, <2>2 DEF Kind, Keeping
  <1>8. ASSUME NEW p \in {"alarm", "rpc", "msg"}, FinalizeDestroyed(p)
        PROVE  Kind /\ Rest
    <2>1. Mem(m.epoch, m.head)
      BY <1>0, <1>8, FinalizeSettlesMem DEF FinalizeDestroyed
    <2> QED
      BY <1>0, <1>8, <2>1, OverType, SameLink, SameRest DEF FinalizeDestroyed, Kind, Keeping
  <1>9. ASSUME NEW p \in {"alarm", "rpc", "msg"}, FinalizeEnds(p)
        PROVE  Kind /\ Rest
    <2> DEFINE rn == degradeInFlightRuns(run)
               y  == IF hasQueuedRuns(rn)
                     THEN Set([m EXCEPT !.failures = 0], {"wakeRetry"}) ELSE m
    <2>1. [m EXCEPT !.failures = 0] \in Gen(m.epoch, m.head)
      BY Bounds DEF Gen, Meta
    <2>2. y \in Gen(m.epoch, m.head)
      BY <2>1, SetGen DEF Deadlines
    <2>3. Mem(m.epoch, m.head)
      BY <1>0, <1>9, <2>2, IdleType, ArmedStored, AwaitMem DEF FinalizeEnds
    <2>4. Rest /\ Link
      BY <1>0, <1>9, DegradeType, DropLink DEF FinalizeEnds, Rest, TypeOK
    <2> QED
      BY <2>3, <2>4 DEF Kind, Keeping
  <1> QED
    BY <1>1, <1>2, <1>3, <1>4, <1>5, <1>6, <1>7, <1>8, <1>9 DEF Sleeping

LEMMA ForgottenDeletes ==
    ASSUME TypeOK, Forgotten
    PROVE  Deleted /\ run' \in [Runs -> RunRow] /\ deleted'
  <1>1. [m EXCEPT !.handle = 0, !.token = 0] \in Meta
    BY Bounds DEF TypeOK, Meta
  <1>2. initialMeta \in Meta
    BY Bounds DEF initialMeta, Meta, Deadlines
  <1>3. disk' \in Disk
    BY <1>2 DEF Forgotten, Await, Disk
  <1>4. task' \in [Tasks -> Local] /\ m' \in Meta
    BY <1>1, IdleType DEF Forgotten, Await, TypeOK
  <1>5. run' \in [Runs -> RunRow]
    BY ConstAssumption DEF Forgotten, noRun, RunRow, Statuses
  <1> QED
    BY <1>3, <1>4, <1>5, DropLink DEF Forgotten, Deleted

LEMMA DeletingStep ==
    ASSUME TypeOK, Deleting
    PROVE  Kind /\ Rest
  <1> USE MemoryGen, DiskStored
  <1>0. /\ faults \in 0..MaxFaults /\ asks \in 0..MaxAsks
        /\ m.handle \in Epochs /\ "rpc" \in Tasks
    BY DEF TypeOK, Tasks, Meta
  <1>1. CASE Delete
    <2>1. asks' \in 0..MaxAsks
      BY <1>1, AskType DEF Delete
    <2>2. CASE Forgotten
      BY <1>0, <1>1, <2>1, <2>2, ForgottenDeletes DEF Delete, Rest, Kind, TypeOK
    <2>3. CASE /\ Await("rpc", Call("delete", m.handle), m, disk)
               /\ UNCHANGED <<run, sup, auth, inst, deleted>>
      <3>1. Call("delete", m.handle) \in Local /\ Call("delete", m.handle).pc = "delete"
        BY <1>0, CallType DEF Pcs
      <3> QED
        BY <1>0, <1>1, <2>1, <2>3, <3>1, AwaitMem, SameLink, SameRest
        DEF Delete, Kind, Keeping
    <2> QED
      BY <1>1, <2>2, <2>3 DEF Delete
  <1>2. CASE DeleteEnds
    <2>1. faults' \in 0..MaxFaults
      BY <1>0, <1>2, OverType DEF DeleteEnds
    <2>2. CASE Forgotten
      BY <1>0, <1>2, <2>1, <2>2, ForgottenDeletes DEF DeleteEnds, Rest, Kind, TypeOK
    <2>3. CASE Await("rpc", Idle, m, disk) /\ UNCHANGED <<run, sup, auth, inst, deleted>>
      BY <1>0, <1>2, <2>1, <2>3, IdleType, AwaitMem, SameLink, SameRest
      DEF DeleteEnds, Kind, Keeping
    <2> QED
      BY <1>2, <2>2, <2>3 DEF DeleteEnds
  <1> QED
    BY <1>1, <1>2 DEF Deleting

-----------------------------------------------------------------------------
(* Runs and the supervisor's socket.                                       *)

LEMMA RequestsStep ==
    ASSUME TypeOK, Requests
    PROVE  Kind /\ Rest
  <1> USE MemoryGen, DiskStored
  <1>0. /\ faults \in 0..MaxFaults /\ asks \in 0..MaxAsks
        /\ task \in [Tasks -> Local] /\ run \in [Runs -> RunRow]
    BY DEF TypeOK
  <1>1. ASSUME NEW r \in Runs, enqueueRun(r)
        PROVE  Kind /\ Rest
    <2> DEFINE rn == [run EXCEPT ![r].status = "queued"]
    <2>1. rn \in [Runs -> RunRow]
      BY <1>0 DEF RunRow, Statuses
    <2>2. CASE /\ liveSupervisor /\ run' = Claimed(rn)
               /\ ph' = IF inst[sup].conn THEN Sent(sup, rn) ELSE ph
               /\ m' = armLiveness(m, run') /\ disk' = Armed(m') /\ task' = task
      <3>1. sup \in Instances
        BY <2>2 DEF liveSupervisor, TypeOK, Epochs, Instances
      <3>2. Rest
        BY <1>0, <1>1, <2>1, <2>2, <3>1, ClaimedType, SentType DEF enqueueRun, Rest, TypeOK
      <3> QED
        BY <1>1, <2>2, <3>2, ArmLivenessGen, ArmedStored, SameMem, SameLink
        DEF enqueueRun, Kind, Keeping
    <2>3. CASE /\ run' = rn /\ ph' = ph
               /\ wakeInBackground(m, Persisted(m, disk), task, rn)
      <3>1. Rest
        BY <1>0, <1>1, <2>1, <2>3 DEF enqueueRun, Rest, TypeOK
      <3>2. Mem(m.epoch, m.head) \/ Mint(m.epoch, m.head)
        BY <1>0, <2>3, PersistedStored, WakeInBackgroundMem
      <3> QED
        BY <1>1, <3>1, <3>2, SameLink DEF enqueueRun, Kind, Keeping, Minting
    <2> QED
      BY <1>1, <2>2, <2>3 DEF enqueueRun
  <1>2. ASSUME NEW r \in Runs, stopRun(r)
        PROVE  Kind /\ Rest
    <2>1. run' \in [Runs -> RunRow]
      BY <1>0, <1>2 DEF stopRun, RunRow, Statuses
    <2>2. Rest
      BY <1>0, <1>2, <2>1, AskType DEF stopRun, Rest, TypeOK
    <2> QED
      BY <1>2, <2>2, SameMem, SameLink DEF stopRun, Kind, Keeping
  <1> QED
    BY <1>1, <1>2 DEF Requests

LEMMA HeardGen ==
    ASSUME TypeOK
    PROVE  Heard \in Gen(m.epoch, m.head)
  BY MemoryGen, Bounds DEF Heard, Gen, Meta

LEMMA ReportsStep ==
    ASSUME TypeOK, NEW i \in Instances, NEW r \in Runs,
           NEW row \in RunRow, NEW told \in Phases, Reports(i, r, row, told)
    PROVE  Kind /\ Rest
  <1>1. Mem(m.epoch, m.head) /\ Link
    BY HeardGen, DiskStored, SameMem, SameLink DEF Reports
  <1>2. run' \in [Runs -> RunRow] /\ ph' \in [Instances -> [Runs -> Phases]]
    BY DEF Reports, TypeOK
  <1> QED
    BY <1>1, <1>2 DEF Reports, Rest, TypeOK, Kind, Keeping

LEMMA MessagesStep ==
    ASSUME TypeOK, Messages
    PROVE  Kind /\ Rest
  <1> USE MemoryGen, DiskStored
  <1>0. /\ faults \in 0..MaxFaults /\ asks \in 0..MaxAsks
        /\ run \in [Runs -> RunRow] /\ ph \in [Instances -> [Runs -> Phases]]
    BY DEF TypeOK
  <1>1. ASSUME NEW i \in Instances, onHello(i)
        PROVE  Kind /\ Rest
    <2> DEFINE x == [m EXCEPT !.lost = FALSE, !.strikes = 0, !.streak = 0, !.failures = 0]
    <2>1. x \in Gen(m.epoch, m.head)
      BY Bounds DEF Gen, Meta
    <2>2. Mem(m.epoch, m.head)
      BY <1>1, <2>1, ArmLivenessGen, ArmedStored, SameMem DEF onHello
    <2>3. Link
      <3> DEFINE new == [inst[i] EXCEPT !.conn = TRUE]
      <3>1. new \in Instance /\ new.epoch = inst[i].epoch /\ new.st = inst[i].st
        BY DEF TypeOK, Instance
      <3>2. inst' = [inst EXCEPT ![i] = new] /\ sup' = i /\ auth' = auth \cup {i}
        BY <1>1 DEF onHello
      <3>3. sup' \in Epochs /\ auth' \in SUBSET Instances
        BY <3>2, ConstAssumption DEF TypeOK, Instances, Epochs
      <3> QED
        BY <3>1, <3>2, <3>3, InstanceLink
    <2>4. Rest
      BY <1>0, <1>1, ClaimedType, SentType DEF onHello, Rest, TypeOK
    <2> QED
      BY <2>2, <2>3, <2>4 DEF Kind, Keeping
  <1>2. ASSUME NEW i \in Instances, SocketCloses(i)
        PROVE  Kind /\ Rest
    <2>1. Set([m EXCEPT !.lost = TRUE], {"liveness"}) \in Gen(m.epoch, m.head)
      <3>1. [m EXCEPT !.lost = TRUE] \in Gen(m.epoch, m.head)
        BY DEF Gen, Meta
      <3> QED
        BY <3>1, SetGen DEF Deadlines
    <2>2. Mem(m.epoch, m.head)
      BY <1>2, <2>1, ArmedStored, SameMem DEF SocketCloses
    <2>3. Link
      BY <1>2, Bounds DEF SocketCloses, Link, TypeOK
    <2> QED
      BY <1>0, <1>2, <2>2, <2>3, SameRest DEF SocketCloses, Kind, Keeping
  <1>3. ASSUME NEW i \in Instances, onHeadAdvance(i)
        PROVE  Kind /\ Rest
    <2>1. CASE inst[i].epoch = m.epoch
      <3>1. [Heard EXCEPT !.head = inst[i].epoch] \in Gen(m.epoch, m.epoch)
        BY <2>1, HeardGen DEF Gen, Meta
      <3> QED
        BY <1>0, <1>3, <2>1, <3>1, PersistedStored, SameMem, SameLink, SameRest
        DEF onHeadAdvance, Kind, Advancing
    <2>2. CASE inst[i].epoch # m.epoch
      BY <1>0, <1>3, <2>2, HeardGen, SameMem, SameLink, SameRest
      DEF onHeadAdvance, Kind, Keeping
    <2> QED
      BY <2>1, <2>2
  <1>4. ASSUME NEW i \in Instances, onHeartbeat(i)
        PROVE  Kind /\ Rest
    <2>1. touch(Heard, run) \in Gen(m.epoch, m.head)
      BY HeardGen, TouchGen
    <2>2. Mem(m.epoch, m.head)
      BY <1>4, <2>1, HeardGen, TouchedStored, SameMem DEF onHeartbeat
    <2> QED
      BY <1>0, <1>4, <2>2, SameLink, SameRest DEF onHeartbeat, Kind, Keeping
  <1>5. ASSUME NEW i \in Instances, SupervisorFinal(i)
        PROVE  Kind /\ Rest
    <2>1. Link
      <3>1. [inst[i] EXCEPT !.prep = "said"] \in Instance
        BY <1>5 DEF TypeOK, Instance
      <3>2. inst' = [inst EXCEPT ![i].prep = "said"] /\ UNCHANGED <<sup, auth>>
        BY <1>5 DEF SupervisorFinal
      <3> QED
        BY <3>1, <3>2 DEF Link, TypeOK, Instance
    <2>2. Rest
      BY <1>0, <1>5, SameRest DEF SupervisorFinal
    <2>3. CASE finalizeCold("msg", Heard, disk, TRUE)
      BY <2>1, <2>2, <2>3, HeardGen, FinalizeColdMem DEF Tasks, Kind, Advancing
    <2>4. CASE m' = Heard /\ UNCHANGED <<disk, task>>
      BY <2>1, <2>2, <2>4, HeardGen, SameMem DEF Kind, Keeping
    <2> QED
      BY <1>5, <2>3, <2>4 DEF SupervisorFinal
  <1>6. ASSUME NEW i \in Instances, NEW r \in Runs,
               onJournalFrame(i, r) \/ onRunStarted(i, r) \/ onRunCompleted(i, r)
        PROVE  Kind /\ Rest
    <2>1. run[r] \in RunRow /\ ph[i][r] \in Phases
      BY <1>0
    <2>2. /\ Began(run[r]) \in RunRow /\ Started(run[r]) \in RunRow
          /\ Completed(run[r]) \in RunRow
      BY <2>1 DEF Began, Started, Completed, RunRow, Statuses
    <2> QED
      BY <1>6, <2>1, <2>2, ReportsStep DEF onJournalFrame, onRunStarted, onRunCompleted, Phases
  <1> QED
    BY <1>1, <1>2, <1>3, <1>4, <1>5, <1>6 DEF Messages

-----------------------------------------------------------------------------
(* The supervisor, the substrate, and faults.                              *)

LEMMA SupervisorStep ==
    ASSUME TypeOK, Supervisor
    PROVE  Kind /\ Rest
  <1>1. Mem(m.epoch, m.head)
    BY MemoryGen, DiskStored, SameMem
    DEF Supervisor, SupervisorExits, SupervisorStarts, SupervisorContinues
  <1>2. ASSUME NEW i \in Instances, SupervisorExits(i)
        PROVE  Link /\ Rest
    <2>1. Link
      BY <1>2 DEF SupervisorExits, Link, TypeOK, Instance
    <2> QED
      BY <1>2, <2>1, SameRest DEF SupervisorExits, TypeOK
  <1>3. ASSUME NEW i \in Instances, NEW r \in Runs,
               SupervisorStarts(i, r) \/ SupervisorContinues(i, r)
        PROVE  Link /\ Rest
    <2>1. /\ ph' = [ph EXCEPT ![i][r] = "begun"]
          /\ UNCHANGED <<run, sup, auth, inst, faults, asks, deleted>>
      BY <1>3 DEF SupervisorStarts, SupervisorContinues
    <2>2. ph' \in [Instances -> [Runs -> Phases]]
      BY <2>1 DEF TypeOK, Phases
    <2> QED
      BY <2>1, <2>2, SameLink DEF Rest, TypeOK
  <1> QED
    BY <1>1, <1>2, <1>3 DEF Supervisor, Kind, Keeping

LEMMA SubstrateActsStep ==
    ASSUME TypeOK, NEW p \in Tasks, SubstrateActs(p)
    PROVE  Keeping /\ Rest
  <1> DEFINE c == task[p]
  <1>1. c \in Local /\ c.on \in Instances /\ inst[c.on].st # "none"
    <2>1. c.on # 0 /\ inst[c.on].st \in Acts(c)
      BY DEF SubstrateActs
    <2>2. c \in Local /\ c.on \in Epochs
      BY DEF TypeOK, Local
    <2>3. "none" \notin Acts(c)
      BY DEF Acts
    <2>4. c.on \in Instances
      BY <2>1, <2>2, ConstAssumption DEF Epochs, Instances
    <2> QED
      BY <2>1, <2>2, <2>3, <2>4
  <1>2. Mem(m.epoch, m.head)
    <2>1. /\ task' = [task EXCEPT ![p].done = TRUE]
          /\ UNCHANGED <<m, disk>>
      BY DEF SubstrateActs
    <2>2. [c EXCEPT !.done = TRUE] \in Local /\ [c EXCEPT !.done = TRUE].done
      BY <1>1 DEF Local
    <2>3. task' \in [Tasks -> Local]
      BY <2>1, <2>2 DEF TypeOK
    <2>4. Due' => Due
      BY <2>1, <2>2 DEF Due, TypeOK, Tasks, Local
    <2> QED
      BY <2>1, <2>3, <2>4, MemoryGen, DiskStored DEF Mem
  <1>3. PICK new \in {[inst[c.on] EXCEPT !.st = "slept"], [inst[c.on] EXCEPT !.st = "up"],
                      [inst[c.on] EXCEPT !.st = "gone", !.conn = FALSE]} :
          inst' = [inst EXCEPT ![c.on] = new]
    BY DEF SubstrateActs
  <1>4. new \in Instance /\ new.epoch = inst[c.on].epoch
    <2>1. inst[c.on] \in Instance
      BY <1>1 DEF TypeOK
    <2> QED
      BY ONLY <1>3, <2>1 DEF Instance
  <1>5. UNCHANGED <<run, sup, auth, ph, faults, asks, deleted>>
    BY DEF SubstrateActs
  <1>6. sup' \in Epochs /\ auth' \in SUBSET Instances
    BY <1>5 DEF TypeOK
  <1>7. Link
    BY <1>1, <1>3, <1>4, <1>6, InstanceLink
  <1>8. Rest
    BY <1>5, SameRest DEF TypeOK
  <1> QED
    BY <1>2, <1>7, <1>8 DEF Keeping

LEMMA SubstrateStep ==
    ASSUME TypeOK, Substrate
    PROVE  Kind /\ Rest
  <1>1. CASE SubstrateCreates
    <2>1. PICK i \in Instances :
            /\ inst[i].st = "none"
            /\ inst' = [inst EXCEPT ![i].st = "up", ![i].epoch = m.epoch]
            /\ task' = [task EXCEPT !["wake"].on = i, !["wake"].done = TRUE]
      BY <1>1 DEF SubstrateCreates
    <2>2. task' \in [Tasks -> Local] /\ ~Due' /\ Due
      <3> DEFINE w == [task["wake"] EXCEPT !.on = i, !.done = TRUE]
      <3>1. task["wake"] \in Local /\ i \in Epochs /\ "wake" \in Tasks
        BY DEF TypeOK, Tasks, Instances, Epochs
      <3>2. w \in Local /\ w.done
        BY <3>1 DEF Local
      <3>3. task' = [task EXCEPT !["wake"] = w] /\ task \in [Tasks -> Local]
        BY <2>1 DEF TypeOK
      <3> HIDE DEF w
      <3> QED
        BY <1>1, <3>1, <3>2, <3>3 DEF SubstrateCreates, Due
    <2>3. Rest
      BY <1>1, SameRest DEF SubstrateCreates, TypeOK
    <2> QED
      BY <1>1, <2>1, <2>2, <2>3 DEF SubstrateCreates, Kind, Creating
  <1>2. ASSUME NEW p \in Tasks, SubstrateActs(p)
        PROVE  Kind /\ Rest
    BY <1>2, SubstrateActsStep DEF Kind
  <1> QED
    BY <1>1, <1>2 DEF Substrate

LEMMA EnvironmentStep ==
    ASSUME TypeOK, Environment
    PROVE  Kind /\ Rest
  <1>1. CASE Crash
    <2>1. disk.meta \in Gen(disk.meta.epoch, disk.meta.head)
      BY DEF TypeOK, Gen
    <2>2. Revived \in Gen(disk.meta.epoch, disk.meta.head)
      BY <2>1, SetGen DEF Revived, Deadlines
    <2>3. Link
      BY <1>1, Bounds DEF Crash, Link, TypeOK, Instance
    <2>4. disk' \in Disk /\ disk'.meta = m'
      BY <1>1, <2>2 DEF Crash, Disk, Gen
    <2>5. task' \in [Tasks -> Local] /\ ~Due'
      BY <1>1, IdleType DEF Crash, Due, Tasks
    <2>6. Rest
      BY <1>1, FaultType, SameRest DEF Crash, TypeOK
    <2> QED
      BY <1>1, <2>2, <2>3, <2>4, <2>5, <2>6 DEF Crash, Kind, Reviving
  <1>2. ASSUME NEW i \in Instances, Evict(i)
        PROVE  Kind /\ Rest
    <2>1. Link
      BY <1>2 DEF Evict, Link, TypeOK, Instance
    <2>2. Rest
      BY <1>2, FaultType, SameRest DEF Evict, TypeOK
    <2> QED
      BY <1>2, <2>1, <2>2, MemoryGen, DiskStored, SameMem DEF Evict, Kind, Keeping
  <1>3. ASSUME NEW i \in Instances, Drop(i)
        PROVE  Kind /\ Rest
    <2>1. Link
      <3> DEFINE new == [inst[i] EXCEPT !.conn = FALSE]
      <3>1. inst[i] \in Instance /\ sup \in Epochs /\ auth \in SUBSET Instances
        BY DEF TypeOK
      <3>2. new \in Instance /\ new.epoch = inst[i].epoch /\ new.st = inst[i].st
        BY <3>1 DEF Instance
      <3>3. inst' = [inst EXCEPT ![i] = new] /\ UNCHANGED <<sup, auth>>
        BY <1>3 DEF Drop
      <3> HIDE DEF new
      <3> QED
        BY <3>1, <3>2, <3>3, InstanceLink
    <2>2. faults' \in 0..MaxFaults
      BY <1>3, FaultType DEF Drop
    <2>3. ph' \in [Instances -> [Runs -> Phases]]
      <3>1. PICK lost \in SUBSET Runs :
              ph' = [ph EXCEPT ![i] = [r \in Runs |->
                       IF r \notin lost THEN @[r]
                       ELSE CASE @[r] = "inbox" -> "none"
                              [] @[r] = "begun" -> "told"
                              [] @[r] = "told"  -> "reported"
                              [] OTHER          -> @[r]]]
        BY <1>3 DEF Drop
      <3> DEFINE new == [r \in Runs |->
                       IF r \notin lost THEN ph[i][r]
                       ELSE CASE ph[i][r] = "inbox" -> "none"
                              [] ph[i][r] = "begun" -> "told"
                              [] ph[i][r] = "told"  -> "reported"
                              [] OTHER              -> ph[i][r]]
      <3>2. new \in [Runs -> Phases]
        BY DEF TypeOK, Phases
      <3>3. ph' = [ph EXCEPT ![i] = new]
        BY <3>1 DEF TypeOK
      <3> QED
        BY <3>2, <3>3 DEF TypeOK
    <2>4. Rest
      BY <1>3, <2>2, <2>3 DEF Drop, Rest, TypeOK
    <2> QED
      BY <1>3, <2>1, <2>4, MemoryGen, DiskStored, SameMem DEF Drop, Kind, Keeping
  <1> QED
    BY <1>1, <1>2, <1>3 DEF Environment

LEMMA NextStep ==
    ASSUME TypeOK, Next
    PROVE  Kind /\ Rest
  BY WakingStep, RecoveringStep, AlarmsStep, CheckingStep, SleepingStep, DeletingStep,
     RequestsStep, MessagesStep, SupervisorStep, SubstrateStep, EnvironmentStep DEF Next

-----------------------------------------------------------------------------
(* Type correctness.                                                       *)

LEMMA InitType == Init => TypeOK
  <1> SUFFICES ASSUME Init PROVE TypeOK
    OBVIOUS
  <1>1. initialMeta \in Meta
    BY Bounds DEF initialMeta, Meta
  <1>2. noRun \in RunRow
    BY ConstAssumption DEF noRun, RunRow, Statuses
  <1>3. [st |-> "none", epoch |-> 0, conn |-> FALSE, prep |-> "no"] \in Instance
    BY Bounds DEF Instance
  <1>4. MaxFaults \in 0..MaxFaults /\ MaxAsks \in 0..MaxAsks
    BY ConstAssumption
  <1> QED
    BY <1>1, <1>2, <1>3, <1>4, IdleType, Bounds DEF Init, TypeOK, Phases

LEMMA NextType == TypeOK /\ [Next]_vars => TypeOK'
  <1> SUFFICES ASSUME TypeOK, [Next]_vars PROVE TypeOK'
    OBVIOUS
  <1>1. CASE Next
    BY <1>1, NextStep, KindType
  <1>2. CASE UNCHANGED vars
    BY <1>2 DEF vars, TypeOK
  <1> QED
    BY <1>1, <1>2

(* Whatever is asked of the object, whatever the substrate answers and     *)
(* wherever it crashes, its memory, storage, runs table and suspended      *)
(* operations stay within their types: no counter passes its bound, no     *)
(* run is re-queued more than MAX_RUN_REQUEUES times.                      *)
THEOREM TypeCorrect == Spec => []TypeOK
  BY InitType, NextType, PTL DEF Spec

-----------------------------------------------------------------------------
(* The fence.  Each kind of step keeps memory and storage on the same      *)
(* generation, and instances on generations of their own.                  *)

LEMMA InitFenced == Init => Fenced
  BY DEF Init, Fenced, Due, initialMeta, Idle, Call, Instances, Tasks

LEMMA LinkFenced ==
    ASSUME TypeOK, Fenced, ~deleted, Link
    PROVE  /\ \A i \in Instances : /\ inst'[i].epoch <= m.epoch
                                   /\ inst'[i].st # "none" => inst'[i].epoch # 0
           /\ \A i, j \in Instances :
                i # j /\ inst'[i].epoch = inst'[j].epoch => inst'[i].epoch = 0
  BY DEF Link, Fenced

LEMMA KindFenced ==
    ASSUME TypeOK, TypeOK', Fenced, Kind, Rest
    PROVE  Fenced'
  <1> SUFFICES ASSUME ~deleted'
               PROVE  Fenced'
    BY DEF Fenced
  <1>0. /\ ~deleted
        /\ m.epoch \in Nat /\ m.head \in Nat /\ disk.meta.head \in Nat
        /\ disk.meta.head <= m.head /\ m.head <= m.epoch /\ disk.meta.epoch = m.epoch
        /\ \A i \in Instances : inst[i].epoch \in Nat /\ inst[i].epoch <= m.epoch
    BY DEF Rest, Fenced, TypeOK, Meta, Epochs, Instance
  <1>1. CASE Keeping \/ Advancing
    <2>1. PICK h \in {m.head, m.epoch} : Mem(m.epoch, h)
      BY <1>1 DEF Keeping, Advancing
    <2>2. /\ m'.epoch = m.epoch /\ m'.head = h /\ disk'.meta.epoch = m.epoch
          /\ disk'.meta.head \in {disk.meta.head, h}
      BY <1>0, <2>1 DEF Mem, Gen, Stored
    <2>3. Due' => Due
      BY <2>1 DEF Mem
    <2>4. Link
      BY <1>1 DEF Keeping, Advancing
    <2>5. Due' => m'.epoch # 0 /\ \A i \in Instances : inst'[i].epoch # m'.epoch
      BY <1>0, <2>2, <2>3, <2>4 DEF Fenced, Link
    <2> QED
      BY <1>0, <2>2, <2>4, <2>5, LinkFenced DEF Fenced
  <1>2. CASE Minting
    <2>1. /\ m'.epoch = m.epoch + 1 /\ m'.head = m.head /\ disk'.meta = m'
      BY <1>2 DEF Minting, Mint, Gen
    <2>2. Link
      BY <1>2 DEF Minting
    <2>3. \A i \in Instances : inst'[i].epoch = inst[i].epoch
      BY <2>2 DEF Link
    <2>4. m'.epoch # 0 /\ \A i \in Instances : inst'[i].epoch < m'.epoch
      BY <1>0, <2>1, <2>3
    <2> QED
      BY <1>0, <2>1, <2>2, <2>3, <2>4, LinkFenced DEF Fenced
  <1>3. CASE Creating
    <2>1. PICK k \in Instances :
            inst[k].st = "none" /\ inst' = [inst EXCEPT ![k].st = "up", ![k].epoch = m.epoch]
      BY <1>3 DEF Creating
    <2>2. /\ inst'[k].epoch = m.epoch
          /\ \A i \in Instances \ {k} : inst'[i] = inst[i]
      BY <2>1 DEF TypeOK, Instance
    <2>3. m.epoch # 0 /\ \A i \in Instances : inst[i].epoch # m.epoch
      BY <1>0, <1>3 DEF Creating, Fenced
    <2>4. m' = m /\ disk' = disk /\ ~Due'
      BY <1>3 DEF Creating
    <2> QED
      BY <1>0, <2>2, <2>3, <2>4 DEF Fenced
  <1>4. CASE Reviving
    <2>1. m'.epoch = m.epoch /\ m'.head = disk.meta.head /\ disk'.meta = m' /\ ~Due'
      BY <1>0, <1>4 DEF Reviving, Gen
    <2>2. Link
      BY <1>4 DEF Reviving
    <2> QED
      BY <1>0, <2>1, <2>2, LinkFenced DEF Fenced
  <1>5. CASE Deleted
    BY <1>5 DEF Deleted
  <1> QED
    BY <1>1, <1>2, <1>3, <1>4, <1>5 DEF Kind

LEMMA NextFenced == TypeOK /\ TypeOK' /\ Fenced /\ [Next]_vars => Fenced'
  <1> SUFFICES ASSUME TypeOK, TypeOK', Fenced, [Next]_vars PROVE Fenced'
    OBVIOUS
  <1>1. CASE Next
    BY <1>1, NextStep, KindFenced
  <1>2. CASE UNCHANGED vars
    BY <1>2 DEF vars, Fenced, Due
  <1> QED
    BY <1>1, <1>2

(* The epoch in memory is always the one in storage, and a materialize     *)
(* that was asked for creates an instance of a generation of its own.      *)
THEOREM FencedAlways == Spec => []Fenced
  BY TypeCorrect, InitFenced, NextFenced, PTL DEF Spec

(* No two instances carry the same epoch, and none an epoch that storage   *)
(* does not hold: after any crash the next mint is a new generation, and   *)
(* at most one supervisor passes the handshake's fence.                    *)
THEOREM GenerationsFencedAlways == Spec => []GenerationsFenced
  <1>1. TypeOK /\ Fenced => GenerationsFenced
    BY DEF TypeOK, Fenced, GenerationsFenced
  <1> QED
    BY <1>1, TypeCorrect, FencedAlways, PTL

LEMMA KindHead ==
    ASSUME TypeOK, TypeOK', Fenced, Kind, Rest, ~deleted'
    PROVE  disk'.meta.head >= disk.meta.head
  <1>0. /\ ~deleted
        /\ m.epoch \in Nat /\ m.head \in Nat /\ disk.meta.head \in Nat
        /\ disk.meta.head <= m.head /\ m.head <= m.epoch
    BY DEF Rest, Fenced, TypeOK, Meta, Epochs
  <1>1. CASE Keeping
    BY <1>0, <1>1 DEF Keeping, Mem, Stored, Gen
  <1>2. CASE Advancing
    BY <1>0, <1>2 DEF Advancing, Mem, Stored, Gen
  <1>3. CASE Minting
    BY <1>0, <1>3 DEF Minting, Mint, Gen
  <1>4. CASE Creating
    BY <1>0, <1>4 DEF Creating
  <1>5. CASE Reviving
    BY <1>0, <1>5 DEF Reviving, Gen
  <1>6. CASE Deleted
    BY <1>6 DEF Deleted
  <1> QED
    BY <1>1, <1>2, <1>3, <1>4, <1>5, <1>6 DEF Kind

(* Until the computer is deleted, its durable head is never replaced by    *)
(* one an older generation wrote.                                          *)
THEOREM HeadNeverGoesBackEver == Spec => HeadNeverGoesBack
  <1>1. TypeOK /\ TypeOK' /\ Fenced /\ [Next]_vars
          => [disk'.meta.head >= disk.meta.head \/ deleted']_vars
    <2> SUFFICES ASSUME TypeOK, TypeOK', Fenced, Next, ~deleted'
                 PROVE  disk'.meta.head >= disk.meta.head
      OBVIOUS
    <2> QED
      BY NextStep, KindHead
  <1> QED
    BY <1>1, TypeCorrect, FencedAlways, PTL DEF Spec, HeadNeverGoesBack

-----------------------------------------------------------------------------
(* Runs.                                                                   *)

handed(r) == {i \in Instances : ph[i][r] # "none"}

(* How many instances may have been handed a run in this state, as long as *)
(* none has been heard of it.                                              *)
Turns(row) == row.requeues + (IF row.status \in {"none", "queued"} THEN 0 ELSE 1)

InTurn ==
    \A r \in Runs : ~run[r].began /\ run[r].status # "interrupted" =>
        Cardinality(handed(r)) <= Turns(run[r])

(* What a step does to one run: something was heard of it, or it was given *)
(* up, or each instance it is handed to is a turn it has more.             *)
Turned(row, new, before, after) ==
    \/ new.began \/ new.status = "interrupted"
    \/ /\ ~row.began /\ row.status # "interrupted"
       /\ \/ after \subseteq before /\ Turns(row) <= Turns(new)
          \/ /\ Turns(row) + 1 <= Turns(new)
             /\ \E i \in Instances : after \subseteq before \cup {i}

RunStep ==
    \A r \in Runs :
        /\ Turned(run[r], run'[r], handed(r), handed(r)')
        /\ run[r].status = "completed" => run'[r].status = "completed"

LEMMA HandedFinite ==
    ASSUME NEW S \in SUBSET Instances
    PROVE  IsFiniteSet(S) /\ Cardinality(S) \in Nat
  <1>1. IsFiniteSet(Instances)
    BY ConstAssumption, FS_Interval DEF Instances
  <1>2. IsFiniteSet(S)
    BY <1>1, FS_Subset
  <1> QED
    BY <1>2, FS_CardinalityType

LEMMA RunStepInTurn ==
    ASSUME TypeOK, TypeOK', InTurn, RunStep
    PROVE  InTurn'
  <1> SUFFICES ASSUME NEW r \in Runs, ~run'[r].began, run'[r].status # "interrupted"
               PROVE  Cardinality(handed(r)') <= Turns(run'[r])
    BY DEF InTurn
  <1>1. Turned(run[r], run'[r], handed(r), handed(r)')
    BY DEF RunStep
  <1>2. Cardinality(handed(r)) <= Turns(run[r])
    BY <1>1 DEF Turned, InTurn
  <1>3. /\ handed(r) \in SUBSET Instances /\ handed(r)' \in SUBSET Instances
        /\ Cardinality(handed(r)) \in Nat /\ Cardinality(handed(r)') \in Nat
        /\ IsFiniteSet(handed(r))
    BY HandedFinite DEF handed
  <1>4. Turns(run[r]) \in Nat /\ Turns(run'[r]) \in Nat
    BY ConstAssumption DEF TypeOK, RunRow, Turns
  <1>5. CASE handed(r)' \subseteq handed(r) /\ Turns(run[r]) <= Turns(run'[r])
    <2>1. Cardinality(handed(r)') <= Cardinality(handed(r))
      BY <1>3, <1>5, FS_Subset
    <2> QED
      BY <1>2, <1>3, <1>4, <1>5, <2>1
  <1>6. ASSUME Turns(run[r]) + 1 <= Turns(run'[r]),
               NEW i \in Instances, handed(r)' \subseteq handed(r) \cup {i}
        PROVE  Cardinality(handed(r)') <= Turns(run'[r])
    <2>1. /\ IsFiniteSet(handed(r) \cup {i})
          /\ Cardinality(handed(r) \cup {i}) \in {Cardinality(handed(r)), Cardinality(handed(r)) + 1}
      BY <1>3, FS_AddElement, Zenon
    <2>2. Cardinality(handed(r) \cup {i}) \in Nat
      BY <2>1, FS_CardinalityType
    <2>3. Cardinality(handed(r)') <= Cardinality(handed(r) \cup {i})
      BY <1>6, <2>1, FS_Subset
    <2> QED
      BY <1>2, <1>3, <1>4, <1>6, <2>1, <2>2, <2>3
  <1> QED
    BY <1>1, <1>5, <1>6 DEF Turned

LEMMA SameRuns ==
    ASSUME TypeOK, UNCHANGED run, \A r \in Runs : handed(r)' \subseteq handed(r)
    PROVE  RunStep
  <1>1. \A r \in Runs : Turns(run[r]) <= Turns(run[r])
    BY ConstAssumption DEF TypeOK, RunRow, Turns
  <1> QED
    BY <1>1 DEF RunStep, Turned

(* A recovery or a finalize takes back what has not begun, and gives up    *)
(* the rest (degradeInFlightRuns).                                         *)
LEMMA DegradeRuns ==
    ASSUME TypeOK, run' = degradeInFlightRuns(run), UNCHANGED ph
    PROVE  RunStep
  <1> SUFFICES ASSUME NEW r \in Runs
               PROVE  /\ Turned(run[r], run'[r], handed(r), handed(r)')
                      /\ run[r].status = "completed" => run'[r].status = "completed"
    BY DEF RunStep
  <1>1. run[r] \in RunRow /\ handed(r)' = handed(r)
    BY DEF TypeOK, handed
  <1>2. CASE run[r].status \notin InFlight
    <2>1. run'[r] = run[r]
      BY <1>2 DEF degradeInFlightRuns
    <2>2. Turns(run[r]) <= Turns(run'[r])
      BY <1>1, <2>1, ConstAssumption DEF Turns, RunRow
    <2> QED
      BY <1>1, <2>1, <2>2 DEF Turned
  <1>3. CASE run[r].status \in InFlight /\ ~run[r].began /\ run[r].requeues < MaxRequeues
    <2>1. run'[r] = [run[r] EXCEPT !.status = "queued", !.requeues = @ + 1]
      BY <1>3 DEF degradeInFlightRuns
    <2>2. Turns(run[r]) <= Turns(run'[r])
      BY <1>1, <1>3, <2>1, ConstAssumption DEF Turns, RunRow, InFlight
    <2> QED
      BY <1>1, <1>3, <2>2 DEF Turned, InFlight
  <1>4. CASE run[r].status \in InFlight /\ ~(~run[r].began /\ run[r].requeues < MaxRequeues)
    BY <1>1, <1>4 DEF degradeInFlightRuns, Turned, RunRow, InFlight
  <1> QED
    BY <1>2, <1>3, <1>4

(* A claimed run is sent to one instance at most (dispatchQueued).         *)
LEMMA ClaimRuns ==
    ASSUME TypeOK, NEW i \in Instances, NEW rn \in [Runs -> RunRow],
           \A r \in Runs : \/ rn[r] = run[r]
                           \/ run[r].status = "none" /\ rn[r] = [run[r] EXCEPT !.status = "queued"],
           run' = Claimed(rn), ph' = Sent(i, rn) \/ ph' = ph
    PROVE  RunStep
  <1> SUFFICES ASSUME NEW r \in Runs
               PROVE  /\ Turned(run[r], run'[r], handed(r), handed(r)')
                      /\ run[r].status = "completed" => run'[r].status = "completed"
    BY DEF RunStep
  <1>1. run[r] \in RunRow /\ rn[r] \in RunRow
    BY DEF TypeOK
  <1>2. handed(r)' \subseteq handed(r) \cup {i}
    BY DEF Sent, TypeOK, handed
  <1>3. rn[r].status # "queued" => handed(r)' = handed(r)
    <2>1. ASSUME ph' = Sent(i, rn), rn[r].status # "queued", NEW j \in Instances
          PROVE  ph'[j][r] = ph[j][r]
      BY <2>1 DEF Sent, TypeOK
    <2> QED
      BY <2>1 DEF handed
  <1>4. CASE rn[r].status = "queued"
    <2>1. run'[r] = [rn[r] EXCEPT !.status = "dispatched"]
      BY <1>4 DEF Claimed
    <2>2. /\ run'[r].began = run[r].began
          /\ run[r].status \in {"none", "queued"}
          /\ Turns(run[r]) + 1 <= Turns(run'[r])
      BY <1>1, <1>4, <2>1, ConstAssumption DEF Turns, RunRow
    <2> QED
      BY <1>2, <2>2 DEF Turned
  <1>5. CASE rn[r].status # "queued"
    <2>1. run'[r] = run[r]
      BY <1>1, <1>5 DEF Claimed, RunRow
    <2>2. Turns(run[r]) <= Turns(run'[r])
      BY <1>1, <2>1, ConstAssumption DEF Turns, RunRow
    <2> QED
      BY <1>3, <1>5, <2>1, <2>2 DEF Turned
  <1> QED
    BY <1>4, <1>5

(* Whatever a supervisor reports of a run, something was heard of it.      *)
LEMMA ReportRuns ==
    ASSUME TypeOK, NEW i \in Instances, NEW r \in Runs, NEW row, NEW told,
           Reports(i, r, row, told), ph[i][r] # "none", row.began,
           run[r].status = "completed" => row.status = "completed"
    PROVE  RunStep
  <1> SUFFICES ASSUME NEW s \in Runs
               PROVE  /\ Turned(run[s], run'[s], handed(s), handed(s)')
                      /\ run[s].status = "completed" => run'[s].status = "completed"
    BY DEF RunStep
  <1>1. handed(s)' \subseteq handed(s)
    BY DEF Reports, TypeOK, handed
  <1>2. run[s] \in RunRow
    BY DEF TypeOK
  <1>3. run'[s] = run[s] \/ (s = r /\ run'[s] = row)
    BY DEF Reports, TypeOK
  <1>4. Turns(run[s]) <= Turns(run[s])
    BY <1>2, ConstAssumption DEF Turns, RunRow
  <1> QED
    BY <1>1, <1>3, <1>4 DEF Turned

LEMMA EnqueueRuns ==
    ASSUME TypeOK, NEW r \in Runs, enqueueRun(r)
    PROVE  RunStep
  <1> DEFINE rn == [run EXCEPT ![r].status = "queued"]
  <1>1. rn \in [Runs -> RunRow] /\ run[r].status = "none"
    BY DEF enqueueRun, TypeOK, RunRow, Statuses
  <1>2. \A s \in Runs : \/ rn[s] = run[s]
                        \/ run[s].status = "none" /\ rn[s] = [run[s] EXCEPT !.status = "queued"]
    BY <1>1 DEF TypeOK
  <1>3. CASE /\ liveSupervisor /\ run' = Claimed(rn)
             /\ ph' = IF inst[sup].conn THEN Sent(sup, rn) ELSE ph
    <2>1. sup \in Instances
      BY <1>3 DEF liveSupervisor, TypeOK, Epochs, Instances
    <2> QED
      BY <1>1, <1>2, <1>3, <2>1, ClaimRuns
  <1>4. CASE run' = rn /\ ph' = ph
    <2> SUFFICES ASSUME NEW s \in Runs
                 PROVE  /\ Turned(run[s], run'[s], handed(s), handed(s)')
                        /\ run[s].status = "completed" => run'[s].status = "completed"
      BY DEF RunStep
    <2>1. handed(s)' = handed(s) /\ run[s] \in RunRow
      BY <1>4 DEF handed, TypeOK
    <2>2. Turns(run[s]) <= Turns(run'[s])
      BY <1>1, <1>2, <1>4, <2>1, ConstAssumption DEF Turns, RunRow
    <2> QED
      BY <1>1, <1>2, <1>4, <2>1, <2>2 DEF Turned, RunRow
  <1> QED
    BY <1>3, <1>4 DEF enqueueRun

LEMMA StopRuns ==
    ASSUME TypeOK, NEW r \in Runs, stopRun(r)
    PROVE  RunStep
  <1> SUFFICES ASSUME NEW s \in Runs
               PROVE  /\ Turned(run[s], run'[s], handed(s), handed(s)')
                      /\ run[s].status = "completed" => run'[s].status = "completed"
    BY DEF RunStep
  <1>1. handed(s)' = handed(s) /\ run[s] \in RunRow
    BY DEF handed, TypeOK, stopRun
  <1>2. CASE s # r
    <2>1. run'[s] = run[s] /\ Turns(run[s]) <= Turns(run[s])
      BY <1>1, <1>2, ConstAssumption DEF stopRun, TypeOK, Turns, RunRow
    <2> QED
      BY <1>1, <2>1 DEF Turned
  <1>3. CASE s = r
    <2>1. /\ run[s].status \in InFlight \cup {"queued"}
          /\ run'[s] = [run[s] EXCEPT !.status = IF @ = "queued" THEN "cancelled"
                                                 ELSE "stopping"]
      BY <1>3 DEF stopRun, TypeOK
    <2>2. Turns(run[s]) <= Turns(run'[s]) /\ run'[s].began = run[s].began
      BY <1>1, <2>1, ConstAssumption DEF Turns, RunRow
    <2> QED
      BY <1>1, <2>1, <2>2 DEF Turned, InFlight
  <1> QED
    BY <1>2, <1>3

LEMMA MessageRuns ==
    ASSUME TypeOK, Messages
    PROVE  RunStep
  <1>1. ASSUME NEW i \in Instances, onHello(i)
        PROVE  RunStep
    BY <1>1, ClaimRuns DEF onHello, TypeOK
  <1>2. ASSUME NEW i \in Instances,
               SocketCloses(i) \/ onHeadAdvance(i) \/ onHeartbeat(i) \/ SupervisorFinal(i)
        PROVE  RunStep
    <2>1. UNCHANGED <<run, ph>>
      BY <1>2 DEF SocketCloses, onHeadAdvance, onHeartbeat, SupervisorFinal
    <2> QED
      BY <2>1, SameRuns DEF handed
  <1>3. ASSUME NEW i \in Instances, NEW r \in Runs,
               onJournalFrame(i, r) \/ onRunStarted(i, r) \/ onRunCompleted(i, r)
        PROVE  RunStep
    <2>1. run[r] \in RunRow
      BY DEF TypeOK
    <2>2. PICK row \in {Began(run[r]), Started(run[r]), Completed(run[r])},
               told \in Phases : Reports(i, r, row, told) /\ ph[i][r] # "none"
      BY <1>3 DEF onJournalFrame, onRunStarted, onRunCompleted, Phases
    <2>3. row.began /\ (run[r].status = "completed" => row.status = "completed")
      BY <2>1 DEF Began, Started, Completed, RunRow
    <2> QED
      BY <2>2, <2>3, ReportRuns
  <1> QED
    BY <1>1, <1>2, <1>3 DEF Messages

(* A run begins on an instance it was handed to, or is continued on        *)
(* another once it has been given up.                                      *)
LEMMA SupervisorRuns ==
    ASSUME TypeOK, Supervisor
    PROVE  RunStep
  <1>1. ASSUME NEW i \in Instances, SupervisorExits(i)
        PROVE  RunStep
    BY <1>1, SameRuns DEF SupervisorExits, handed
  <1>2. ASSUME NEW i \in Instances, NEW r \in Runs, SupervisorStarts(i, r)
        PROVE  RunStep
    <2>1. UNCHANGED run /\ \A s \in Runs : handed(s)' \subseteq handed(s)
      BY <1>2 DEF SupervisorStarts, TypeOK, handed
    <2> QED
      BY <2>1, SameRuns
  <1>3. ASSUME NEW i \in Instances, NEW r \in Runs, SupervisorContinues(i, r)
        PROVE  RunStep
    <2>1. /\ run' = run /\ run[r].status = "interrupted"
          /\ \A s \in Runs : s # r => handed(s)' = handed(s)
      BY <1>3 DEF SupervisorContinues, TypeOK, handed
    <2>2. \A s \in Runs : Turns(run[s]) <= Turns(run[s])
      BY ConstAssumption DEF TypeOK, RunRow, Turns
    <2> QED
      BY <2>1, <2>2 DEF RunStep, Turned
  <1> QED
    BY <1>1, <1>2, <1>3 DEF Supervisor

LEMMA NextRuns ==
    ASSUME TypeOK, [Next]_vars, ~deleted'
    PROVE  RunStep
  <1>1. CASE Waking \/ Alarms \/ Checking \/ Substrate
    <2>1. UNCHANGED <<run, ph>>
      BY <1>1
      DEF Waking, Wake, WakeVerified, WakeMaterialized, WakeResumed, WakeRefused,
          WakeReprobed, TornDown, Synced, Alarms, AlarmEmpty, onWakeRetryDeadline,
          onWakingDeadline, onLivenessDeadline, onColdDeadline, onCredentialDeadline,
          onTierDeadline, Checking, healthCheck, Probed, Substrate, SubstrateCreates,
          SubstrateActs
    <2> QED
      BY <2>1, SameRuns DEF handed
  <1>2. CASE Recovering
    <2>1. CASE RecoverEnds
      BY <2>1, DegradeRuns DEF RecoverEnds
    <2>2. CASE UNCHANGED <<run, ph>>
      BY <2>2, SameRuns DEF handed
    <2> QED
      BY <1>2, <2>1, <2>2 DEF Recovering, RecoverDestroyed, Joined
  <1>3. CASE Sleeping
    <2>1. ASSUME NEW p \in {"alarm", "rpc", "msg"}, FinalizeEnds(p)
          PROVE  RunStep
      BY <2>1, DegradeRuns DEF FinalizeEnds
    <2>2. CASE UNCHANGED <<run, ph>>
      BY <2>2, SameRuns DEF handed
    <2> QED
      BY <1>3, <2>1, <2>2
      DEF Sleeping, sleepNow, deepSleepNow, TierSlept, RpcSlept, SleepRefused,
          SleepProbed, ResumedForCold, FinalizeDestroyed
  <1>4. CASE Deleting
    <2>1. UNCHANGED <<run, ph>>
      BY <1>4 DEF Deleting, Delete, DeleteEnds, Forgotten
    <2> QED
      BY <2>1, SameRuns DEF handed
  <1>5. CASE Requests
    BY <1>5, EnqueueRuns, StopRuns DEF Requests
  <1>6. CASE Environment
    <2>1. UNCHANGED run /\ \A r \in Runs : handed(r)' \subseteq handed(r)
      <3>1. CASE UNCHANGED <<run, ph>>
        BY <3>1 DEF handed
      <3>2. ASSUME NEW i \in Instances, Drop(i)
            PROVE  UNCHANGED run /\ \A r \in Runs : handed(r)' \subseteq handed(r)
        BY <3>2 DEF Drop, TypeOK, handed
      <3> QED
        BY <1>6, <3>1, <3>2 DEF Environment, Crash, Evict
    <2> QED
      BY <2>1, SameRuns
  <1>7. CASE UNCHANGED vars
    BY <1>7, SameRuns DEF vars, handed
  <1> QED
    BY <1>1, <1>2, <1>3, <1>4, <1>5, <1>6, <1>7, MessageRuns, SupervisorRuns DEF Next

(* A completed run is never degraded, re-queued or restarted by a late     *)
(* frame, a recovery or a finalize, until the computer is deleted.         *)
THEOREM CompletedRunsStayEver == Spec => CompletedRunsStay
  <1>1. TypeOK /\ [Next]_vars =>
          [\A r \in Runs : run[r].status = "completed" =>
              run'[r].status = "completed" \/ deleted']_vars
    BY NextRuns DEF RunStep
  <1> QED
    BY <1>1, TypeCorrect, PTL DEF Spec, CompletedRunsStay

(* A run of which nothing was heard has been handed to one supervisor and  *)
(* to one more for each time it was taken back, however many generations   *)
(* came and went: the dispatch latch and the count of re-queues.           *)
THEOREM HandedOnceAlways == Spec => []HandedOnce
  <1> DEFINE Inv == ~deleted => InTurn
  <1>1. Init => Inv
    <2> SUFFICES ASSUME Init, NEW r \in Runs
                 PROVE  Cardinality(handed(r)) <= Turns(run[r])
      BY DEF InTurn
    <2>1. handed(r) = {} /\ run[r] = noRun
      BY DEF Init, handed
    <2> QED
      BY <2>1, FS_EmptySet DEF Turns, noRun
  <1>2. TypeOK /\ TypeOK' /\ Inv /\ [Next]_vars => Inv'
    <2> SUFFICES ASSUME TypeOK, TypeOK', Inv, [Next]_vars, ~deleted'
                 PROVE  InTurn'
      OBVIOUS
    <2>1. ~deleted
      BY NextStep DEF Rest, vars
    <2> QED
      BY <2>1, NextRuns, RunStepInTurn
  <1>3. TypeOK /\ Inv => HandedOnce
    <2> SUFFICES ASSUME TypeOK, InTurn, NEW r \in Runs,
                        ~run[r].began, run[r].status # "interrupted"
                 PROVE  Cardinality(handed(r)) <= 1 + run[r].requeues
      BY DEF HandedOnce, handed
    <2>1. Turns(run[r]) <= 1 + run[r].requeues /\ Turns(run[r]) \in Nat
      BY ConstAssumption DEF TypeOK, RunRow, Turns
    <2>2. Cardinality(handed(r)) \in Nat /\ run[r].requeues \in Nat
      BY HandedFinite, ConstAssumption DEF handed, TypeOK, RunRow
    <2> QED
      BY <2>1, <2>2 DEF InTurn
  <1> QED
    BY <1>1, <1>2, <1>3, TypeCorrect, PTL DEF Spec
-----------------------------------------------------------------------------
(* The control of a handler.  A wake that memory says is under way is in   *)
(* hand or watched; COLD is empty but while an instance is being torn down *)
(* after a failed wake; and a handshake the object waits for is in storage.*)

InHand == {"materialize", "resume", "reprobe", "join"}

Awaited(x, d, tk) ==
    x.state = "waking" =>
        \/ tk["wake"].pc \in InHand
        \/ /\ tk["wake"].pc = "idle" /\ "waking" \in x.armed
           /\ d.alarm \/ tk["alarm"].pc # "idle"
           /\ tk["alarm"].pc # "tear"

Emptied(x, tk) ==
    x.state = "cold" => \/ x.handle = 0 /\ x.token = 0
                        \/ \E p \in {"wake", "alarm"} : tk[p].pc = "tear"

Kept(x, d) ==
    /\ x.coldPending => d.meta.coldPending \/ d.meta.handle = 0
    /\ x.state = "waking" => ~x.rotation
    /\ d.meta.state = "waking" => ~d.meta.rotation

Control ==
    /\ ~deleted => Awaited(m, disk, task)
    /\ "crash" \notin Faults => Emptied(m, task)
    /\ Kept(m, disk)

(* What operation p may leave behind when it stops at pc: memory x and     *)
(* storage d.  A rotation that has begun is called off by nothing but its  *)
(* destroy, or with the generation.                                        *)
Rings(p, pc, x, d) ==
    \/ d.alarm = (x.armed # {})
    \/ p # "alarm" /\ (disk.alarm => d.alarm)
    \/ p = "alarm" /\ pc # "idle"

Leaves(p, pc, x, d) ==
    /\ x.state = "waking" /\ ~deleted =>
         \/ p = "wake" /\ pc \in InHand
         \/ p # "wake" /\ task["wake"].pc \in InHand
         \/ /\ p # "wake" /\ m.state = "waking"
            /\ p = "alarm" => pc # "tear"
            /\ "waking" \in m.armed => "waking" \in x.armed
    /\ x.state = "cold" =>
         \/ x.handle = 0 /\ x.token = 0
         \/ p \in {"wake", "alarm"} /\ pc = "tear"
         \/ /\ m.state = "cold" /\ x.handle = m.handle /\ x.token = m.token
            /\ p \in {"wake", "alarm"} => task[p].pc # "tear"
    /\ Kept(x, d)
    /\ Rings(p, pc, x, d)
    /\ m.rotation /\ m.coldPending /\ ~x.coldPending =>
         x.state # m.state \/ x.handle = 0 \/ pc = "destroy"

Leaving(p) ==
    /\ \A q \in {"wake", "alarm"} \ {p} : task'[q].pc = task[q].pc
    /\ Leaves(p, task'[p].pc, m', disk')

Rotates ==
    m.rotation /\ m.coldPending /\ ~m'.coldPending =>
        \/ m'.state # m.state \/ m'.handle = 0
        \/ \E p \in Tasks : task'[p].pc = "destroy"

LEMMA LeavingControl ==
    ASSUME TypeOK, TypeOK', Control, deleted => deleted', NEW p \in Tasks, Leaving(p)
    PROVE  Control' /\ Rotates
  <1>1. ~deleted' => Awaited(m', disk', task')
    <2> SUFFICES ASSUME ~deleted', m'.state = "waking", task'["wake"].pc \notin InHand
                 PROVE  /\ task'["wake"].pc = "idle" /\ "waking" \in m'.armed
                        /\ disk'.alarm \/ task'["alarm"].pc # "idle"
                        /\ task'["alarm"].pc # "tear"
      BY DEF Awaited
    <2>1. /\ p # "wake" /\ task'["wake"].pc = task["wake"].pc
          /\ m.state = "waking" /\ (p = "alarm" => task'[p].pc # "tear")
          /\ "waking" \in m.armed => "waking" \in m'.armed
      BY DEF Leaving, Leaves
    <2>2. /\ task["wake"].pc = "idle" /\ "waking" \in m.armed
          /\ disk.alarm \/ task["alarm"].pc # "idle"
          /\ task["alarm"].pc # "tear"
      BY <2>1 DEF Control, Awaited
    <2>3. task'["alarm"].pc # "tear"
      BY <2>1, <2>2 DEF Leaving
    <2>4. Rings(p, task'[p].pc, m', disk')
      BY DEF Leaving, Leaves
    <2>5. disk'.alarm \/ task'["alarm"].pc # "idle"
      BY <2>1, <2>2, <2>4 DEF Leaving, Rings
    <2> QED
      BY <2>1, <2>2, <2>3, <2>5
  <1>2. "crash" \notin Faults => Emptied(m', task')
    BY DEF Control, Emptied, Leaving, Leaves
  <1>3. Kept(m', disk') /\ Rotates
    BY DEF Leaving, Leaves, Rotates
  <1> QED
    BY <1>1, <1>2, <1>3 DEF Control, Awaited, Emptied, Kept

LEMMA AwaitLeaving ==
    ASSUME TypeOK, NEW p \in Tasks, NEW c, NEW x, NEW d,
           Await(p, c, x, d), Leaves(p, c.pc, x, d)
    PROVE  Leaving(p)
  BY DEF Await, Leaving, TypeOK, Tasks

(* A memory that differs from what the handler found in nothing the proof  *)
(* looks at, but for a handshake that activity has called off.             *)
Like(x) ==
    /\ x \in Meta
    /\ x.state = m.state /\ x.handle = m.handle /\ x.token = m.token
    /\ x.state = "waking" => ~x.rotation /\ ("waking" \in m.armed => "waking" \in x.armed)
    /\ m.rotation /\ m.coldPending => x.rotation /\ x.coldPending

LEMMA MemoryLike ==
    ASSUME TypeOK, Control
    PROVE  Like(m)
  BY DEF Like, Control, Kept, TypeOK

LEMMA ArmedLike ==
    ASSUME NEW x, Like(x), NEW S \in SUBSET Deadlines
    PROVE  Like(Set(x, S)) /\ ("waking" \notin S => Like(Clear(x, S)))
  BY DEF Like, Set, Clear, Meta

LEMMA ArmLivenessLike ==
    ASSUME NEW x, Like(x), NEW rn
    PROVE  Like(armLiveness(x, rn))
  BY ArmedLike DEF armLiveness, Deadlines

LEMMA OtherFieldsLike ==
    ASSUME NEW x, Like(x), NEW y \in Meta, y.state = x.state, y.handle = x.handle,
           y.token = x.token, y.armed = x.armed, y.rotation = x.rotation,
           y.coldPending = x.coldPending
    PROVE  Like(y)
  BY DEF Like

LEMMA FieldsLike ==
    ASSUME NEW x, Like(x), NEW b \in BOOLEAN, NEW n \in 0..MaxStrikes
    PROVE  /\ Like([x EXCEPT !.lost = b]) /\ Like([x EXCEPT !.stale = b])
           /\ Like([x EXCEPT !.strikes = n]) /\ Like([x EXCEPT !.coldPending = TRUE])
           /\ ~x.rotation => Like([x EXCEPT !.coldPending = FALSE])
           /\ x.state # "waking" => Like([x EXCEPT !.rotation = TRUE])
  BY DEF Like, Meta

LEMMA ArmTierLike ==
    ASSUME NEW x, Like(x), NEW rn
    PROVE  Like(armTier(x, rn))
  <1>1. Like([x EXCEPT !.stale = FALSE])
    BY Bounds, FieldsLike
  <1> QED
    BY <1>1, ArmedLike, ArmLivenessLike DEF armTier, Deadlines

LEMMA TouchLike ==
    ASSUME NEW x, Like(x), NEW rn
    PROVE  Like(touch(x, rn))
  <1>1. Like([x EXCEPT !.stale = TRUE])
    BY Bounds, FieldsLike
  <1>2. ~x.rotation => Like(Clear([x EXCEPT !.coldPending = FALSE], {"cold"}))
    BY Bounds, FieldsLike, ArmedLike DEF Deadlines
  <1> QED
    BY <1>1, <1>2, ArmTierLike DEF touch

LEMMA FiredLike ==
    ASSUME TypeOK, Control, NEW name \in Deadlines,
           name # "waking" \/ m.state # "waking"
    PROVE  Like(Fired(name)) /\ Kept(Fired(name), FiredDisk(name))
  <1>1. Like(Fired(name))
    BY MemoryLike DEF Fired, Like, Clear, Meta
  <1> QED
    BY <1>1 DEF FiredDisk, Kept, Like

(* Storage that holds the memory itself has kept all of it.                *)
LEMMA OwnKept ==
    ASSUME NEW x \in Meta, x.state = "waking" => ~x.rotation, NEW d
    PROVE  Kept(x, Armed(x)) /\ Kept(x, Persisted(x, d)) /\ Kept(x, Touched(x, d))
  BY DEF Kept, Armed, Persisted, Touched, Meta

(* Storage an operation may have left so far.                              *)
Written(p, d) == d \in Disk /\ (p # "alarm" => (disk.alarm => d.alarm))

LEMMA LikeLeaves ==
    ASSUME TypeOK, Control, NEW p \in Tasks, NEW pc, NEW x, NEW d,
           Like(x), Kept(x, d), Rings(p, pc, x, d),
           pc # "tear", task[p].pc # "tear",
           p = "wake" => x.state # "waking" \/ deleted \/ pc \in InHand
    PROVE  Leaves(p, pc, x, d)
  BY DEF Like, Leaves

LEMMA EndLeaving ==
    ASSUME TypeOK, Control, NEW p \in Tasks, NEW x, NEW d,
           Like(x), Kept(x, d), Written(p, d), task[p].pc # "tear",
           p = "wake" => x.state # "waking" \/ deleted,
           End(p, x, d)
    PROVE  Leaving(p)
  <1> DEFINE e == IF p \in {"alarm", "health"} THEN Armed(x) ELSE d
  <1>1. Kept(x, e)
    BY OwnKept DEF Like
  <1>2. Rings(p, "idle", x, e)
    BY DEF Rings, Armed, Written
  <1>3. Leaves(p, "idle", x, e)
    BY <1>1, <1>2, LikeLeaves
  <1> QED
    BY <1>3, IdleType, AwaitLeaving DEF End

(* A call the operation waits for, other than one that tears down.         *)
LEMMA CallLeaving ==
    ASSUME TypeOK, Control, NEW p \in Tasks, p # "wake", NEW x, NEW d, NEW c,
           Like(x), Kept(x, d), Written(p, d), task[p].pc # "tear",
           c.pc \notin {"tear", "idle"}, Await(p, c, x, d)
    PROVE  Leaving(p)
  <1>1. Rings(p, c.pc, x, d)
    BY DEF Rings, Written
  <1> QED
    BY <1>1, LikeLeaves, AwaitLeaving

LEMMA BeginWakeLeaving ==
    ASSUME TypeOK, Control, NEW x \in Meta, NEW tk \in [Tasks -> Local],
           tk["alarm"] = task["alarm"], BeginWake(x, tk)
    PROVE  Leaving("wake")
  <1>1. Minted(x) \in Gen(x.epoch + 1, x.head)
    BY MintedGen DEF BeginWake, Gen
  <1>2. Minted(x).state = "waking" /\ ~Minted(x).rotation /\ ~Minted(x).coldPending
    BY <1>1 DEF Minted, Set, Meta
  <1>3. task'["wake"].pc \in InHand /\ task'["alarm"] = task["alarm"]
    BY DEF BeginWake, Call, InHand, Tasks
  <1>4. Kept(m', disk') /\ Rings("wake", task'["wake"].pc, m', disk')
    BY <1>1, <1>2, OwnKept DEF BeginWake, Rings, Armed, Gen
  <1>5. m.rotation => m.state # "waking"
    BY DEF Control, Kept
  <1> QED
    BY <1>2, <1>3, <1>4, <1>5 DEF BeginWake, Leaving, Leaves

(* An operation that goes on with what it found: only other operations'    *)
(* places change, or what p awaits.                                        *)
LEMMA SameLeaving ==
    ASSUME TypeOK, Control, NEW p \in Tasks, Like(m'), Kept(m', disk'),
           (disk.alarm => disk'.alarm) \/ disk'.alarm = (m'.armed # {}),
           p \notin {"wake", "alarm"}, task'["wake"].pc = task["wake"].pc,
           task'["alarm"].pc = task["alarm"].pc
    PROVE  Leaving(p)
  BY DEF Like, Leaving, Leaves, Rings, Tasks

LEMMA WakeInnerLeaving ==
    ASSUME TypeOK, Control, NEW x, Like(x), NEW d, Kept(x, d), NEW rn,
           disk.alarm => d.alarm,
           NEW tk \in [Tasks -> Local], tk["alarm"] = task["alarm"],
           tk["wake"] = task["wake"],
           wakeInner(x, d, tk, rn)
    PROVE  \E p \in Tasks : Leaving(p)
  <1>0. x \in Meta /\ {"wake", "recover"} \subseteq Tasks
    BY DEF Like, Tasks
  <1>1. CASE /\ x.state = "awake" /\ m' = touch(x, rn)
             /\ disk' = Touched(touch(x, rn), d) /\ task' = tk
    <2>1. Like(m') /\ m'.state = "awake"
      BY <1>1, TouchLike DEF Like
    <2>2. Kept(m', disk')
      BY <1>1, <2>1, OwnKept DEF Like
    <2>3. disk' = Armed(m')
      BY <1>1, <2>1 DEF Touched, Like
    <2>4. disk'.alarm = (m'.armed # {})
      BY <2>3 DEF Armed
    <2> QED
      BY <1>0, <1>1, <2>1, <2>2, <2>4, SameLeaving
  <1>2. CASE /\ x.state = "awake" /\ m' = x /\ disk' = d
             /\ task' = [tk EXCEPT !["wake"] = Call("verify", x.handle)]
    <2>1. task'["wake"].pc = "verify" /\ task'["alarm"] = task["alarm"]
      BY <1>2 DEF Call, Tasks
    <2> QED
      BY <1>0, <1>2, <2>1 DEF Like, Leaving, Leaves, Rings
  <1>3. CASE BeginWake(x, tk)
    BY <1>0, <1>3, BeginWakeLeaving
  <1> QED
    BY <1>1, <1>2, <1>3 DEF wakeInner

LEMMA WakeInBackgroundLeaving ==
    ASSUME TypeOK, Control, NEW x, Like(x), NEW d, Kept(x, d), NEW rn,
           disk.alarm => d.alarm,
           NEW tk \in [Tasks -> Local], tk["alarm"] = task["alarm"],
           tk["wake"] = task["wake"],
           wakeInBackground(x, d, tk, rn)
    PROVE  \E p \in Tasks : Leaving(p)
  <1>1. CASE m' = x /\ disk' = d /\ task' = tk
    BY <1>1, SameLeaving DEF Tasks
  <1>2. CASE wakeInner(x, d, tk, rn)
    BY <1>2, WakeInnerLeaving
  <1> QED
    BY <1>1, <1>2 DEF wakeInBackground

LEMMA FailedWakeFields ==
    ASSUME NEW x \in Meta, NEW resumable \in BOOLEAN, NEW work
    PROVE  LET y == FailedWake(x, resumable, work)
           IN  /\ y \in Meta /\ y.state = x.state /\ y.rotation = x.rotation
               /\ y.coldPending = x.coldPending
               /\ ~resumable => y.handle = 0 /\ y.token = 0
  <1> DEFINE n == Capped(x.failures + 1, WakeRetries + 1)
             y == Clear([x EXCEPT !.failures = n],
                        {"waking", "liveness", "credential", "wakeRetry"})
             z == IF n <= WakeRetries /\ work THEN Set(y, {"wakeRetry"}) ELSE y
             w == IF resumable THEN Set([z EXCEPT !.stale = FALSE], {"tier"})
                  ELSE [z EXCEPT !.token = 0, !.handle = 0]
  <1>1. x \in Gen(x.epoch, x.head)
    BY DEF Gen
  <1>2. w = FailedWake(x, resumable, work)
    BY DEF FailedWake
  <1>3. w \in Meta
    BY <1>1, <1>2, FailedWakeGen DEF Gen
  <1>4. n \in 0..(WakeRetries + 1)
    BY ConstAssumption, CappedType DEF Meta
  <1>5. z \in Meta /\ z.state = x.state /\ z.rotation = x.rotation /\ z.coldPending = x.coldPending
    BY <1>4 DEF Set, Clear, Meta, Deadlines
  <1>6. /\ w.state = x.state /\ w.rotation = x.rotation /\ w.coldPending = x.coldPending
        /\ ~resumable => w.handle = 0 /\ w.token = 0
    BY <1>5 DEF Set, Meta
  <1> QED
    BY <1>2, <1>3, <1>6

LEMMA FailWakeEndLeaving ==
    ASSUME TypeOK, Control, NEW p \in {"wake", "alarm"}, NEW x \in Meta,
           NEW resumable \in BOOLEAN, x.coldPending = m.coldPending,
           x.state = "waking" =>
               ~x.rotation /\ (deleted \/ (p = "alarm" /\ task["wake"].pc \in InHand)),
           x.state = "cold" => ~resumable,
           failWakeEnd(p, x, resumable)
    PROVE  Leaving(p)
  <1> DEFINE y == FailedWake(x, resumable, pendingWork(run))
  <1>1. /\ y \in Meta /\ y.state = x.state /\ y.rotation = x.rotation
        /\ y.coldPending = x.coldPending
        /\ ~resumable => y.handle = 0 /\ y.token = 0
    BY FailedWakeFields
  <1>2. Await(p, Call("sync", 0), y, Armed(y))
    BY DEF failWakeEnd
  <1>3. Kept(y, Armed(y)) /\ Rings(p, "sync", y, Armed(y))
    BY <1>1, OwnKept DEF Rings, Armed
  <1>4. Leaves(p, "sync", y, Armed(y))
    BY <1>1, <1>3 DEF Leaves
  <1>5. Call("sync", 0).pc = "sync"
    BY DEF Call
  <1> QED
    BY <1>2, <1>4, <1>5, AwaitLeaving DEF Tasks

LEMMA FailWakeLeaving ==
    ASSUME TypeOK, Control, NEW p \in {"wake", "alarm"}, NEW x \in Meta,
           NEW resumable \in BOOLEAN, NEW d, x.coldPending = m.coldPending,
           d.meta \in Meta, x.coldPending => d.meta.coldPending \/ d.meta.handle = 0,
           d.meta.state = "waking" => ~d.meta.rotation,
           p # "alarm" => (disk.alarm => d.alarm),
           failWake(p, x, resumable, d)
    PROVE  Leaving(p)
  <1> DEFINE y == [x EXCEPT !.state = IF resumable THEN "warm" ELSE "cold"]
  <1>1. y \in Meta /\ y.state = (IF resumable THEN "warm" ELSE "cold")
        /\ y.coldPending = x.coldPending /\ y.handle = x.handle
    BY DEF Meta
  <1>2. CASE failWakeEnd(p, y, resumable)
    <2>1. /\ y.state # "waking" /\ y.coldPending = m.coldPending
          /\ y.state = "cold" => ~resumable
      BY <1>1
    <2> HIDE DEF y
    <2> QED
      BY <1>1, <1>2, <2>1, FailWakeEndLeaving
  <1>3. CASE Await(p, Call("tear", x.handle), y, d)
    <2>1. Kept(y, d) /\ Rings(p, "tear", y, d)
      BY <1>1 DEF Kept, Rings
    <2>2. Leaves(p, "tear", y, d)
      BY <1>1, <2>1 DEF Leaves
    <2>3. Call("tear", x.handle).pc = "tear"
      BY DEF Call
    <2> QED
      BY <1>3, <2>2, <2>3, AwaitLeaving DEF Tasks
  <1> QED
    BY <1>2, <1>3 DEF failWake

LEMMA RecoveredFields ==
    ASSUME NEW x \in Meta
    PROVE  /\ Recovered(x) \in Meta /\ Recovered(x).state = "cold"
           /\ Recovered(x).handle = 0 /\ Recovered(x).token = 0
  <1>1. Recovered(x) \in Gen(x.epoch, x.head)
    BY RecoveredGen DEF Gen
  <1> QED
    BY <1>1 DEF Recovered, Clear, Gen, Meta

LEMMA FinalizedFields ==
    ASSUME NEW x \in Meta
    PROVE  /\ Finalized(x) \in Meta /\ Finalized(x).state = "cold"
           /\ Finalized(x).handle = 0 /\ Finalized(x).token = 0
  <1>1. Finalized(x) \in Gen(x.epoch, x.head)
    BY FinalizedGen DEF Gen
  <1> QED
    BY <1>1 DEF Finalized, Clear, Gen, Meta

(* A recovery that settles leaves the computer COLD and empty, wherever    *)
(* the operations that wait for it stand.                                  *)
LEMMA RecoverSettlesLeaving ==
    ASSUME TypeOK, Control, NEW p \in Tasks, NEW x \in Meta, NEW d,
           NEW tk \in [Tasks -> Local],
           \A q \in {"wake", "alarm"} \ {p} : tk[q].pc = task[q].pc,
           p = "alarm" => tk[p].pc # "idle", p # "alarm" => (disk.alarm => d.alarm),
           RecoverSettles(x, d, tk)
    PROVE  Leaving(p)
  <1>1. /\ m' = Recovered(x) /\ disk' = Persisted(m', d)
        /\ task' = [tk EXCEPT !["recover"].pc = "settled"]
    BY DEF RecoverSettles
  <1>2. m' \in Meta /\ m'.state = "cold" /\ m'.handle = 0 /\ m'.token = 0
    BY <1>1, RecoveredFields
  <1>3. Kept(m', disk')
    BY <1>1, <1>2, OwnKept
  <1>4. Rings(p, task'[p].pc, m', disk')
    BY <1>1 DEF Rings, Persisted, Tasks
  <1>5. \A q \in {"wake", "alarm"} \ {p} : task'[q].pc = task[q].pc
    BY <1>1 DEF Tasks
  <1> QED
    BY <1>2, <1>3, <1>4, <1>5 DEF Leaving, Leaves

LEMMA RecoverLeaving ==
    ASSUME TypeOK, Control, NEW p \in Tasks, NEW x, NEW d, NEW rewake \in BOOLEAN,
           Like(x), Kept(x, d), Written(p, d), task[p].pc # "tear", p # "recover",
           recover(p, x, d, rewake)
    PROVE  Leaving(p)
  <1> DEFINE tk == [task EXCEPT ![p] = Call("join", 0)]
             c  == [Call("destroy", x.handle) EXCEPT !.rewake = rewake,
                                                     !.work = pendingWork(run)]
             tc == [tk EXCEPT !["recover"] = c]
  <1>0. x \in Meta /\ Call("join", 0) \in Local /\ Call("join", 0).pc = "join"
    BY CallType, Bounds DEF Pcs, Like
  <1>1. c \in Local
    <2>1. Call("destroy", x.handle) \in Local
      BY <1>0, CallType DEF Meta, Pcs
    <2> QED
      BY <2>1, ReadsType DEF pendingWork
  <1>2. tk \in [Tasks -> Local] /\ tc \in [Tasks -> Local]
    BY <1>0, <1>1 DEF TypeOK
  <1>3. /\ tk[p].pc = "join" /\ tc[p].pc = "join"
        /\ \A q \in {"wake", "alarm"} \ {p} : tk[q].pc = task[q].pc /\ tc[q].pc = task[q].pc
    BY <1>0 DEF TypeOK, Tasks
  <1>4. CASE RecoverSettles(x, d, tc)
    BY <1>0, <1>2, <1>3, <1>4, RecoverSettlesLeaving DEF Written
  <1>5. CASE m' = x /\ disk' = d /\ task' \in {tk, tc}
    <2>1. Rings(p, "join", x, d)
      BY DEF Rings, Written
    <2>2. Leaves(p, "join", x, d)
      BY <2>1, LikeLeaves DEF InHand
    <2> QED
      BY <1>3, <1>5, <2>2 DEF Leaving
  <1> QED
    BY <1>4, <1>5 DEF recover

LEMMA FinalizeSettlesLeaving ==
    ASSUME TypeOK, Control, NEW p \in {"alarm", "rpc", "msg"}, NEW x \in Meta, NEW d,
           Written(p, d), FinalizeSettles(p, x, d)
    PROVE  Leaving(p)
  <1> DEFINE y == Finalized(x)
  <1>1. y \in Meta /\ y.state = "cold" /\ y.handle = 0 /\ y.token = 0
    BY FinalizedFields
  <1>2. Kept(y, Persisted(y, d)) /\ Rings(p, "settled", y, Persisted(y, d))
    BY <1>1, OwnKept DEF Rings, Persisted, Written, Disk
  <1>3. Leaves(p, "settled", y, Persisted(y, d))
    BY <1>1, <1>2 DEF Leaves
  <1>4. Call("settled", 0).pc = "settled" /\ p \in Tasks
    BY DEF Call, Tasks
  <1> QED
    BY <1>3, <1>4, AwaitLeaving DEF FinalizeSettles

LEMMA FinalizeColdLeaving ==
    ASSUME TypeOK, Control, NEW p \in {"alarm", "rpc", "msg"}, NEW x, NEW d,
           NEW final \in BOOLEAN, Like(x), Kept(x, d), Written(p, d),
           task[p].pc # "tear", finalizeCold(p, x, d, final)
    PROVE  Leaving(p)
  <1> DEFINE y == [x EXCEPT !.head = IF final THEN x.epoch ELSE @,
                            !.coldPending = FALSE, !.rotation = FALSE]
  <1>1. /\ y \in Meta /\ y.state = x.state /\ y.handle = x.handle /\ y.token = x.token
        /\ y.armed = x.armed /\ ~y.coldPending /\ ~y.rotation
    BY DEF Like, Meta
  <1>2. CASE FinalizeSettles(p, y, d)
    BY <1>1, <1>2, FinalizeSettlesLeaving
  <1>3. CASE Await(p, Call("destroy", x.handle), y, d)
    <2>1. Kept(y, d) /\ Rings(p, "destroy", y, d)
      BY <1>1 DEF Kept, Rings, Written
    <2>2. Leaves(p, "destroy", y, d)
      BY <1>1, <2>1 DEF Leaves, Like
    <2>3. Call("destroy", x.handle).pc = "destroy" /\ p \in Tasks
      BY DEF Call, Tasks
    <2> QED
      BY <1>3, <2>2, <2>3, AwaitLeaving
  <1> QED
    BY <1>2, <1>3 DEF finalizeCold

LEMMA PrepareForColdLeaving ==
    ASSUME TypeOK, Control, NEW p \in {"alarm", "rpc"}, NEW x, Like(x),
           task[p].pc # "tear", prepareForCold(p, x)
    PROVE  Leaving(p)
  <1> DEFINE y == Set([x EXCEPT !.coldPending = TRUE], {"cold"})
  <1>1. Like(y)
    BY Bounds, FieldsLike, ArmedLike DEF Deadlines
  <1>2. Kept(y, Armed(y)) /\ Rings(p, "idle", y, Armed(y))
    BY <1>1, OwnKept DEF Rings, Armed, Like
  <1>3. Leaves(p, "idle", y, Armed(y)) /\ p \in Tasks
    BY <1>1, <1>2, LikeLeaves DEF Tasks
  <1> QED
    BY <1>3, IdleType, AwaitLeaving DEF prepareForCold

LEMMA BeginColdLeaving ==
    ASSUME TypeOK, Control, NEW p \in {"alarm", "rpc"}, NEW x, NEW d, Like(x),
           Kept(x, d), Written(p, d), task[p].pc # "tear", beginCold(p, x, d)
    PROVE  Leaving(p)
  <1>1. CASE finalizeCold(p, x, d, FALSE)
    BY <1>1, FinalizeColdLeaving
  <1>2. CASE Await(p, Call("resumeCold", x.handle), x, d)
    BY <1>2, CallLeaving DEF Call, Tasks
  <1>3. CASE prepareForCold(p, x)
    BY <1>3, PrepareForColdLeaving
  <1> QED
    BY <1>1, <1>2, <1>3 DEF beginCold

LEMMA LivenessCheckLeaving ==
    ASSUME TypeOK, Control, NEW p \in {"alarm", "health"}, NEW x, NEW d, Like(x),
           Kept(x, d), Written(p, d), task[p].pc = "idle", livenessCheck(p, x, d)
    PROVE  Leaving(p)
  <1>0. p \in Tasks /\ p # "wake" /\ p # "recover"
    BY DEF Tasks
  <1>1. ASSUME NEW y, y \in {x, [x EXCEPT !.lost = FALSE], armLiveness([x EXCEPT !.strikes = 0], run)},
               End(p, y, d)
        PROVE  Leaving(p)
    <2>0. Like([x EXCEPT !.lost = FALSE]) /\ Like([x EXCEPT !.strikes = 0])
      BY Bounds, FieldsLike
    <2>1. Like(y)
      BY <1>1, <2>0, ArmLivenessLike
    <2>2. Kept(y, Armed(y)) /\ Rings(p, "idle", y, Armed(y))
      BY <2>1, OwnKept DEF Like, Rings, Armed
    <2>3. Leaves(p, "idle", y, Armed(y))
      BY <1>0, <2>1, <2>2, LikeLeaves
    <2> QED
      BY <1>0, <1>1, <2>3, IdleType, AwaitLeaving DEF End
  <1>2. CASE recover(p, x, d, TRUE)
    BY <1>0, <1>2, RecoverLeaving
  <1>3. CASE Await(p, [Call("probe", x.handle) EXCEPT
                         !.work = pendingWork(run), !.live = liveSupervisor], x, d)
    <2>1. [Call("probe", x.handle) EXCEPT !.work = pendingWork(run), !.live = liveSupervisor].pc
            = "probe"
      BY DEF Call
    <2> QED
      BY <1>0, <1>3, <2>1, CallLeaving
  <1> QED
    BY <1>1, <1>2, <1>3 DEF livenessCheck

-----------------------------------------------------------------------------
(* Every step leaves control as it should be.                              *)

LEMMA StillLeaving ==
    ASSUME TypeOK, Control, UNCHANGED <<m, disk>>,
           \A p \in {"wake", "alarm"} : task'[p].pc = task[p].pc
    PROVE  Leaving("recover")
  BY MemoryLike, SameLeaving DEF Control, Tasks

(* A wake that has gone through is AWAKE, and a rotation goes on.          *)
LEMMA AwakenedLeaving ==
    ASSUME TypeOK, Control, NEW x \in Meta, x.coldPending = m.coldPending,
           x.rotation = m.rotation,
           Await("wake", Call("sync", 0), Awakened(x, run), Armed(Awakened(x, run)))
    PROVE  Leaving("wake")
  <1> DEFINE y == Clear([x EXCEPT !.state = "awake", !.failures = 0],
                        {"wakeRetry", "waking", "credential"})
             z == IF UsesS3 THEN Set(y, {"credential"}) ELSE y
             t == IF z.rotation THEN z ELSE Clear([z EXCEPT !.coldPending = FALSE], {"cold"})
  <1>1. /\ z \in Meta /\ z.state = "awake" /\ z.coldPending = m.coldPending
        /\ z.rotation = m.rotation
    BY Bounds DEF Set, Clear, Meta, Deadlines
  <1> HIDE DEF y, z
  <1>2. /\ t \in Meta /\ t.state = "awake" /\ (m.rotation => t.coldPending = m.coldPending)
    BY <1>1 DEF Set, Clear, Meta, Deadlines
  <1>3. Awakened(x, run) = armTier(t, run)
    BY <1>1 DEF Awakened, touch, y, z
  <1> HIDE DEF t
  <1>4. /\ armTier(t, run) \in Meta /\ armTier(t, run).state = "awake"
        /\ armTier(t, run).coldPending = t.coldPending
    BY <1>2 DEF armTier, armLiveness, Set, Clear, Meta, Deadlines
  <1>5. /\ Kept(armTier(t, run), Armed(armTier(t, run)))
        /\ Rings("wake", "sync", armTier(t, run), Armed(armTier(t, run)))
    BY <1>4, OwnKept DEF Rings, Armed
  <1>6. Leaves("wake", "sync", armTier(t, run), Armed(armTier(t, run)))
    BY <1>2, <1>4, <1>5 DEF Leaves
  <1>7. Call("sync", 0).pc = "sync" /\ "wake" \in Tasks
    BY DEF Call, Tasks
  <1> QED
    BY <1>3, <1>6, <1>7, AwaitLeaving

LEMMA WakingLeaving ==
    ASSUME TypeOK, Control, Waking
    PROVE  \E p \in Tasks : Leaving(p)
  <1> USE MemoryLike
  <1>0. /\ Kept(m, disk) /\ m \in Meta /\ disk \in Disk /\ task \in [Tasks -> Local]
        /\ {"wake", "alarm"} \subseteq Tasks
    BY DEF Control, TypeOK, Disk, Tasks
  <1>1. CASE Wake
    BY <1>0, <1>1, WakeInnerLeaving DEF Wake
  <1>2. CASE WakeVerified
    BY <1>0, <1>2, RecoverLeaving DEF WakeVerified, Written
  <1>3. CASE WakeMaterialized
    <2> DEFINE x == [m EXCEPT !.handle = task["wake"].on]
    <2>1. x \in Meta /\ x.coldPending = m.coldPending /\ x.rotation = m.rotation
      BY <1>0 DEF Meta, Local
    <2> QED
      BY <1>0, <1>3, <2>1, AwakenedLeaving DEF WakeMaterialized
  <1>4. CASE WakeResumed
    BY <1>0, <1>4, AwakenedLeaving DEF WakeResumed
  <1>5. CASE WakeRefused
    <2>1. CASE Await("wake", Call("reprobe", m.handle), m, disk)
      <3>1. Call("reprobe", m.handle).pc = "reprobe" /\ "reprobe" \in InHand
        BY DEF Call, InHand
      <3>2. Leaves("wake", "reprobe", m, disk)
        BY <1>0, <1>5, <3>1, LikeLeaves DEF Rings, WakeRefused
      <3> QED
        BY <1>0, <2>1, <3>1, <3>2, AwaitLeaving
    <2>2. CASE failWake("wake", m, FALSE, disk)
      BY <1>0, <2>2, FailWakeLeaving DEF Kept, Disk
    <2> QED
      BY <1>5, <2>1, <2>2 DEF WakeRefused
  <1>6. CASE WakeReprobed
    <2>1. CASE recover("wake", m, disk, FALSE)
      BY <1>0, <1>6, <2>1, RecoverLeaving DEF WakeReprobed, Written
    <2>2. CASE failWake("wake", m, m.handle # 0, disk)
      BY <1>0, <2>2, FailWakeLeaving DEF Kept, Disk
    <2> QED
      BY <1>6, <2>1, <2>2 DEF WakeReprobed
  <1>7. ASSUME NEW p \in {"wake", "alarm"}, TornDown(p)
        PROVE  Leaving(p)
    <2>1. m.state = "waking" => 
              deleted \/ (p = "alarm" /\ task["wake"].pc \in InHand)
      BY <1>7 DEF TornDown, Control, Awaited, InHand
    <2> QED
      BY <1>0, <1>7, <2>1, FailWakeEndLeaving DEF TornDown, Kept
  <1>8. ASSUME NEW p \in {"wake", "alarm"}, Synced(p)
        PROVE  Leaving(p)
    <2>1. p = "wake" => m.state # "waking" \/ deleted
      BY <1>8 DEF Synced, Control, Awaited, InHand
    <2> QED
      BY <1>0, <1>8, <2>1, EndLeaving DEF Synced, Written
  <1> QED
    BY <1>0, <1>1, <1>2, <1>3, <1>4, <1>5, <1>6, <1>7, <1>8 DEF Waking

LEMMA RecoveringLeaving ==
    ASSUME TypeOK, Control, Recovering
    PROVE  \E p \in Tasks : Leaving(p)
  <1> USE MemoryLike
  <1>0. /\ Kept(m, disk) /\ m \in Meta /\ disk \in Disk /\ task \in [Tasks -> Local]
        /\ {"wake", "alarm", "health", "rpc", "recover"} \subseteq Tasks
    BY DEF Control, TypeOK, Disk, Tasks
  <1>1. CASE RecoverDestroyed
    BY <1>0, <1>1, RecoverSettlesLeaving DEF RecoverDestroyed
  <1>2. CASE RecoverEnds
    <2> DEFINE rn == degradeInFlightRuns(run)
               tk == [task EXCEPT !["recover"] = Idle]
    <2>1. tk \in [Tasks -> Local] /\ tk["wake"] = task["wake"] /\ tk["alarm"] = task["alarm"]
      BY <1>0, IdleType
    <2>2. CASE BeginWake(m, tk)
      BY <1>0, <2>1, <2>2, BeginWakeLeaving
    <2>3. CASE wakeInBackground(m, Persisted(m, disk), tk, rn)
      <3>1. Kept(m, Persisted(m, disk)) /\ (disk.alarm => Persisted(m, disk).alarm)
        BY <1>0, OwnKept DEF Kept, Persisted, Disk
      <3> QED
        BY <2>1, <2>3, <3>1, WakeInBackgroundLeaving
    <2>4. CASE m' = m /\ disk' = Armed(m) /\ task' = tk
      <3>1. Kept(m', disk') /\ disk'.alarm = (m'.armed # {})
        BY <1>0, <2>4, OwnKept DEF Kept, Armed
      <3> QED
        BY <1>0, <2>1, <2>4, <3>1, SameLeaving
    <2> QED
      BY <1>2, <2>2, <2>3, <2>4 DEF RecoverEnds
  <1>3. ASSUME NEW p \in {"alarm", "health", "rpc"}, Joined(p)
        PROVE  Leaving(p)
    BY <1>0, <1>3, EndLeaving DEF Joined, Written
  <1> QED
    BY <1>0, <1>1, <1>2, <1>3 DEF Recovering

(* Falling asleep keeps the handshake and its deadline.                    *)
LEMMA SleptTo ==
    ASSUME NEW x \in Meta
    PROVE  /\ Slept(x) \in Meta /\ Slept(x).state = "warm"
           /\ Slept(x).coldPending = x.coldPending
           /\ "cold" \in x.armed => "cold" \in Slept(x).armed
  <1> DEFINE a == Clear([x EXCEPT !.state = "warm"], {"liveness"})
             b == Set([a EXCEPT !.stale = FALSE], {"tier"})
  <1>1. /\ a \in Meta /\ a.state = "warm" /\ a.coldPending = x.coldPending
        /\ a.armed = x.armed \ {"liveness"}
    BY DEF Clear, Meta
  <1> HIDE DEF a
  <1>2. /\ b \in Meta /\ b.state = "warm" /\ b.coldPending = x.coldPending
        /\ b.armed = a.armed \cup {"tier"}
    BY <1>1 DEF Set, Meta, Deadlines
  <1>3. Slept(x) = armLiveness(b, run)
    BY DEF Slept, armTier, a
  <1> HIDE DEF b
  <1>4. Slept(x) = Clear(b, {"liveness"})
    BY <1>2, <1>3 DEF armLiveness
  <1>5. /\ Slept(x) \in Meta /\ Slept(x).state = "warm"
        /\ Slept(x).coldPending = x.coldPending
        /\ Slept(x).armed = b.armed \ {"liveness"}
    BY <1>2, <1>4 DEF Clear, Meta
  <1> QED
    BY <1>1, <1>2, <1>5

LEMMA SleptLeaves ==
    ASSUME TypeOK, Control, NEW x, Like(x)
    PROVE  LET y == Slept(x)
           IN  Leaves("alarm", "idle", y, Armed(y))
  <1> DEFINE y == Slept(x)
  <1>1. y \in Meta /\ y.state = "warm" /\ y.coldPending = x.coldPending
    BY SleptTo DEF Like
  <1>2. Kept(y, Armed(y)) /\ Rings("alarm", "idle", y, Armed(y))
    BY <1>1, OwnKept DEF Rings, Armed
  <1> QED
    BY <1>1, <1>2 DEF Leaves, Like

LEMMA AlarmsLeaving ==
    ASSUME TypeOK, Control, Alarms
    PROVE  \E p \in Tasks : Leaving(p)
  <1> USE MemoryLike
  <1>0. /\ Kept(m, disk) /\ m \in Meta /\ disk \in Disk /\ task \in [Tasks -> Local]
        /\ {"alarm", "recover"} \subseteq Tasks
        /\ \A name \in Deadlines :
             FiredDisk(name) \in Disk /\ Written("alarm", FiredDisk(name))
    <2>1. \A name \in Deadlines : FiredDisk(name) \in Disk
      BY FiredGen DEF FiredDisk, Disk, Gen
    <2> QED
      BY <2>1 DEF Control, TypeOK, Disk, Tasks, Written
  <1>1. CASE AlarmEmpty
    <2>1. /\ m' = m /\ task' = task /\ disk' = [disk EXCEPT !.alarm = FALSE]
          /\ m.armed = {}
      BY <1>1 DEF AlarmEmpty
    <2>2. Kept(m', disk') /\ disk'.alarm = (m'.armed # {})
      BY <1>0, <2>1 DEF Kept, Disk
    <2> QED
      BY <1>0, <2>1, <2>2, SameLeaving
  <1>2. CASE onWakeRetryDeadline
    <2> DEFINE x == Fired("wakeRetry")
    <2>1. Like(x) /\ Kept(x, FiredDisk("wakeRetry")) /\ x \in Meta
      BY FiredLike DEF Deadlines, Like
    <2>2. CASE BeginWake(x, task)
      BY <1>0, <2>1, <2>2, BeginWakeLeaving DEF Tasks
    <2>3. CASE End("alarm", x, FiredDisk("wakeRetry"))
      BY <1>0, <1>2, <2>1, <2>3, EndLeaving DEF onWakeRetryDeadline, Fires, Deadlines
    <2> QED
      BY <1>2, <2>2, <2>3 DEF onWakeRetryDeadline, Tasks
  <1>3. CASE onWakingDeadline
    <2> DEFINE x == Fired("waking")
               d == FiredDisk("waking")
    <2>1. /\ task["alarm"].pc = "idle" /\ x \in Meta /\ Written("alarm", d)
          /\ x.state = m.state /\ x.coldPending = m.coldPending /\ d.meta = x
          /\ x.rotation = m.rotation
      BY <1>0, <1>3 DEF onWakingDeadline, Fires, Fired, FiredDisk, Clear, Meta, Deadlines
    <2>2. CASE x.state # "waking" /\ End("alarm", x, d)
      <3>1. Like(x) /\ Kept(x, d)
        BY <2>1, <2>2, FiredLike DEF Deadlines
      <3> QED
        BY <1>0, <2>1, <2>2, <3>1, EndLeaving
    <2>3. CASE End("alarm", Set(x, {"waking"}), d)
      <3>1. Like(Set(x, {"waking"}))
        BY DEF Fired, Set, Clear, Like, Meta, Deadlines
      <3>2. Kept(Set(x, {"waking"}), d)
        BY <1>0, <2>1 DEF Kept, Set, Meta
      <3> QED
        BY <1>0, <2>1, <2>3, <3>1, <3>2, EndLeaving
    <2>4. CASE failWake("alarm", x, FALSE, d)
      BY <1>0, <2>1, <2>4, FailWakeLeaving DEF Kept
    <2> QED
      BY <1>0, <1>3, <2>2, <2>3, <2>4 DEF onWakingDeadline
  <1>4. CASE onLivenessDeadline
    BY <1>0, <1>4, FiredLike, LivenessCheckLeaving DEF onLivenessDeadline, Fires, Deadlines
  <1>5. CASE onColdDeadline
    <2>1. Like(Fired("cold")) /\ Kept(Fired("cold"), FiredDisk("cold"))
      BY FiredLike DEF Deadlines
    <2>2. task["alarm"].pc = "idle" /\ Written("alarm", FiredDisk("cold"))
      BY <1>0, <1>5 DEF onColdDeadline, Fires, Deadlines
    <2>3. CASE End("alarm", Fired("cold"), FiredDisk("cold"))
      BY <1>0, <2>1, <2>2, <2>3, EndLeaving
    <2>4. CASE finalizeCold("alarm", Fired("cold"), FiredDisk("cold"), FALSE)
      BY <1>0, <2>1, <2>2, <2>4, FinalizeColdLeaving
    <2> QED
      BY <1>0, <1>5, <2>3, <2>4 DEF onColdDeadline
  <1>6. CASE onCredentialDeadline
    <2> DEFINE x == Fired("credential")
               d == FiredDisk("credential")
               y == [x EXCEPT !.rotation = TRUE]
    <2>1. Like(x) /\ Kept(x, d) /\ x.state = m.state
      BY FiredLike DEF Deadlines, Like
    <2>2. task["alarm"].pc = "idle" /\ Written("alarm", d)
      BY <1>0, <1>6 DEF onCredentialDeadline, Fires, Deadlines
    <2>3. CASE x.state \in {"awake", "warm"} /\ beginCold("alarm", y, d)
      <3>1. Like(y)
        BY <2>1, <2>3, Bounds, FieldsLike
      <3>2. Kept(y, d)
        BY <2>1, <2>3 DEF Kept, Like, Meta
      <3> QED
        BY <1>0, <2>2, <2>3, <3>1, <3>2, BeginColdLeaving
    <2>4. CASE End("alarm", x, d)
      BY <1>0, <2>1, <2>2, <2>4, EndLeaving
    <2> QED
      BY <1>0, <1>6, <2>3, <2>4 DEF onCredentialDeadline
  <1>7. CASE onTierDeadline
    <2> DEFINE x == Fired("tier")
               d == FiredDisk("tier")
    <2>1. Like(x) /\ Kept(x, d)
      BY FiredLike DEF Deadlines
    <2>2. task["alarm"].pc = "idle" /\ Written("alarm", d)
      BY <1>0, <1>7 DEF onTierDeadline, Fires, Deadlines
    <2>3. CASE End("alarm", x, d)
      BY <1>0, <2>1, <2>2, <2>3, EndLeaving
    <2>4. CASE End("alarm", armTier(x, run), d)
      <3>1. Like(armTier(x, run))
        BY <2>1, ArmTierLike
      <3>2. End("alarm", armTier(x, run), Armed(armTier(x, run)))
        BY <2>4 DEF End, Await
      <3>3. Kept(armTier(x, run), Armed(armTier(x, run)))
        BY <3>1, OwnKept DEF Like
      <3>4. Written("alarm", Armed(armTier(x, run)))
        BY <3>1 DEF Written, Armed, Disk, Like
      <3> QED
        BY <1>0, <2>2, <3>1, <3>2, <3>3, <3>4, EndLeaving
    <2>5. CASE End("alarm", Slept(x), d)
      BY <1>0, <2>1, <2>5, SleptLeaves, AwaitLeaving, IdleType DEF End
    <2>6. CASE Await("alarm", Call("sleep", x.handle), x, d)
      BY <1>0, <2>1, <2>2, <2>6, CallLeaving DEF Call
    <2>7. CASE beginCold("alarm", x, d)
      BY <1>0, <2>1, <2>2, <2>7, BeginColdLeaving
    <2> QED
      BY <1>0, <1>7, <2>3, <2>4, <2>5, <2>6, <2>7 DEF onTierDeadline
  <1> QED
    BY <1>0, <1>1, <1>2, <1>3, <1>4, <1>5, <1>6, <1>7 DEF Alarms

LEMMA CheckingLeaving ==
    ASSUME TypeOK, Control, Checking
    PROVE  \E p \in Tasks : Leaving(p)
  <1> USE MemoryLike
  <1>0. /\ Kept(m, disk) /\ m \in Meta /\ disk \in Disk
        /\ {"alarm", "health"} \subseteq Tasks
    BY DEF Control, TypeOK, Disk, Tasks
  <1>1. CASE healthCheck
    BY <1>0, <1>1, LivenessCheckLeaving DEF healthCheck, Written
  <1>2. ASSUME NEW p \in {"alarm", "health"}, Probed(p)
        PROVE  Leaving(p)
    <2> DEFINE hit == [m EXCEPT !.strikes = Capped(@ + 1, MaxStrikes)]
    <2>1. Capped(m.strikes + 1, MaxStrikes) \in 0..MaxStrikes
      BY ConstAssumption, CappedType DEF TypeOK, Meta
    <2>2. Like(hit) /\ Like([m EXCEPT !.lost = FALSE])
      BY <2>1, FieldsLike
    <2>3. Like(armLiveness(hit, run))
      BY <2>2, ArmLivenessLike
    <2>4. task[p].pc = "probe" /\ Written(p, disk) /\ p \in Tasks /\ p # "recover"
      BY <1>0, <1>2 DEF Probed, Written, Tasks
    <2>5. \/ recover(p, m, disk, TRUE) \/ recover(p, hit, disk, TRUE)
          \/ End(p, armLiveness(hit, run), disk) \/ End(p, [m EXCEPT !.lost = FALSE], disk)
      BY <1>2 DEF Probed
    <2>6. Kept(hit, disk)
      BY <1>0, <2>2 DEF Kept, Meta
    <2>7. CASE recover(p, m, disk, TRUE) \/ recover(p, hit, disk, TRUE)
      BY <1>0, <2>2, <2>4, <2>6, <2>7, RecoverLeaving
    <2>8. ASSUME NEW y, Like(y), End(p, y, disk)
          PROVE  Leaving(p)
      <3>1. End(p, y, Armed(y)) /\ Kept(y, Armed(y)) /\ Rings(p, "idle", y, Armed(y))
        BY <2>8, OwnKept DEF End, Await, Like, Rings, Armed
      <3>2. Leaves(p, "idle", y, Armed(y))
        BY <2>4, <2>8, <3>1, LikeLeaves
      <3> QED
        BY <2>4, <3>1, <3>2, IdleType, AwaitLeaving DEF End
    <2> QED
      BY <2>2, <2>3, <2>5, <2>7, <2>8
  <1> QED
    BY <1>0, <1>1, <1>2 DEF Checking

LEMMA SleepingLeaving ==
    ASSUME TypeOK, Control, Sleeping
    PROVE  \E p \in Tasks : Leaving(p)
  <1> USE MemoryLike
  <1>0. /\ Kept(m, disk) /\ m \in Meta /\ disk \in Disk
        /\ {"alarm", "rpc", "msg"} \subseteq Tasks
        /\ \A p \in Tasks : Written(p, disk)
    BY DEF Control, TypeOK, Disk, Tasks, Written
  <1>1. CASE sleepNow
    BY <1>0, <1>1, CallLeaving DEF sleepNow, Call
  <1>2. CASE deepSleepNow
    BY <1>0, <1>2, BeginColdLeaving DEF deepSleepNow
  <1>3. CASE TierSlept
    BY <1>0, <1>3, SleptLeaves, AwaitLeaving, IdleType DEF TierSlept, End
  <1>4. CASE RpcSlept
    <2> DEFINE y == [m EXCEPT !.state = "warm", !.lost = FALSE, !.stale = FALSE]
               z == Set(Clear(y, {"liveness"}), {"tier"})
    <2>1. z \in Meta /\ z.state = "warm" /\ z.coldPending = m.coldPending
      BY <1>0 DEF Set, Clear, Meta, Deadlines
    <2>2. Kept(z, Armed(z)) /\ Rings("rpc", "idle", z, Armed(z))
      BY <2>1, OwnKept DEF Rings, Armed
    <2>3. Leaves("rpc", "idle", z, Armed(z))
      BY <2>1, <2>2 DEF Leaves
    <2> QED
      BY <1>0, <1>4, <2>3, AwaitLeaving, IdleType DEF RpcSlept
  <1>5. ASSUME NEW p \in {"alarm", "rpc"}, SleepRefused(p)
        PROVE  Leaving(p)
    <2>1. CASE recover(p, m, disk, TRUE)
      BY <1>0, <1>5, <2>1, RecoverLeaving DEF SleepRefused
    <2>2. CASE Await(p, Call("sleepProbe", m.handle), m, disk)
      BY <1>0, <1>5, <2>2, CallLeaving DEF SleepRefused, Call
    <2> QED
      BY <1>5, <2>1, <2>2 DEF SleepRefused
  <1>6. ASSUME NEW p \in {"alarm", "rpc"}, SleepProbed(p)
        PROVE  Leaving(p)
    <2>0. task[p].pc = "sleepProbe" /\ p \in Tasks /\ p # "wake" /\ p # "recover"
      BY <1>0, <1>6 DEF SleepProbed
    <2>1. CASE recover(p, m, disk, TRUE)
      BY <1>0, <2>0, <2>1, RecoverLeaving
    <2>2. CASE beginCold(p, m, disk)
      BY <1>0, <2>0, <2>2, BeginColdLeaving
    <2>3. CASE End(p, m, disk)
      BY <1>0, <2>0, <2>3, EndLeaving
    <2> QED
      BY <1>6, <2>1, <2>2, <2>3 DEF SleepProbed
  <1>7. ASSUME NEW p \in {"alarm", "rpc"}, ResumedForCold(p)
        PROVE  Leaving(p)
    <2>1. CASE prepareForCold(p, m)
      BY <1>7, <2>1, PrepareForColdLeaving DEF ResumedForCold
    <2>2. CASE finalizeCold(p, m, disk, FALSE)
      BY <1>0, <1>7, <2>2, FinalizeColdLeaving DEF ResumedForCold
    <2> QED
      BY <1>7, <2>1, <2>2 DEF ResumedForCold
  <1>8. ASSUME NEW p \in {"alarm", "rpc", "msg"}, FinalizeDestroyed(p)
        PROVE  Leaving(p)
    BY <1>0, <1>8, FinalizeSettlesLeaving DEF FinalizeDestroyed
  <1>9. ASSUME NEW p \in {"alarm", "rpc", "msg"}, FinalizeEnds(p)
        PROVE  Leaving(p)
    <2> DEFINE x == [m EXCEPT !.failures = 0]
               y == IF hasQueuedRuns(degradeInFlightRuns(run))
                    THEN Set(x, {"wakeRetry"}) ELSE m
    <2>1. Like(x)
      <3>1. /\ x \in Meta /\ x.state = m.state /\ x.handle = m.handle /\ x.token = m.token
            /\ x.armed = m.armed /\ x.rotation = m.rotation /\ x.coldPending = m.coldPending
        BY <1>0, Bounds DEF Meta
      <3> QED
        BY <3>1, OtherFieldsLike
    <2>2. Like(y)
      BY <2>1, ArmedLike DEF Deadlines
    <2>3. Kept(y, Armed(y)) /\ Rings(p, "idle", y, Armed(y))
      BY <2>2, OwnKept DEF Like, Rings, Armed
    <2>4. Leaves(p, "idle", y, Armed(y))
      BY <1>0, <1>9, <2>2, <2>3, LikeLeaves DEF FinalizeEnds
    <2>5. Await(p, Idle, y, Armed(y))
      BY <1>9 DEF FinalizeEnds
    <2> QED
      BY <1>0, <2>4, <2>5, AwaitLeaving, IdleType
  <1> QED
    BY <1>0, <1>1, <1>2, <1>3, <1>4, <1>5, <1>6, <1>7, <1>8, <1>9 DEF Sleeping

(* Once the computer is deleted nothing watches, and nothing is left.      *)
LEMMA ForgottenControl ==
    ASSUME TypeOK, Control, Forgotten
    PROVE  Control' /\ Rotates
  <1>1. /\ m' = [m EXCEPT !.handle = 0, !.token = 0] /\ deleted'
        /\ disk' = [meta |-> initialMeta, alarm |-> FALSE]
    BY DEF Forgotten, Await
  <1>2. /\ m'.handle = 0 /\ m'.token = 0 /\ m'.state = m.state
        /\ m'.rotation = m.rotation
    BY <1>1 DEF TypeOK, Meta
  <1>3. disk'.meta.handle = 0 /\ disk'.meta.state = "cold"
    BY <1>1 DEF initialMeta
  <1> QED
    BY <1>1, <1>2, <1>3 DEF Control, Emptied, Kept, Rotates

LEMMA DeletingControl ==
    ASSUME TypeOK, Control, Deleting
    PROVE  Forgotten \/ \E p \in Tasks : Leaving(p)
  <1> USE MemoryLike
  <1>0. /\ Kept(m, disk) /\ Written("rpc", disk) /\ "rpc" \in Tasks
    BY DEF Control, TypeOK, Disk, Tasks, Written
  <1>1. CASE Delete
    <2>1. CASE Await("rpc", Call("delete", m.handle), m, disk)
      BY <1>0, <1>1, <2>1, CallLeaving DEF Delete, Call
    <2> QED
      BY <1>1, <2>1 DEF Delete
  <1>2. CASE DeleteEnds
    <2>1. CASE Await("rpc", Idle, m, disk)
      BY <1>0, <1>2, <2>1, EndLeaving DEF DeleteEnds, End
    <2> QED
      BY <1>2, <2>1 DEF DeleteEnds
  <1> QED
    BY <1>1, <1>2 DEF Deleting

LEMMA RequestsLeaving ==
    ASSUME TypeOK, Control, Requests
    PROVE  \E p \in Tasks : Leaving(p)
  <1> USE MemoryLike
  <1>0. /\ Kept(m, disk) /\ m \in Meta /\ disk \in Disk /\ task \in [Tasks -> Local]
        /\ "recover" \in Tasks
    BY DEF Control, TypeOK, Disk, Tasks
  <1>1. ASSUME NEW r \in Runs, stopRun(r)
        PROVE  Leaving("recover")
    BY <1>1, StillLeaving DEF stopRun
  <1>2. ASSUME NEW rn, m' = armLiveness(m, rn), disk' = Armed(m'), task' = task
        PROVE  Leaving("recover")
    <2>1. Like(m')
      BY <1>2, ArmLivenessLike
    <2>2. Kept(m', disk') /\ disk'.alarm = (m'.armed # {})
      BY <1>2, <2>1, OwnKept DEF Like, Armed
    <2> QED
      BY <1>0, <1>2, <2>1, <2>2, SameLeaving
  <1>3. ASSUME NEW rn, wakeInBackground(m, Persisted(m, disk), task, rn)
        PROVE  \E p \in Tasks : Leaving(p)
    <2>1. Kept(m, Persisted(m, disk)) /\ (disk.alarm => Persisted(m, disk).alarm)
      BY <1>0, OwnKept DEF Kept, Persisted, Disk
    <2> QED
      BY <1>0, <1>3, <2>1, WakeInBackgroundLeaving
  <1> QED
    BY <1>0, <1>1, <1>2, <1>3 DEF Requests, enqueueRun

LEMMA MessagesLeaving ==
    ASSUME TypeOK, Control, Messages
    PROVE  \E p \in Tasks : Leaving(p)
  <1> USE MemoryLike
  <1>0. /\ Kept(m, disk) /\ m \in Meta /\ disk \in Disk
        /\ {"recover", "msg"} \subseteq Tasks
    BY DEF Control, TypeOK, Disk, Tasks
  <1>1. Like(Heard) /\ Kept(Heard, disk) /\ Heard \in Meta
    <2>1. Like(Heard)
      BY Bounds, FieldsLike DEF Heard
    <2> QED
      BY <1>0, <2>1 DEF Heard, Kept, Meta, Like
  <1>2. ASSUME Like(m'), disk' = Armed(m') \/ (disk' = Persisted(m', disk)), task' = task
        PROVE  Leaving("recover")
    <2>1. Kept(m', disk')
      BY <1>2, OwnKept DEF Like
    <2>2. CASE disk' = Armed(m')
      BY <1>0, <1>2, <2>1, <2>2, SameLeaving DEF Armed
    <2>3. CASE disk' = Persisted(m', disk)
      <3>1. disk'.alarm = disk.alarm
        BY <1>0, <2>3 DEF Persisted, Disk
      <3> QED
        BY <1>0, <1>2, <2>1, <3>1, SameLeaving
    <2> QED
      BY <1>2, <2>2, <2>3
  <1>3. ASSUME m' = Heard, UNCHANGED <<disk, task>>
        PROVE  Leaving("recover")
    BY <1>0, <1>1, <1>3, SameLeaving
  <1>4. ASSUME NEW i \in Instances, onHello(i)
        PROVE  Leaving("recover")
    <2> DEFINE x == [m EXCEPT !.lost = FALSE, !.strikes = 0, !.streak = 0, !.failures = 0]
    <2>1. /\ x \in Meta /\ x.state = m.state /\ x.handle = m.handle /\ x.token = m.token
          /\ x.armed = m.armed /\ x.rotation = m.rotation /\ x.coldPending = m.coldPending
      BY <1>0, Bounds DEF Meta
    <2>2. Like(armLiveness(x, run))
      BY <2>1, OtherFieldsLike, ArmLivenessLike
    <2> QED
      BY <1>2, <1>4, <2>2 DEF onHello
  <1>5. ASSUME NEW i \in Instances, SocketCloses(i)
        PROVE  Leaving("recover")
    <2>1. Like(Set([m EXCEPT !.lost = TRUE], {"liveness"}))
      BY Bounds, FieldsLike, ArmedLike DEF Deadlines
    <2>2. CASE UNCHANGED <<m, disk>>
      BY <1>5, <2>2, StillLeaving DEF SocketCloses
    <2> QED
      BY <1>2, <1>5, <2>1, <2>2 DEF SocketCloses
  <1>6. ASSUME NEW i \in Instances, onHeadAdvance(i)
        PROVE  Leaving("recover")
    <2> DEFINE x == [Heard EXCEPT !.head = inst[i].epoch]
    <2>0. inst[i].epoch \in Epochs
      BY DEF TypeOK, Instance
    <2>1. /\ x \in Meta /\ x.state = Heard.state /\ x.handle = Heard.handle
          /\ x.token = Heard.token /\ x.armed = Heard.armed
          /\ x.rotation = Heard.rotation /\ x.coldPending = Heard.coldPending
      BY <1>1, <2>0 DEF Meta
    <2>2. Like(x)
      BY <1>1, <2>1, OtherFieldsLike
    <2> QED
      BY <1>2, <1>3, <1>6, <2>2 DEF onHeadAdvance
  <1>7. ASSUME NEW i \in Instances, onHeartbeat(i)
        PROVE  Leaving("recover")
    <2>1. Like(touch(Heard, run))
      BY <1>1, TouchLike
    <2> QED
      BY <1>2, <1>3, <1>7, <2>1 DEF onHeartbeat, Touched
  <1>8. ASSUME NEW i \in Instances, SupervisorFinal(i)
        PROVE  \E p \in Tasks : Leaving(p)
    <2>1. CASE task["msg"].pc = "idle" /\ finalizeCold("msg", Heard, disk, TRUE)
      BY <1>0, <1>1, <2>1, FinalizeColdLeaving DEF Written
    <2> QED
      BY <1>0, <1>3, <1>8, <2>1 DEF SupervisorFinal
  <1>9. ASSUME NEW i \in Instances, NEW r \in Runs,
               onJournalFrame(i, r) \/ onRunStarted(i, r) \/ onRunCompleted(i, r)
        PROVE  Leaving("recover")
    BY <1>3, <1>9 DEF onJournalFrame, onRunStarted, onRunCompleted, Reports
  <1> QED
    BY <1>0, <1>4, <1>5, <1>6, <1>7, <1>8, <1>9 DEF Messages

LEMMA SubstrateLeaving ==
    ASSUME TypeOK, Control, Substrate
    PROVE  Leaving("recover")
  <1>1. UNCHANGED <<m, disk>>
    BY DEF Substrate, SubstrateCreates, SubstrateActs
  <1>2. \A p \in Tasks : task'[p].pc = task[p].pc
    <2>1. CASE SubstrateCreates
      BY <2>1 DEF SubstrateCreates, TypeOK, Local, Tasks
    <2>2. ASSUME NEW q \in Tasks, SubstrateActs(q)
          PROVE  \A p \in Tasks : task'[p].pc = task[p].pc
      BY <2>2 DEF SubstrateActs, TypeOK, Local
    <2> QED
      BY <2>1, <2>2 DEF Substrate
  <1> QED
    BY <1>1, <1>2, StillLeaving DEF Tasks

(* A restart loses what the object awaited; the constructor gives a        *)
(* computer found WAKING its watchdog back.                                *)
LEMMA CrashControl ==
    ASSUME TypeOK, Control, Crash
    PROVE  Control' /\ Rotates
  <1>1. /\ m' = Revived /\ disk'.meta = m' /\ "crash" \in Faults
        /\ Revived.state = "waking" => disk'.alarm
        /\ \A p \in Tasks : task'[p].pc = "idle"
    BY IdleType DEF Crash, Fault
  <1>2. /\ Revived.state = disk.meta.state /\ Revived.handle = disk.meta.handle
        /\ Revived.coldPending = disk.meta.coldPending
        /\ Revived.rotation = disk.meta.rotation
        /\ Revived.state = "waking" => "waking" \in Revived.armed
    BY DEF Revived, Set, TypeOK, Meta
  <1>3. Awaited(m', disk', task')
    BY <1>1, <1>2 DEF Awaited, Tasks
  <1>4. Kept(m', disk') /\ Rotates
    BY <1>1, <1>2 DEF Kept, Control, Rotates
  <1> QED
    BY <1>1, <1>3, <1>4 DEF Control, Awaited, Kept

LEMMA EnvironmentControl ==
    ASSUME TypeOK, Control, Environment
    PROVE  Crash \/ Leaving("recover")
  <1>1. CASE UNCHANGED <<m, disk, task>>
    BY <1>1, StillLeaving
  <1> QED
    BY <1>1 DEF Environment, Evict, Drop

LEMMA NextControl ==
    ASSUME TypeOK, TypeOK', Control, [Next]_vars
    PROVE  Control' /\ Rotates
  <1>1. deleted => deleted'
    BY NextStep DEF Rest, vars
  <1>2. ASSUME \E p \in Tasks : Leaving(p)
        PROVE  Control' /\ Rotates
    BY <1>1, <1>2, LeavingControl
  <1>3. "recover" \in Tasks
    BY DEF Tasks
  <1>4. CASE Supervisor \/ UNCHANGED vars
    <2>1. UNCHANGED <<m, disk, task>>
      BY <1>4 DEF Supervisor, SupervisorExits, SupervisorStarts, SupervisorContinues, vars
    <2> QED
      BY <1>2, <1>3, <2>1, StillLeaving
  <1>5. CASE Deleting
    BY <1>2, <1>5, DeletingControl, ForgottenControl
  <1>6. CASE Environment
    BY <1>2, <1>3, <1>6, EnvironmentControl, CrashControl
  <1>7. CASE Substrate
    BY <1>2, <1>3, <1>7, SubstrateLeaving
  <1> QED
    BY <1>2, <1>4, <1>5, <1>6, <1>7, WakingLeaving, RecoveringLeaving, AlarmsLeaving,
       CheckingLeaving, SleepingLeaving, RequestsLeaving, MessagesLeaving DEF Next

LEMMA ControlAlways == Spec => []Control
  <1>1. Init => Control
    BY DEF Init, Control, Awaited, Emptied, Kept, initialMeta
  <1>2. TypeOK /\ TypeOK' /\ Control /\ [Next]_vars => Control'
    BY NextControl
  <1> QED
    BY <1>1, <1>2, TypeCorrect, PTL DEF Spec

(* Until the computer is deleted, one that reads WAKING has a wake in      *)
(* flight in this object's memory, or the watchdog's alarm, wherever the   *)
(* substrate refuses and the object is restarted.                          *)
THEOREM WakingIsWatchedAlways == Spec => []WakingIsWatched
  <1>1. TypeOK /\ Control => WakingIsWatched
    BY DEF Control, Awaited, InHand, WakingIsWatched, Watched, Handling
  <1> QED
    BY <1>1, TypeCorrect, ControlAlways, PTL

(* While the object is not restarted, COLD at rest means that no resource  *)
(* and no token is left, however COLD was reached.                         *)
THEOREM ColdIsEmptyAlways ==
    ASSUME "crash" \notin Faults
    PROVE  Spec => []ColdIsEmpty
  <1>1. TypeOK /\ Control => ColdIsEmpty
    BY DEF Control, Emptied, ColdIsEmpty, Quiet, Tasks
  <1> QED
    BY <1>1, TypeCorrect, ControlAlways, PTL

(* A rotation that has begun ends with its generation: no message, no      *)
(* deadline and no restart calls the handshake off.                        *)
THEOREM RotationStandsEver == Spec => RotationStands
  <1>1. TypeOK /\ TypeOK' /\ Control /\ [Next]_vars =>
          [m.rotation /\ m.coldPending /\ ~m'.coldPending =>
             \/ m'.state # m.state \/ m'.handle = 0
             \/ \E p \in Tasks : task'[p].pc = "destroy"]_vars
    BY NextControl DEF Rotates
  <1> QED
    BY <1>1, TypeCorrect, ControlAlways, PTL DEF Spec, RotationStands

-----------------------------------------------------------------------------
(* What a memory waits for without a deadline.                             *)

Owes(name, x) ==
    \/ name = "liveness" /\ x.state = "awake" /\ x.lost
    \/ name = "tier" /\ x.state = "awake" /\ ~x.coldPending
    \/ name = "cold" /\ x.state # "cold" /\ x.coldPending

Owed(x) == {name \in {"liveness", "tier", "cold"} : Owes(name, x) /\ name \notin x.armed}

(* The alarm's handler is at work on what it had a deadline for.           *)
Serves(pc, name) ==
    \/ name = "liveness" /\ pc = "probe"
    \/ name = "tier" /\ pc \in {"sleep", "sleepProbe", "resumeCold"}

(* Without a restart WAKING is a wake in hand, nothing but a wake tears an *)
(* instance down, and what is armed has an alarm.                          *)
Attended ==
    /\ m.state = "waking" => task["wake"].pc \in InHand /\ ~m.rotation
    /\ task["alarm"].pc # "tear"
    /\ task["wake"].pc = "tear" => m.state \notin {"awake", "waking"}
    /\ task["recover"].pc \in {"idle", "destroy", "settled"}
    /\ ~deleted => disk.alarm \/ Handling \/ m.armed = {}

(* What operation p may leave behind when it stops at pc, with memory x    *)
(* and storage d; `ends' if the generation is being ended or an older      *)
(* recovery was joined.                                                    *)
Sounds(p, pc, x, d) ==
    \/ d.alarm = (x.armed # {})
    \/ p # "alarm" /\ (disk.alarm => d.alarm) /\ x.armed \subseteq m.armed
    \/ p = "alarm" /\ pc # "idle"

Meets(p, pc, ends, x) ==
    \A name \in Owed(x) :
        \/ ends /\ name # "cold"
        \/ p = "alarm" /\ Serves(pc, name)
        \/ name = "cold" /\ m.state = "cold"
        \/ name \in Owed(m) /\ (p = "alarm" => ~Serves(task["alarm"].pc, name))

Attends(p, pc, ends, x, d) ==
    /\ x.state = "waking" =>
         ~x.rotation /\ (IF p = "wake" THEN pc \in InHand ELSE m.state = "waking")
    /\ x.state = "awake" => p = "wake" \/ m.state = "awake"
    /\ p = "wake" /\ pc = "tear" => x.state \notin {"awake", "waking"}
    /\ p = "alarm" => pc # "tear"
    /\ Sounds(p, pc, x, d)
    /\ Meets(p, pc, ends, x)

Attending(p) ==
    /\ \A q \in {"wake", "alarm"} \ {p} : task'[q].pc = task[q].pc
    /\ \A q \in Tasks : task[q].pc = "destroy" =>
                          task'[q].pc = "destroy" \/ m'.state = "cold"
    /\ task'["recover"].pc \in {task["recover"].pc, "idle", "destroy", "settled"}
    /\ Attends(p, task'[p].pc, Ending' \/ JoinsOlder, m', disk')

Watches ==
    /\ LossIsWatched => LossIsWatched' \/ JoinsOlder
    /\ AwakeIsWatched => AwakeIsWatched' \/ JoinsOlder
    /\ HandshakeIsWatched /\ m.state # "cold" => HandshakeIsWatched'

LEMMA AttendingAttended ==
    ASSUME TypeOK, TypeOK', Attended, deleted => deleted', NEW p \in Tasks, Attending(p)
    PROVE  Attended'
  <1>1. m'.state = "waking" => task'["wake"].pc \in InHand /\ ~m'.rotation
    BY DEF Attending, Attends, Attended
  <1>2. task'["alarm"].pc # "tear"
    BY DEF Attending, Attends, Attended
  <1>3. task'["wake"].pc = "tear" => m'.state \notin {"awake", "waking"}
    BY DEF Attending, Attends, Attended
  <1>4. ~deleted' => disk'.alarm \/ Handling' \/ m'.armed = {}
    BY DEF Attending, Attends, Attended, Sounds, Handling
  <1> QED
    BY <1>1, <1>2, <1>3, <1>4 DEF Attended, Attending

LEMMA AttendingWatches ==
    ASSUME TypeOK, TypeOK', Attended, Attended', deleted => deleted',
           NEW p \in Tasks, Attending(p)
    PROVE  Watches
  <1>0. /\ Ending => Ending' \/ m'.state = "cold"
        /\ p # "alarm" => task'["alarm"].pc = task["alarm"].pc
        /\ Attends(p, task'[p].pc, Ending' \/ JoinsOlder, m', disk')
        /\ \A name \in m'.armed : ~deleted' => Coming(name)'
    BY DEF Attending, Ending, Attended, Coming
  <1>1. ASSUME NEW name \in {"liveness", "tier"}, name \in Owed(m'),
               name \in Owed(m) => Serves(task["alarm"].pc, name) \/ Ending
        PROVE  Serves(task'["alarm"].pc, name) \/ Ending' \/ JoinsOlder
    <2>1. m'.state # "cold"
      BY <1>1 DEF Owed, Owes
    <2> QED
      BY <1>0, <1>1, <2>1 DEF Attends, Meets
  <1>2. LossIsWatched => LossIsWatched' \/ JoinsOlder
    <2> SUFFICES ASSUME LossIsWatched, m'.state = "awake", ~deleted', m'.lost,
                        "liveness" \notin m'.armed
                 PROVE  task'["alarm"].pc = "probe" \/ Ending' \/ JoinsOlder
      BY <1>0 DEF LossIsWatched
    <2>1. "liveness" \in Owed(m')
      BY DEF Owed, Owes
    <2>2. "liveness" \in Owed(m) => task["alarm"].pc = "probe" \/ Ending
      BY DEF LossIsWatched, Owed, Owes, Coming
    <2> QED
      BY <1>1, <2>1, <2>2 DEF Serves
  <1>3. AwakeIsWatched => AwakeIsWatched' \/ JoinsOlder
    <2> SUFFICES ASSUME AwakeIsWatched, m'.state = "awake", ~deleted', ~m'.coldPending,
                        "tier" \notin m'.armed
                 PROVE  \/ task'["alarm"].pc \in {"sleep", "sleepProbe", "resumeCold"}
                        \/ Ending' \/ JoinsOlder
      BY <1>0 DEF AwakeIsWatched
    <2>1. "tier" \in Owed(m')
      BY DEF Owed, Owes
    <2>2. "tier" \in Owed(m) =>
            task["alarm"].pc \in {"sleep", "sleepProbe", "resumeCold"} \/ Ending
      BY DEF AwakeIsWatched, Owed, Owes, Coming
    <2> QED
      BY <1>1, <2>1, <2>2 DEF Serves
  <1>4. HandshakeIsWatched /\ m.state # "cold" => HandshakeIsWatched'
    <2> SUFFICES ASSUME HandshakeIsWatched, m.state # "cold", m'.state # "cold",
                        ~deleted', m'.coldPending, "cold" \notin m'.armed
                 PROVE  FALSE
      BY <1>0 DEF HandshakeIsWatched
    <2>1. "cold" \in Owed(m')
      BY DEF Owed, Owes
    <2>2. "cold" \notin Owed(m)
      BY DEF HandshakeIsWatched, Owed, Owes, Coming
    <2> QED
      BY <1>0, <2>1, <2>2 DEF Attends, Meets, Serves
  <1> QED
    BY <1>2, <1>3, <1>4 DEF Watches

LEMMA AwaitAttending ==
    ASSUME TypeOK, NEW p \in Tasks, p # "recover", NEW c, NEW x, NEW d,
           Await(p, c, x, d), task[p].pc = "destroy" => x.state = "cold",
           Attends(p, c.pc, c.pc = "destroy", x, d)
    PROVE  Attending(p)
  <1>1. task' = [task EXCEPT ![p] = c] /\ m' = x /\ disk' = d /\ task'[p] = c
    BY DEF Await, TypeOK
  <1>2. c.pc = "destroy" => Ending'
    BY <1>1 DEF Ending
  <1>3. Attends(p, c.pc, Ending' \/ JoinsOlder, x, d)
    BY <1>2 DEF Attends, Meets
  <1> QED
    BY <1>1, <1>3 DEF Attending, TypeOK, Tasks

-----------------------------------------------------------------------------
(* Memories.                                                               *)

(* Nothing but deadlines and what they are about has changed.              *)
Alike(x) ==
    /\ x \in Meta /\ x.state = m.state
    /\ x.state = "waking" => ~x.rotation

LEMMA SetOwed ==
    ASSUME NEW x, Alike(x), NEW S \in SUBSET Deadlines
    PROVE  /\ Alike(Set(x, S)) /\ Owed(Set(x, S)) = Owed(x) \ S
           /\ Alike(Clear(x, S)) /\ Owed(Clear(x, S)) \subseteq Owed(x) \cup S
           /\ Clear(x, S).armed \subseteq x.armed
  BY DEF Alike, Set, Clear, Meta, Owed, Owes

LEMMA ArmLivenessOwed ==
    ASSUME NEW x, Alike(x), NEW rn
    PROVE  /\ Alike(armLiveness(x, rn))
           /\ Owed(armLiveness(x, rn)) \subseteq Owed(x) \ {"liveness"}
  <1>1. CASE x.state = "awake" /\ (x.lost \/ pendingWork(rn))
    BY <1>1, SetOwed DEF armLiveness, Deadlines
  <1>2. CASE ~(x.state = "awake" /\ (x.lost \/ pendingWork(rn)))
    <2>1. armLiveness(x, rn) = Clear(x, {"liveness"})
      BY <1>2 DEF armLiveness
    <2>2. "liveness" \notin Owed(Clear(x, {"liveness"}))
      BY <1>2 DEF Clear, Owed, Owes, Alike, Meta
    <2> QED
      BY <2>1, <2>2, SetOwed DEF Deadlines, Owed
  <1> QED
    BY <1>1, <1>2

LEMMA StaleOwed ==
    ASSUME NEW x, Alike(x), NEW b \in BOOLEAN
    PROVE  Alike([x EXCEPT !.stale = b]) /\ Owed([x EXCEPT !.stale = b]) = Owed(x)
  BY DEF Alike, Meta, Owed, Owes

LEMMA StrikesOwed ==
    ASSUME NEW x, Alike(x), NEW n \in 0..MaxStrikes
    PROVE  Alike([x EXCEPT !.strikes = n]) /\ Owed([x EXCEPT !.strikes = n]) = Owed(x)
  BY DEF Alike, Meta, Owed, Owes

LEMMA FoundOwed ==
    ASSUME NEW x, Alike(x)
    PROVE  /\ Alike([x EXCEPT !.lost = FALSE])
           /\ Owed([x EXCEPT !.lost = FALSE]) = Owed(x) \ {"liveness"}
  BY DEF Alike, Meta, Owed, Owes

LEMMA PendingOwed ==
    ASSUME NEW x, Alike(x)
    PROVE  /\ Alike([x EXCEPT !.coldPending = FALSE])
           /\ Owed([x EXCEPT !.coldPending = FALSE]) \subseteq (Owed(x) \ {"cold"}) \cup {"tier"}
           /\ Alike([x EXCEPT !.coldPending = TRUE])
           /\ Owed([x EXCEPT !.coldPending = TRUE]) \subseteq (Owed(x) \ {"tier"}) \cup {"cold"}
  BY DEF Alike, Meta, Owed, Owes

LEMMA ArmTierOwed ==
    ASSUME NEW x, Alike(x), NEW rn
    PROVE  /\ Alike(armTier(x, rn))
           /\ Owed(armTier(x, rn)) \subseteq Owed(x) \ {"liveness", "tier"}
  <1>1. /\ Alike([x EXCEPT !.stale = FALSE])
        /\ Owed([x EXCEPT !.stale = FALSE]) = Owed(x)
    BY StaleOwed
  <1>2. /\ Alike(Set([x EXCEPT !.stale = FALSE], {"tier"}))
        /\ Owed(Set([x EXCEPT !.stale = FALSE], {"tier"})) = Owed(x) \ {"tier"}
    BY <1>1, SetOwed DEF Deadlines
  <1> QED
    BY <1>2, ArmLivenessOwed DEF armTier

LEMMA TouchOwed ==
    ASSUME NEW x, Alike(x), NEW rn
    PROVE  /\ Alike(touch(x, rn))
           /\ Owed(touch(x, rn)) \subseteq Owed(x) \ {"liveness", "tier"}
           /\ x.state # "awake" => touch(x, rn).armed = x.armed
  <1>1. CASE x.state # "awake"
    <2>1. touch(x, rn) = [x EXCEPT !.stale = TRUE]
      BY <1>1 DEF touch
    <2>2. "liveness" \notin Owed(x) /\ "tier" \notin Owed(x)
      BY <1>1 DEF Owed, Owes
    <2>3. touch(x, rn).armed = x.armed
      BY <2>1 DEF Alike, Meta
    <2>4. Alike(touch(x, rn)) /\ Owed(touch(x, rn)) = Owed(x)
      BY <2>1, StaleOwed
    <2>5. Owed(touch(x, rn)) \subseteq Owed(x) \ {"liveness", "tier"}
      BY <2>2, <2>4
    <2> QED
      BY <2>3, <2>4, <2>5
  <1>2. CASE x.state = "awake"
    <2> DEFINE c == [x EXCEPT !.coldPending = FALSE]
               y == IF x.rotation THEN x ELSE Clear(c, {"cold"})
    <2>0. ~c.coldPending
      BY DEF Alike, Meta
    <2>1. Alike(c) /\ Owed(c) \subseteq (Owed(x) \ {"cold"}) \cup {"tier"} /\ ~c.coldPending
      BY <2>0, PendingOwed
    <2>2. Alike(Clear(c, {"cold"})) /\ "cold" \notin Owed(Clear(c, {"cold"}))
      BY <2>1, SetOwed DEF Clear, Owed, Owes, Alike, Meta, Deadlines
    <2>3. Alike(y) /\ Owed(y) \subseteq Owed(x) \cup {"tier"}
      BY <2>1, <2>2, SetOwed DEF Deadlines
    <2>4. touch(x, rn) = armTier(y, rn)
      BY <1>2 DEF touch
    <2> HIDE DEF y
    <2> QED
      BY <1>2, <2>3, <2>4, ArmTierOwed
  <1> QED
    BY <1>1, <1>2

LEMMA MemoryAlike ==
    ASSUME TypeOK, Attended
    PROVE  Alike(m)
  BY DEF Alike, Attended, TypeOK

LEMMA FiredOwed ==
    ASSUME TypeOK, Attended, NEW name \in Deadlines
    PROVE  /\ Alike(Fired(name)) /\ Owed(Fired(name)) \subseteq Owed(m) \cup {name}
           /\ FiredDisk(name) \in Disk
  <1>1. Alike(Fired(name)) /\ Owed(Fired(name)) \subseteq Owed(m) \cup {name}
    BY MemoryAlike, SetOwed DEF Fired
  <1> QED
    BY <1>1 DEF FiredDisk, Disk, Alike

(* One that is not AWAKE waits for nothing but its handshake.              *)
LEMMA RestedMeets ==
    ASSUME NEW p, NEW pc, NEW ends, NEW x, x.state # "awake", x.coldPending => m.coldPending,
           "cold" \in m.armed => "cold" \in x.armed
    PROVE  Meets(p, pc, ends, x)
  BY DEF Meets, Owed, Owes, Serves

LEMMA EndedOwed ==
    ASSUME NEW p, NEW pc, NEW ends, NEW x, x.state = "cold"
    PROVE  Meets(p, pc, ends, x)
  BY DEF Meets, Owed, Owes

-----------------------------------------------------------------------------
(* Pieces of handlers.                                                     *)

(* Storage an operation may have left so far, if it armed nothing since.   *)
Noted(p, x, d) == Written(p, d) /\ (p # "alarm" => x.armed \subseteq m.armed)

(* What p waits for it waited for before, and was not serving.             *)
Waits(p, name) == name \in Owed(m) /\ (p = "alarm" => ~Serves(task["alarm"].pc, name))

LEMMA AlikeAttends ==
    ASSUME NEW p, NEW pc, NEW ends, NEW x, NEW d, Alike(x), Meets(p, pc, ends, x),
           Sounds(p, pc, x, d), pc # "tear",
           p = "wake" => x.state # "waking" \/ pc \in InHand
    PROVE  Attends(p, pc, ends, x, d)
  BY DEF Alike, Attends

LEMMA EndAttending ==
    ASSUME TypeOK, NEW p \in Tasks, p # "recover", NEW x, NEW d, Alike(x),
           \A name \in Owed(x) : Waits(p, name), p \in {"alarm", "health"} \/ Noted(p, x, d),
           task[p].pc # "destroy", p = "wake" => x.state # "waking",
           End(p, x, d)
    PROVE  Attending(p)
  <1> DEFINE e == IF p \in {"alarm", "health"} THEN Armed(x) ELSE d
  <1>1. Sounds(p, "idle", x, e)
    BY DEF Sounds, Armed, Noted, Written
  <1>2. Meets(p, "idle", FALSE, x)
    BY DEF Meets, Waits
  <1>3. Attends(p, "idle", FALSE, x, e)
    BY <1>1, <1>2, AlikeAttends
  <1>4. Await(p, Idle, x, e)
    BY DEF End
  <1> HIDE DEF e
  <1> QED
    BY <1>3, <1>4, IdleType, AwaitAttending

(* A call the operation waits for, other than one that tears down.         *)
LEMMA CallAttending ==
    ASSUME TypeOK, NEW p \in Tasks, p \notin {"wake", "recover"}, NEW x, NEW d, NEW c,
           Alike(x), \A name \in Owed(x) : Waits(p, name) \/ (p = "alarm" /\ Serves(c.pc, name)),
           Noted(p, x, d), task[p].pc # "destroy",
           c.pc \notin {"tear", "idle", "destroy"}, Await(p, c, x, d)
    PROVE  Attending(p)
  <1>1. Sounds(p, c.pc, x, d)
    BY DEF Sounds, Noted, Written
  <1>2. Meets(p, c.pc, FALSE, x)
    BY DEF Meets, Waits
  <1>3. Attends(p, c.pc, FALSE, x, d)
    BY <1>1, <1>2, AlikeAttends
  <1> QED
    BY <1>3, AwaitAttending

(* The suspended operations as a recovery that ends has left them.         *)
Others(tk) ==
    /\ tk \in [Tasks -> Local]
    /\ \A q \in Tasks \ {"recover"} : tk[q] = task[q]
    /\ tk["recover"] = task["recover"] \/ (tk["recover"].pc = "idle"
                                           /\ task["recover"].pc # "destroy")

LEMMA BeginWakeAttending ==
    ASSUME TypeOK, NEW x \in Meta, NEW tk, Others(tk), task["wake"].pc # "destroy",
           BeginWake(x, tk)
    PROVE  Attending("wake")
  <1>1. Minted(x) \in Gen(x.epoch + 1, x.head)
    BY MintedGen DEF BeginWake, Gen
  <1>2. Minted(x).state = "waking" /\ ~Minted(x).rotation /\ ~Minted(x).coldPending
    BY <1>1 DEF Minted, Set, Meta
  <1>3. /\ task'["wake"].pc \in InHand \ {"tear"}
        /\ \A q \in Tasks \ {"wake", "recover"} : task'[q] = task[q]
        /\ task'["recover"] = tk["recover"]
    BY DEF BeginWake, Call, InHand, Tasks, Others
  <1>4. Sounds("wake", task'["wake"].pc, m', disk')
    BY DEF BeginWake, Sounds, Armed
  <1>5. Owed(Minted(x)) = {}
    BY <1>2 DEF Owed, Owes
  <1>6. Attends("wake", task'["wake"].pc, Ending' \/ JoinsOlder, m', disk')
    BY <1>2, <1>3, <1>4, <1>5 DEF BeginWake, Attends, Meets
  <1> QED
    BY <1>3, <1>6 DEF Attending, Others, Tasks

(* An operation that goes on with what it found.                           *)
LEMMA SameAttending ==
    ASSUME TypeOK, Alike(m'), Owed(m') \subseteq Owed(m),
           disk'.alarm = (m'.armed # {}) \/
               ((disk.alarm => disk'.alarm) /\ m'.armed \subseteq m.armed),
           \A q \in Tasks \ {"recover"} : task'[q].pc = task[q].pc,
           task'["recover"].pc = task["recover"].pc \/
               (task["recover"].pc # "destroy" /\ task'["recover"].pc = "idle")
    PROVE  Attending("recover")
  <1>1. Meets("recover", task'["recover"].pc, Ending' \/ JoinsOlder, m')
    BY DEF Meets
  <1>2. Sounds("recover", task'["recover"].pc, m', disk')
    BY DEF Sounds
  <1>3. Attends("recover", task'["recover"].pc, Ending' \/ JoinsOlder, m', disk')
    BY <1>1, <1>2 DEF Attends, Alike
  <1> QED
    BY <1>3 DEF Attending, Tasks

LEMMA WakeInnerAttending ==
    ASSUME TypeOK, NEW x, Alike(x), Owed(x) \subseteq Owed(m), x.armed \subseteq m.armed,
           NEW d \in Disk, disk.alarm => d.alarm, NEW rn, NEW tk, Others(tk),
           task["wake"].pc # "destroy", wakeInner(x, d, tk, rn)
    PROVE  \E p \in Tasks : Attending(p)
  <1>0. x \in Meta /\ {"wake", "recover"} \subseteq Tasks
    BY DEF Alike, Tasks
  <1>1. CASE /\ x.state = "awake" /\ m' = touch(x, rn)
             /\ disk' = Touched(touch(x, rn), d) /\ task' = tk
    <2>1. Alike(m') /\ Owed(m') \subseteq Owed(m) /\ m'.state = "awake"
      BY <1>1, TouchOwed DEF Alike
    <2>2. disk' = Armed(m')
      BY <1>1, <2>1 DEF Touched
    <2> QED
      BY <1>0, <1>1, <2>1, <2>2, SameAttending DEF Armed, Others
  <1>2. CASE /\ x.state = "awake" /\ m' = x /\ disk' = d
             /\ task' = [tk EXCEPT !["wake"] = Call("verify", x.handle)]
    <2>1. /\ task'["wake"].pc = "verify"
          /\ \A q \in Tasks \ {"wake"} : task'[q] = tk[q]
      BY <1>2 DEF Call, Tasks, Others
    <2>2. Sounds("wake", "verify", m', disk') /\ Meets("wake", "verify", Ending' \/ JoinsOlder, m')
      BY <1>2 DEF Sounds, Meets
    <2>3. Attends("wake", "verify", Ending' \/ JoinsOlder, m', disk')
      BY <1>2, <2>2, AlikeAttends
    <2> QED
      BY <1>0, <2>1, <2>3 DEF Attending, Others, Tasks
  <1>3. CASE BeginWake(x, tk)
    BY <1>0, <1>3, BeginWakeAttending
  <1> QED
    BY <1>1, <1>2, <1>3 DEF wakeInner

LEMMA WakeInBackgroundAttending ==
    ASSUME TypeOK, NEW x, Alike(x), Owed(x) \subseteq Owed(m), x.armed \subseteq m.armed,
           NEW d \in Disk, disk.alarm => d.alarm, NEW rn, NEW tk, Others(tk),
           wakeInBackground(x, d, tk, rn)
    PROVE  \E p \in Tasks : Attending(p)
  <1>1. CASE m' = x /\ disk' = d /\ task' = tk
    <2>1. Attending("recover")
      BY <1>1, SameAttending DEF Others
    <2> QED
      BY <2>1 DEF Tasks
  <1>2. CASE tk["wake"].pc = "idle" /\ wakeInner(x, d, tk, rn)
    <2>1. task["wake"].pc # "destroy"
      BY <1>2 DEF Others, Tasks
    <2> QED
      BY <1>2, <2>1, WakeInnerAttending
  <1> QED
    BY <1>1, <1>2 DEF wakeInBackground

LEMMA FailWakeEndAttending ==
    ASSUME TypeOK, NEW x \in Meta, NEW resumable \in BOOLEAN,
           x.state \notin {"awake", "waking"}, x.coldPending = m.coldPending,
           x.armed = m.armed, task["wake"].pc # "destroy",
           failWakeEnd("wake", x, resumable)
    PROVE  Attending("wake")
  <1> DEFINE y == FailedWake(x, resumable, pendingWork(run))
  <1>1. /\ y \in Meta /\ y.state = x.state /\ y.rotation = x.rotation
        /\ y.coldPending = x.coldPending
    BY FailedWakeFields
  <1>2. "cold" \in x.armed => "cold" \in y.armed
    <2> DEFINE n == Capped(x.failures + 1, WakeRetries + 1)
               u == Clear([x EXCEPT !.failures = n],
                          {"waking", "liveness", "credential", "wakeRetry"})
               v == IF n <= WakeRetries /\ pendingWork(run) THEN Set(u, {"wakeRetry"}) ELSE u
    <2>1. u.armed = x.armed \ {"waking", "liveness", "credential", "wakeRetry"}
      BY DEF Clear, Meta
    <2>2. u.armed \subseteq v.armed
      BY DEF Set, Clear, Meta
    <2>3. v.armed \subseteq y.armed
      BY DEF Set, Clear, Meta, FailedWake
    <2> QED
      BY <2>1, <2>2, <2>3
  <1>3. Await("wake", Call("sync", 0), y, Armed(y))
    BY DEF failWakeEnd
  <1> HIDE DEF y
  <1>4. Meets("wake", "sync", FALSE, y) /\ Sounds("wake", "sync", y, Armed(y))
    BY <1>1, <1>2, RestedMeets DEF Sounds, Armed
  <1>5. Attends("wake", "sync", FALSE, y, Armed(y))
    BY <1>1, <1>4 DEF Attends
  <1>6. Call("sync", 0).pc = "sync" /\ "wake" \in Tasks
    BY DEF Call, Tasks
  <1> QED
    BY <1>3, <1>5, <1>6, AwaitAttending

LEMMA FailWakeAttending ==
    ASSUME TypeOK, NEW resumable \in BOOLEAN, task["wake"].pc # "destroy",
           failWake("wake", m, resumable, disk)
    PROVE  Attending("wake")
  <1> DEFINE y == [m EXCEPT !.state = IF resumable THEN "warm" ELSE "cold"]
  <1>1. /\ y \in Meta /\ y.state = (IF resumable THEN "warm" ELSE "cold")
        /\ y.coldPending = m.coldPending /\ y.armed = m.armed
    BY DEF TypeOK, Meta
  <1>2. CASE failWakeEnd("wake", y, resumable)
    <2> HIDE DEF y
    <2> QED
      BY <1>1, <1>2, FailWakeEndAttending
  <1>3. CASE ~resumable /\ Await("wake", Call("tear", m.handle), y, disk)
    <2> HIDE DEF y
    <2>1. Meets("wake", "tear", FALSE, y) /\ Sounds("wake", "tear", y, disk)
      BY <1>1, RestedMeets DEF Sounds
    <2>2. Attends("wake", "tear", FALSE, y, disk)
      BY <1>1, <1>3, <2>1 DEF Attends
    <2>3. Call("tear", m.handle).pc = "tear" /\ "wake" \in Tasks
      BY DEF Call, Tasks
    <2> QED
      BY <1>3, <2>2, <2>3, AwaitAttending
  <1>4. y.handle = m.handle
    BY DEF TypeOK, Meta
  <1> QED
    BY <1>2, <1>3, <1>4 DEF failWake

LEMMA RecoverSettlesAttending ==
    ASSUME TypeOK, NEW p \in Tasks, NEW x \in Meta, NEW d \in Disk,
           NEW tk \in [Tasks -> Local],
           \A q \in Tasks \ {p, "recover"} : tk[q].pc = task[q].pc,
           p # "recover" => task[p].pc # "destroy",
           p = "alarm" => tk[p].pc \notin {"idle", "tear"},
           Noted(p, x, d),
           RecoverSettles(x, d, tk)
    PROVE  Attending(p)
  <1>1. /\ m' = Recovered(x) /\ disk' = Persisted(m', d)
        /\ task' = [tk EXCEPT !["recover"].pc = "settled"]
    BY DEF RecoverSettles
  <1>2. m' \in Meta /\ m'.state = "cold" /\ m'.armed \subseteq x.armed
    <2>1. Recovered(x).armed \subseteq x.armed
      BY DEF Recovered, Clear, Meta
    <2> QED
      BY <1>1, <2>1, RecoveredFields
  <1>3. /\ \A q \in Tasks \ {p, "recover"} : task'[q].pc = task[q].pc
        /\ task'["recover"].pc = "settled"
        /\ p = "alarm" => task'[p].pc = tk[p].pc
    BY <1>1 DEF Tasks, Local
  <1>4. Sounds(p, task'[p].pc, m', disk')
    BY <1>1, <1>2, <1>3 DEF Sounds, Noted, Written, Persisted, Disk
  <1>5. Attends(p, task'[p].pc, Ending' \/ JoinsOlder, m', disk')
    BY <1>2, <1>3, <1>4, EndedOwed DEF Attends
  <1> QED
    BY <1>2, <1>3, <1>5 DEF Attending, Tasks

LEMMA RecoverAttending ==
    ASSUME TypeOK, Attended, NEW p \in {"wake", "alarm", "health", "rpc"}, NEW x, NEW d,
           NEW rewake \in BOOLEAN, Alike(x),
           \A name \in Owed(x) : Waits(p, name) \/ (p = "alarm" /\ name # "cold"),
           Noted(p, x, d), task[p].pc # "destroy", recover(p, x, d, rewake)
    PROVE  Attending(p)
  <1> DEFINE tk == [task EXCEPT ![p] = Call("join", 0)]
             c  == [Call("destroy", x.handle) EXCEPT !.rewake = rewake,
                                                     !.work = pendingWork(run)]
             tc == [tk EXCEPT !["recover"] = c]
  <1>0. /\ x \in Meta /\ d \in Disk /\ p \in Tasks /\ p # "recover" /\ "recover" \in Tasks
        /\ Call("join", 0) \in Local /\ Call("join", 0).pc = "join"
    BY CallType, Bounds DEF Pcs, Alike, Noted, Written, Tasks
  <1>1. c \in Local /\ c.pc = "destroy"
    <2>1. Call("destroy", x.handle) \in Local
      BY <1>0, CallType DEF Meta, Pcs
    <2>2. c.pc = "destroy"
      BY DEF Call
    <2> QED
      BY <2>1, <2>2, ReadsType DEF pendingWork
  <1>2. /\ tk \in [Tasks -> Local] /\ tc \in [Tasks -> Local]
        /\ tk[p].pc = "join" /\ tc[p].pc = "join" /\ tc["recover"].pc = "destroy"
        /\ tk["recover"] = task["recover"]
        /\ \A q \in Tasks \ {p, "recover"} : tk[q].pc = task[q].pc /\ tc[q].pc = task[q].pc
    BY <1>0, <1>1 DEF TypeOK
  <1> HIDE DEF c, tk, tc
  <1>3. CASE RecoverSettles(x, d, tc)
    BY <1>0, <1>2, <1>3, RecoverSettlesAttending
  <1>4. ASSUME m' = x, disk' = d, task'[p].pc = "join",
               \A q \in Tasks \ {p, "recover"} : task'[q].pc = task[q].pc,
               \/ task'["recover"].pc = "destroy"
               \/ /\ task["recover"].pc = "settled" /\ task'["recover"].pc = "settled"
        PROVE  Attending(p)
    <2>1. Ending' \/ task["recover"].pc = "settled"
      BY <1>0, <1>4 DEF Ending
    <2>2. Meets(p, "join", Ending' \/ JoinsOlder, x)
      BY <1>4, <2>1 DEF Meets, Waits, JoinsOlder
    <2>3. Sounds(p, "join", x, d)
      BY DEF Sounds, Noted, Written
    <2>4. Attends(p, "join", Ending' \/ JoinsOlder, x, d)
      BY <2>2, <2>3, AlikeAttends DEF InHand
    <2> QED
      BY <1>0, <1>4, <2>4 DEF Attending, Tasks
  <1>5. CASE task["recover"].pc = "idle" /\ m' = x /\ disk' = d /\ task' = tc
    BY <1>2, <1>4, <1>5
  <1>6. CASE task["recover"].pc # "idle" /\ m' = x /\ disk' = d /\ task' = tk
    BY <1>2, <1>4, <1>6 DEF Attended
  <1> QED
    BY <1>3, <1>5, <1>6 DEF recover, c, tk, tc

LEMMA FinalizeSettlesAttending ==
    ASSUME TypeOK, NEW p \in {"alarm", "rpc", "msg"}, NEW x \in Meta, NEW d,
           Noted(p, x, d), FinalizeSettles(p, x, d)
    PROVE  Attending(p)
  <1> DEFINE y == Finalized(x)
  <1>1. y \in Meta /\ y.state = "cold" /\ y.armed \subseteq x.armed
    <2>1. y.armed \subseteq x.armed
      BY DEF Finalized, Clear, Meta
    <2> QED
      BY <2>1, FinalizedFields
  <1>2. Await(p, Call("settled", 0), y, Persisted(y, d))
    BY DEF FinalizeSettles
  <1> HIDE DEF y
  <1>3. Sounds(p, "settled", y, Persisted(y, d))
    BY <1>1 DEF Sounds, Persisted, Noted, Written, Disk
  <1>4. Attends(p, "settled", FALSE, y, Persisted(y, d))
    BY <1>1, <1>3, EndedOwed DEF Attends
  <1>5. Call("settled", 0).pc = "settled" /\ p \in Tasks /\ p # "recover"
    BY DEF Call, Tasks
  <1> QED
    BY <1>1, <1>2, <1>4, <1>5, AwaitAttending

LEMMA FinalizeColdAttending ==
    ASSUME TypeOK, NEW p \in {"alarm", "rpc", "msg"}, NEW x, NEW d, NEW final \in BOOLEAN,
           Alike(x), Noted(p, x, d), task[p].pc # "destroy", finalizeCold(p, x, d, final)
    PROVE  Attending(p)
  <1> DEFINE y == [x EXCEPT !.head = IF final THEN x.epoch ELSE @,
                            !.coldPending = FALSE, !.rotation = FALSE]
  <1>1. /\ y \in Meta /\ y.state = x.state /\ y.handle = x.handle
        /\ y.armed = x.armed /\ ~y.coldPending /\ ~y.rotation
    BY DEF Alike, Meta
  <1>2. FinalizeSettles(p, y, d) \/ Await(p, Call("destroy", x.handle), y, d)
    BY DEF finalizeCold
  <1> HIDE DEF y
  <1>3. CASE FinalizeSettles(p, y, d)
    BY <1>1, <1>3, FinalizeSettlesAttending DEF Noted
  <1>4. CASE Await(p, Call("destroy", x.handle), y, d)
    <2>1. Sounds(p, "destroy", y, d)
      BY <1>1 DEF Sounds, Noted, Written
    <2>2. Meets(p, "destroy", TRUE, y)
      BY <1>1 DEF Meets, Owed, Owes
    <2>3. Attends(p, "destroy", TRUE, y, d)
      BY <1>1, <2>1, <2>2, AlikeAttends DEF Alike
    <2>4. Call("destroy", x.handle).pc = "destroy" /\ p \in Tasks /\ p # "recover"
      BY DEF Call, Tasks
    <2> QED
      BY <1>4, <2>3, <2>4, AwaitAttending
  <1> QED
    BY <1>2, <1>3, <1>4

LEMMA PrepareForColdAttending ==
    ASSUME TypeOK, NEW p \in {"alarm", "rpc"}, NEW x, Alike(x),
           "liveness" \in Owed(x) => Waits(p, "liveness"),
           task[p].pc # "destroy", prepareForCold(p, x)
    PROVE  Attending(p)
  <1> DEFINE c == [x EXCEPT !.coldPending = TRUE]
             y == Set(c, {"cold"})
  <1>1. Alike(c) /\ Owed(c) \subseteq (Owed(x) \ {"tier"}) \cup {"cold"}
    BY PendingOwed
  <1>2. Alike(y) /\ Owed(y) = Owed(c) \ {"cold"}
    BY <1>1, SetOwed DEF Deadlines
  <1>3. Await(p, Idle, y, Armed(y))
    BY DEF prepareForCold
  <1> HIDE DEF c, y
  <1>4. Meets(p, "idle", FALSE, y) /\ Sounds(p, "idle", y, Armed(y))
    BY <1>1, <1>2 DEF Meets, Waits, Sounds, Armed, Owed
  <1>5. Attends(p, "idle", FALSE, y, Armed(y)) /\ p \in Tasks /\ p # "recover"
    BY <1>2, <1>4, AlikeAttends DEF Tasks
  <1> QED
    BY <1>3, <1>5, IdleType, AwaitAttending

LEMMA BeginColdAttending ==
    ASSUME TypeOK, NEW p \in {"alarm", "rpc"}, NEW x, NEW d, Alike(x),
           \A name \in Owed(x) : Waits(p, name) \/ (p = "alarm" /\ name = "tier"),
           Noted(p, x, d), task[p].pc # "destroy", beginCold(p, x, d)
    PROVE  Attending(p)
  <1>1. CASE finalizeCold(p, x, d, FALSE)
    BY <1>1, FinalizeColdAttending
  <1>2. CASE Await(p, Call("resumeCold", x.handle), x, d)
    <2>1. Call("resumeCold", x.handle).pc = "resumeCold" /\ p \in Tasks /\ p \notin {"wake", "recover"}
      BY DEF Call, Tasks
    <2>2. Serves("resumeCold", "tier")
      BY DEF Serves
    <2> QED
      BY <1>2, <2>1, <2>2, CallAttending
  <1>3. CASE prepareForCold(p, x)
    BY <1>3, PrepareForColdAttending
  <1> QED
    BY <1>1, <1>2, <1>3 DEF beginCold

LEMMA LivenessCheckAttending ==
    ASSUME TypeOK, Attended, NEW p \in {"alarm", "health"}, NEW x, NEW d, Alike(x),
           \A name \in Owed(x) : Waits(p, name) \/ (p = "alarm" /\ name = "liveness"),
           Noted(p, x, d), task[p].pc = "idle", livenessCheck(p, x, d)
    PROVE  Attending(p)
  <1>0. p \in Tasks /\ p # "wake" /\ p # "recover"
    BY DEF Tasks
  <1>1. ASSUME NEW y, Alike(y), Owed(y) \subseteq Owed(x) \ {"liveness"}, End(p, y, d)
        PROVE  Attending(p)
    BY <1>0, <1>1, EndAttending
  <1>2. CASE x.state # "awake" /\ End(p, x, d)
    <2>1. "liveness" \notin Owed(x)
      BY <1>2 DEF Owed, Owes
    <2> QED
      BY <1>1, <1>2, <2>1
  <1>3. CASE End(p, [x EXCEPT !.lost = FALSE], d)
    BY <1>1, <1>3, FoundOwed
  <1>4. CASE End(p, armLiveness([x EXCEPT !.strikes = 0], run), d)
    <2>1. Alike([x EXCEPT !.strikes = 0]) /\ Owed([x EXCEPT !.strikes = 0]) = Owed(x)
      BY Bounds, StrikesOwed
    <2> QED
      BY <1>1, <1>4, <2>1, ArmLivenessOwed
  <1>5. CASE recover(p, x, d, TRUE)
    BY <1>0, <1>5, RecoverAttending
  <1>6. CASE Await(p, [Call("probe", x.handle) EXCEPT
                         !.work = pendingWork(run), !.live = liveSupervisor], x, d)
    <2>1. [Call("probe", x.handle) EXCEPT !.work = pendingWork(run), !.live = liveSupervisor].pc
            = "probe"
      BY DEF Call
    <2>2. Serves("probe", "liveness")
      BY DEF Serves
    <2> QED
      BY <1>0, <1>6, <2>1, <2>2, CallAttending
  <1> QED
    BY <1>2, <1>3, <1>4, <1>5, <1>6 DEF livenessCheck

-----------------------------------------------------------------------------
(* Every step attends to what it found.                                    *)

LEMMA StillAttending ==
    ASSUME TypeOK, Attended, UNCHANGED <<m, disk>>,
           \A q \in Tasks : task'[q].pc = task[q].pc
    PROVE  Attending("recover")
  BY MemoryAlike, SameAttending DEF Tasks

(* A wake that has gone through is AWAKE, with its tier's deadline.        *)
LEMMA AwakenedAttending ==
    ASSUME TypeOK, NEW x \in Meta, x.coldPending = m.coldPending, x.armed = m.armed,
           task["wake"].pc # "destroy",
           Await("wake", Call("sync", 0), Awakened(x, run), Armed(Awakened(x, run)))
    PROVE  Attending("wake")
  <1> DEFINE y == Clear([x EXCEPT !.state = "awake", !.failures = 0],
                        {"wakeRetry", "waking", "credential"})
             z == IF UsesS3 THEN Set(y, {"credential"}) ELSE y
             t == IF z.rotation THEN z ELSE Clear([z EXCEPT !.coldPending = FALSE], {"cold"})
             w == armTier(t, run)
  <1>1. /\ z \in Meta /\ z.state = "awake" /\ z.coldPending = m.coldPending
        /\ "cold" \in m.armed => "cold" \in z.armed
    BY Bounds DEF Set, Clear, Meta, Deadlines
  <1>2. Awakened(x, run) = w
    BY <1>1 DEF Awakened, touch
  <1> HIDE DEF y, z
  <1>3. /\ t \in Meta /\ t.state = "awake"
        /\ t.coldPending => m.coldPending /\ ("cold" \in m.armed => "cold" \in t.armed)
    BY <1>1 DEF Set, Clear, Meta, Deadlines
  <1> HIDE DEF t
  <1>4. /\ w \in Meta /\ w.state = "awake" /\ w.coldPending = t.coldPending
        /\ w.lost = t.lost /\ "tier" \in w.armed /\ (w.lost => "liveness" \in w.armed)
        /\ "cold" \in t.armed => "cold" \in w.armed
    BY <1>3 DEF armTier, armLiveness, Set, Clear, Meta, Deadlines
  <1> HIDE DEF w
  <1>5. Meets("wake", "sync", FALSE, w) /\ Sounds("wake", "sync", w, Armed(w))
    BY <1>3, <1>4 DEF Meets, Owed, Owes, Serves, Sounds, Armed
  <1>6. Attends("wake", "sync", FALSE, w, Armed(w))
    BY <1>4, <1>5 DEF Attends
  <1>7. Call("sync", 0).pc = "sync" /\ "wake" \in Tasks
    BY DEF Call, Tasks
  <1> QED
    BY <1>2, <1>6, <1>7, AwaitAttending

LEMMA WakingAttending ==
    ASSUME TypeOK, Attended, Waking
    PROVE  \E p \in Tasks : Attending(p)
  <1> USE MemoryAlike
  <1>0. /\ m \in Meta /\ disk \in Disk /\ task \in [Tasks -> Local] /\ Others(task)
        /\ {"wake", "alarm"} \subseteq Tasks
        /\ \A p \in Tasks : Noted(p, m, disk)
    BY DEF TypeOK, Disk, Tasks, Others, Noted, Written
  <1>1. CASE Wake
    BY <1>0, <1>1, WakeInnerAttending DEF Wake
  <1>2. CASE WakeVerified
    BY <1>0, <1>2, RecoverAttending DEF WakeVerified, Waits
  <1>3. CASE WakeMaterialized
    <2> DEFINE x == [m EXCEPT !.handle = task["wake"].on]
    <2>1. x \in Meta /\ x.coldPending = m.coldPending /\ x.armed = m.armed
      BY <1>0 DEF Meta, Local
    <2> QED
      BY <1>0, <1>3, <2>1, AwakenedAttending DEF WakeMaterialized
  <1>4. CASE WakeResumed
    BY <1>0, <1>4, AwakenedAttending DEF WakeResumed
  <1>5. CASE WakeRefused
    <2>1. CASE Await("wake", Call("reprobe", m.handle), m, disk)
      <3>1. Call("reprobe", m.handle).pc = "reprobe" /\ "reprobe" \in InHand
        BY DEF Call, InHand
      <3>2. Attends("wake", "reprobe", FALSE, m, disk)
        BY <1>0, <3>1, AlikeAttends DEF Sounds, Meets
      <3> QED
        BY <1>0, <1>5, <2>1, <3>1, <3>2, AwaitAttending DEF WakeRefused
    <2>2. CASE failWake("wake", m, FALSE, disk)
      BY <1>0, <1>5, <2>2, FailWakeAttending DEF WakeRefused
    <2> QED
      BY <1>5, <2>1, <2>2 DEF WakeRefused
  <1>6. CASE WakeReprobed
    <2>1. CASE recover("wake", m, disk, FALSE)
      BY <1>0, <1>6, <2>1, RecoverAttending DEF WakeReprobed, Waits
    <2>2. CASE failWake("wake", m, m.handle # 0, disk)
      BY <1>0, <1>6, <2>2, FailWakeAttending DEF WakeReprobed
    <2> QED
      BY <1>6, <2>1, <2>2 DEF WakeReprobed
  <1>7. ASSUME NEW p \in {"wake", "alarm"}, TornDown(p)
        PROVE  Attending("wake")
    <2>1. p = "wake" /\ m.state \notin {"awake", "waking"}
      BY <1>7 DEF TornDown, Attended
    <2> QED
      BY <1>0, <1>7, <2>1, FailWakeEndAttending DEF TornDown
  <1>8. ASSUME NEW p \in {"wake", "alarm"}, Synced(p)
        PROVE  Attending(p)
    <2>1. task[p].pc = "sync" /\ (p = "wake" => m.state # "waking")
      BY <1>8 DEF Synced, Attended, InHand
    <2> QED
      BY <1>0, <1>8, <2>1, EndAttending DEF Synced, Waits, Serves
  <1> QED
    BY <1>0, <1>1, <1>2, <1>3, <1>4, <1>5, <1>6, <1>7, <1>8 DEF Waking

LEMMA RecoveringAttending ==
    ASSUME TypeOK, Attended, Recovering
    PROVE  \E p \in Tasks : Attending(p)
  <1> USE MemoryAlike
  <1>0. /\ m \in Meta /\ disk \in Disk /\ task \in [Tasks -> Local]
        /\ {"wake", "alarm", "health", "rpc", "recover"} \subseteq Tasks
        /\ \A p \in Tasks : Noted(p, m, disk)
    BY DEF TypeOK, Disk, Tasks, Noted, Written
  <1>1. CASE RecoverDestroyed
    BY <1>0, <1>1, RecoverSettlesAttending DEF RecoverDestroyed
  <1>2. CASE RecoverEnds
    <2> DEFINE rn == degradeInFlightRuns(run)
               tk == [task EXCEPT !["recover"] = Idle]
    <2>1. Others(tk) /\ tk["recover"].pc = "idle"
      BY <1>0, <1>2, IdleType DEF Others, RecoverEnds
    <2>2. CASE tk["wake"].pc = "join" /\ BeginWake(m, tk)
      <3>1. task["wake"].pc # "destroy"
        BY <1>0, <2>2
      <3> QED
        BY <1>0, <2>1, <2>2, <3>1, BeginWakeAttending
    <2>3. CASE wakeInBackground(m, Persisted(m, disk), tk, rn)
      <3>1. Persisted(m, disk) \in Disk /\ (disk.alarm => Persisted(m, disk).alarm)
        BY <1>0 DEF Persisted, Disk
      <3> QED
        BY <2>1, <2>3, <3>1, WakeInBackgroundAttending
    <2>4. CASE m' = m /\ disk' = Armed(m) /\ task' = tk
      <3>1. disk'.alarm = (m'.armed # {})
        BY <2>4 DEF Armed
      <3>2. /\ \A q \in Tasks \ {"recover"} : task'[q].pc = task[q].pc
            /\ task["recover"].pc # "destroy" /\ task'["recover"].pc = "idle"
        BY <1>2, <2>1, <2>4 DEF Others, RecoverEnds
      <3> QED
        BY <1>0, <2>4, <3>1, <3>2, SameAttending
    <2> QED
      BY <1>2, <2>2, <2>3, <2>4 DEF RecoverEnds
  <1>3. ASSUME NEW p \in {"alarm", "health", "rpc"}, Joined(p)
        PROVE  Attending(p)
    <2>1. task[p].pc = "join" /\ p \in Tasks /\ p \notin {"recover", "wake"}
      BY <1>0, <1>3 DEF Joined
    <2>2. \A name \in Owed(m) : Waits(p, name)
      BY <2>1 DEF Waits, Serves
    <2> QED
      BY <1>0, <1>3, <2>1, <2>2, EndAttending DEF Joined
  <1> QED
    BY <1>0, <1>1, <1>2, <1>3 DEF Recovering

LEMMA SleptAttends ==
    ASSUME NEW x, Alike(x), x.coldPending => m.coldPending,
           "cold" \in m.armed => "cold" \in x.armed
    PROVE  LET y == Slept(x)
           IN  Attends("alarm", "idle", FALSE, y, Armed(y))
  <1> DEFINE y == Slept(x)
  <1>1. /\ y \in Meta /\ y.state = "warm" /\ y.coldPending = x.coldPending
        /\ "cold" \in x.armed => "cold" \in y.armed
    BY SleptTo DEF Alike
  <1> HIDE DEF y
  <1>2. Meets("alarm", "idle", FALSE, y) /\ Sounds("alarm", "idle", y, Armed(y))
    BY <1>1, RestedMeets DEF Sounds, Armed
  <1>3. Attends("alarm", "idle", FALSE, y, Armed(y))
    BY <1>1, <1>2 DEF Attends
  <1> QED
    BY <1>3 DEF y

LEMMA AlarmsAttending ==
    ASSUME TypeOK, Attended, Alarms
    PROVE  \E p \in Tasks : Attending(p)
  <1> USE MemoryAlike
  <1>0. /\ m \in Meta /\ disk \in Disk /\ task \in [Tasks -> Local] /\ Others(task)
        /\ {"alarm", "recover", "wake"} \subseteq Tasks
        /\ \A name \in Deadlines, x \in Meta : Noted("alarm", x, FiredDisk(name))
    BY FiredOwed DEF TypeOK, Disk, Tasks, Others, Noted, Written
  <1>a. ASSUME task["alarm"].pc = "idle", NEW name \in {"liveness", "tier", "cold"},
               name \in Owed(m)
        PROVE  Waits("alarm", name)
    BY <1>a DEF Waits, Serves
  <1>1. CASE AlarmEmpty
    <2>1. /\ m' = m /\ task' = task /\ disk' = [disk EXCEPT !.alarm = FALSE]
          /\ m.armed = {}
      BY <1>1 DEF AlarmEmpty
    <2>2. disk'.alarm = (m'.armed # {})
      BY <1>0, <2>1 DEF Disk
    <2> QED
      BY <1>0, <2>1, <2>2, SameAttending
  <1>2. CASE onWakeRetryDeadline
    <2> DEFINE x == Fired("wakeRetry")
    <2>0. task["alarm"].pc = "idle"
      BY <1>2 DEF onWakeRetryDeadline, Fires
    <2>1. Alike(x) /\ Owed(x) \subseteq Owed(m) /\ x \in Meta
      BY FiredOwed DEF Deadlines, Alike, Owed
    <2>2. CASE task["wake"].pc = "idle" /\ BeginWake(x, task)
      <3>1. task["wake"].pc # "destroy"
        BY <2>2
      <3> QED
        BY <1>0, <2>1, <2>2, <3>1, BeginWakeAttending
    <2>3. CASE End("alarm", x, FiredDisk("wakeRetry"))
      BY <1>0, <1>a, <2>0, <2>1, <2>3, EndAttending DEF Owed
    <2> QED
      BY <1>0, <1>2, <2>2, <2>3 DEF onWakeRetryDeadline
  <1>3. CASE onWakingDeadline
    <2> DEFINE x == Fired("waking")
               d == FiredDisk("waking")
    <2>0. task["alarm"].pc = "idle" /\ "waking" \in Deadlines
      BY <1>3 DEF onWakingDeadline, Fires, Deadlines
    <2>1. /\ Alike(x) /\ Owed(x) \subseteq Owed(m)
      BY <2>0, FiredOwed DEF Owed
    <2>2. Alike(Set(x, {"waking"})) /\ Owed(Set(x, {"waking"})) \subseteq Owed(m)
      BY <2>0, <2>1, SetOwed
    <2>3. End("alarm", x, d) \/ End("alarm", Set(x, {"waking"}), d)
      BY <1>3, <2>1 DEF onWakingDeadline, Attended, InHand, Alike
    <2> HIDE DEF x
    <2> QED
      BY <1>0, <1>a, <2>0, <2>1, <2>2, <2>3, EndAttending DEF Owed
  <1>4. CASE onLivenessDeadline
    <2>0. task["alarm"].pc = "idle" /\ "liveness" \in Deadlines
      BY <1>4 DEF onLivenessDeadline, Fires, Deadlines
    <2>1. Alike(Fired("liveness")) /\ Owed(Fired("liveness")) \subseteq Owed(m) \cup {"liveness"}
      BY <2>0, FiredOwed
    <2> QED
      BY <1>0, <1>4, <1>a, <2>0, <2>1, LivenessCheckAttending DEF onLivenessDeadline, Alike, Owed
  <1>5. CASE onColdDeadline
    <2> DEFINE x == Fired("cold")
    <2>0. task["alarm"].pc = "idle" /\ "cold" \in Deadlines
      BY <1>5 DEF onColdDeadline, Fires, Deadlines
    <2>1. Alike(x) /\ Owed(x) \subseteq Owed(m) \cup {"cold"}
      BY <2>0, FiredOwed
    <2>2. CASE (~x.coldPending \/ x.state = "cold") /\ End("alarm", x, FiredDisk("cold"))
      <3>1. Owed(x) \subseteq Owed(m)
        BY <2>1, <2>2 DEF Owed, Owes
      <3> QED
        BY <1>0, <1>a, <2>0, <2>1, <2>2, <3>1, EndAttending DEF Owed
    <2>3. CASE finalizeCold("alarm", x, FiredDisk("cold"), FALSE)
      BY <1>0, <2>0, <2>1, <2>3, FinalizeColdAttending DEF Alike
    <2> QED
      BY <1>0, <1>5, <2>2, <2>3 DEF onColdDeadline
  <1>6. CASE onCredentialDeadline
    <2> DEFINE x == Fired("credential")
               d == FiredDisk("credential")
               y == [x EXCEPT !.rotation = TRUE]
    <2>0. task["alarm"].pc = "idle" /\ "credential" \in Deadlines
      BY <1>6 DEF onCredentialDeadline, Fires, Deadlines
    <2>1. Alike(x) /\ Owed(x) \subseteq Owed(m)
      BY <2>0, FiredOwed DEF Owed
    <2>2. CASE x.state \in {"awake", "warm"} /\ beginCold("alarm", y, d)
      <3>1. Alike(y) /\ Owed(y) = Owed(x)
        BY <2>1, <2>2 DEF Alike, Meta, Owed, Owes
      <3> HIDE DEF x, y
      <3> QED
        BY <1>0, <1>a, <2>0, <2>1, <2>2, <3>1, BeginColdAttending DEF Alike, Owed
    <2>3. CASE End("alarm", x, d)
      BY <1>0, <1>a, <2>0, <2>1, <2>3, EndAttending DEF Owed
    <2> QED
      BY <1>0, <1>6, <2>2, <2>3 DEF onCredentialDeadline
  <1>7. CASE onTierDeadline
    <2> DEFINE x == Fired("tier")
               d == FiredDisk("tier")
    <2>0. task["alarm"].pc = "idle" /\ "tier" \in Deadlines
      BY <1>7 DEF onTierDeadline, Fires, Deadlines
    <2>1. Alike(x) /\ Owed(x) \subseteq Owed(m) \cup {"tier"} /\ x \in Meta
      BY <2>0, FiredOwed DEF Alike
    <2>2. CASE x.state # "awake" /\ End("alarm", x, d)
      <3>1. Owed(x) \subseteq Owed(m)
        BY <2>1, <2>2 DEF Owed, Owes
      <3> QED
        BY <1>0, <1>a, <2>0, <2>1, <2>2, <3>1, EndAttending DEF Owed
    <2>3. CASE End("alarm", armTier(x, run), d)
      <3>1. Alike(armTier(x, run)) /\ Owed(armTier(x, run)) \subseteq Owed(m)
        BY <2>1, ArmTierOwed
      <3> QED
        BY <1>0, <1>a, <2>0, <2>3, <3>1, EndAttending DEF Owed
    <2>4. CASE End("alarm", Slept(x), d)
      <3>1. (x.coldPending => m.coldPending) /\ ("cold" \in m.armed => "cold" \in x.armed)
        BY DEF Fired, Clear, TypeOK, Meta
      <3>2. Attends("alarm", "idle", FALSE, Slept(x), Armed(Slept(x)))
        BY <2>1, <3>1, SleptAttends
      <3>3. Await("alarm", Idle, Slept(x), Armed(Slept(x)))
        BY <2>4 DEF End
      <3> HIDE DEF x
      <3> QED
        BY <1>0, <2>0, <3>2, <3>3, AwaitAttending, IdleType
    <2>5. CASE Await("alarm", Call("sleep", x.handle), x, d)
      <3>1. Call("sleep", x.handle).pc = "sleep" /\ Serves("sleep", "tier")
        BY DEF Call, Serves
      <3> QED
        BY <1>0, <1>a, <2>0, <2>1, <2>5, <3>1, CallAttending DEF Owed
    <2>6. CASE beginCold("alarm", x, d)
      BY <1>0, <1>a, <2>0, <2>1, <2>6, BeginColdAttending DEF Owed
    <2>7. x.state \in {"cold", "waking"} => x.state # "awake"
      OBVIOUS
    <2> QED
      BY <1>0, <1>7, <2>2, <2>3, <2>4, <2>5, <2>6, <2>7 DEF onTierDeadline
  <1> QED
    BY <1>0, <1>1, <1>2, <1>3, <1>4, <1>5, <1>6, <1>7 DEF Alarms

LEMMA CheckingAttending ==
    ASSUME TypeOK, Attended, Checking
    PROVE  \E p \in Tasks : Attending(p)
  <1> USE MemoryAlike
  <1>0. /\ {"alarm", "health"} \subseteq Tasks
        /\ \A p \in Tasks : Noted(p, m, disk)
    BY DEF TypeOK, Disk, Tasks, Noted, Written
  <1>1. CASE healthCheck
    BY <1>0, <1>1, LivenessCheckAttending DEF healthCheck, Waits
  <1>2. ASSUME NEW p \in {"alarm", "health"}, Probed(p)
        PROVE  Attending(p)
    <2> DEFINE hit == [m EXCEPT !.strikes = Capped(@ + 1, MaxStrikes)]
               found == [m EXCEPT !.lost = FALSE]
    <2>1. Capped(m.strikes + 1, MaxStrikes) \in 0..MaxStrikes
      BY ConstAssumption, CappedType DEF TypeOK, Meta
    <2>2. /\ Alike(hit) /\ Owed(hit) = Owed(m)
          /\ Alike(found) /\ Owed(found) = Owed(m) \ {"liveness"}
      BY <2>1, MemoryAlike, StrikesOwed, FoundOwed
    <2>3. Alike(armLiveness(hit, run)) /\ Owed(armLiveness(hit, run)) \subseteq Owed(m) \ {"liveness"}
      BY <2>2, ArmLivenessOwed
    <2>4. task[p].pc = "probe" /\ p \in Tasks /\ p # "wake" /\ p # "recover"
      BY <1>0, <1>2 DEF Probed
    <2>5. \/ recover(p, m, disk, TRUE) \/ recover(p, hit, disk, TRUE)
          \/ End(p, armLiveness(hit, run), disk) \/ End(p, found, disk)
      BY <1>2 DEF Probed
    <2>6. \A name \in Owed(m) : Waits(p, name) \/ (p = "alarm" /\ name = "liveness")
      BY <2>4 DEF Waits, Serves
    <2>7. hit.armed = m.armed
      BY DEF TypeOK, Meta
    <2>8. Noted(p, hit, disk)
      BY <1>0, <2>4, <2>7 DEF Noted
    <2> HIDE DEF hit, found
    <2>9. CASE recover(p, m, disk, TRUE) \/ recover(p, hit, disk, TRUE)
      BY <1>0, <2>2, <2>4, <2>6, <2>8, <2>9, RecoverAttending
    <2>10. ASSUME NEW y, Alike(y), Owed(y) \subseteq Owed(m) \ {"liveness"}, End(p, y, disk)
           PROVE  Attending(p)
      BY <1>2, <2>4, <2>6, <2>10, EndAttending
    <2> QED
      BY <2>2, <2>3, <2>5, <2>9, <2>10
  <1> QED
    BY <1>0, <1>1, <1>2 DEF Checking

LEMMA SleepingAttending ==
    ASSUME TypeOK, Attended, Sleeping
    PROVE  \E p \in Tasks : Attending(p)
  <1> USE MemoryAlike
  <1>0. /\ m \in Meta /\ disk \in Disk
        /\ {"alarm", "rpc", "msg"} \subseteq Tasks
        /\ \A p \in Tasks : Noted(p, m, disk)
        /\ \A name \in Owed(m) : Waits("rpc", name)
    BY DEF TypeOK, Disk, Tasks, Noted, Written, Waits
  <1>1. CASE sleepNow
    BY <1>0, <1>1, CallAttending DEF sleepNow, Call
  <1>2. CASE deepSleepNow
    BY <1>0, <1>2, BeginColdAttending DEF deepSleepNow
  <1>3. CASE TierSlept
    <2>1. Attends("alarm", "idle", FALSE, Slept(m), Armed(Slept(m)))
      BY <1>0, SleptAttends
    <2>2. Await("alarm", Idle, Slept(m), Armed(Slept(m))) /\ task["alarm"].pc # "destroy"
      BY <1>3 DEF TierSlept, End
    <2> QED
      BY <1>0, <2>1, <2>2, AwaitAttending, IdleType
  <1>4. CASE RpcSlept
    <2> DEFINE y == [m EXCEPT !.state = "warm", !.lost = FALSE, !.stale = FALSE]
               z == Set(Clear(y, {"liveness"}), {"tier"})
    <2>1. /\ z \in Meta /\ z.state = "warm" /\ z.coldPending = m.coldPending
          /\ "cold" \in m.armed => "cold" \in z.armed
      BY <1>0 DEF Set, Clear, Meta, Deadlines
    <2>2. Await("rpc", Idle, z, Armed(z)) /\ task["rpc"].pc # "destroy"
      BY <1>4 DEF RpcSlept
    <2> HIDE DEF z
    <2>3. Meets("rpc", "idle", FALSE, z) /\ Sounds("rpc", "idle", z, Armed(z))
      BY <2>1, RestedMeets DEF Sounds, Armed
    <2>4. Attends("rpc", "idle", FALSE, z, Armed(z))
      BY <2>1, <2>3 DEF Attends
    <2> QED
      BY <1>0, <2>2, <2>4, AwaitAttending, IdleType
  <1>5. ASSUME NEW p \in {"alarm", "rpc"}, SleepRefused(p)
        PROVE  Attending(p)
    <2>1. \A name \in Owed(m) : Waits(p, name) \/ (p = "alarm" /\ name = "tier")
      BY <1>5 DEF SleepRefused, Waits, Serves
    <2>2. CASE recover(p, m, disk, TRUE)
      BY <1>0, <1>5, <2>1, <2>2, RecoverAttending DEF SleepRefused
    <2>3. CASE Await(p, Call("sleepProbe", m.handle), m, disk)
      <3>1. Call("sleepProbe", m.handle).pc = "sleepProbe" /\ Serves("sleepProbe", "tier")
        BY DEF Call, Serves
      <3> QED
        BY <1>0, <1>5, <2>1, <2>3, <3>1, CallAttending DEF SleepRefused
    <2> QED
      BY <1>5, <2>2, <2>3 DEF SleepRefused
  <1>6. ASSUME NEW p \in {"alarm", "rpc"}, SleepProbed(p)
        PROVE  Attending(p)
    <2>0. /\ task[p].pc = "sleepProbe" /\ p \in Tasks /\ p # "wake" /\ p # "recover"
          /\ \A name \in Owed(m) : Waits(p, name) \/ (p = "alarm" /\ name = "tier")
      BY <1>0, <1>6 DEF SleepProbed, Waits, Serves
    <2>1. CASE recover(p, m, disk, TRUE)
      BY <1>0, <2>0, <2>1, RecoverAttending
    <2>2. CASE beginCold(p, m, disk)
      BY <1>0, <2>0, <2>2, BeginColdAttending
    <2>3. CASE p = "rpc" /\ End(p, m, disk)
      BY <1>0, <2>0, <2>3, EndAttending
    <2> QED
      BY <1>6, <2>1, <2>2, <2>3 DEF SleepProbed
  <1>7. ASSUME NEW p \in {"alarm", "rpc"}, ResumedForCold(p)
        PROVE  Attending(p)
    <2>1. CASE prepareForCold(p, m)
      <3>1. "liveness" \in Owed(m) => Waits(p, "liveness")
        BY <1>7 DEF ResumedForCold, Waits, Serves
      <3> QED
        BY <1>7, <2>1, <3>1, PrepareForColdAttending DEF ResumedForCold
    <2>2. CASE finalizeCold(p, m, disk, FALSE)
      BY <1>0, <1>7, <2>2, FinalizeColdAttending DEF ResumedForCold
    <2> QED
      BY <1>7, <2>1, <2>2 DEF ResumedForCold
  <1>8. ASSUME NEW p \in {"alarm", "rpc", "msg"}, FinalizeDestroyed(p)
        PROVE  Attending(p)
    BY <1>0, <1>8, FinalizeSettlesAttending DEF FinalizeDestroyed
  <1>9. ASSUME NEW p \in {"alarm", "rpc", "msg"}, FinalizeEnds(p)
        PROVE  Attending(p)
    <2> DEFINE x == [m EXCEPT !.failures = 0]
               y == IF hasQueuedRuns(degradeInFlightRuns(run))
                    THEN Set(x, {"wakeRetry"}) ELSE m
    <2>1. Alike(x) /\ Owed(x) = Owed(m)
      <3>1. x \in Meta
        BY <1>0, Bounds DEF Meta
      <3> QED
        BY <3>1 DEF Alike, Meta, Owed, Owes
    <2>2. Alike(y) /\ Owed(y) \subseteq Owed(m)
      BY <2>1, SetOwed DEF Deadlines
    <2>3. Await(p, Idle, y, Armed(y)) /\ task[p].pc = "settled"
      BY <1>9 DEF FinalizeEnds
    <2> HIDE DEF y
    <2>4. Meets(p, "idle", FALSE, y) /\ Sounds(p, "idle", y, Armed(y))
      BY <2>2, <2>3 DEF Meets, Sounds, Armed, Serves
    <2>5. Attends(p, "idle", FALSE, y, Armed(y))
      BY <2>2, <2>4, AlikeAttends
    <2> QED
      BY <1>0, <2>3, <2>5, AwaitAttending, IdleType
  <1> QED
    BY <1>0, <1>1, <1>2, <1>3, <1>4, <1>5, <1>6, <1>7, <1>8, <1>9 DEF Sleeping

(* A deleted computer waits for nothing.                                   *)
LEMMA ForgottenAttended ==
    ASSUME TypeOK, Attended, Forgotten
    PROVE  Attended' /\ Watches
  <1>1. /\ m' = [m EXCEPT !.handle = 0, !.token = 0] /\ deleted'
        /\ task' = [task EXCEPT !["rpc"] = Idle]
    BY DEF Forgotten, Await
  <1>2. /\ m'.state = m.state /\ m'.rotation = m.rotation
        /\ \A q \in {"wake", "alarm", "recover"} : task'[q] = task[q]
    BY <1>1 DEF TypeOK, Meta, Tasks
  <1> QED
    BY <1>1, <1>2 DEF Attended, Watches, LossIsWatched, AwakeIsWatched, HandshakeIsWatched

LEMMA DeletingAttending ==
    ASSUME TypeOK, Attended, Deleting
    PROVE  Forgotten \/ Attending("rpc")
  <1> USE MemoryAlike
  <1>0. /\ Noted("rpc", m, disk) /\ "rpc" \in Tasks
        /\ \A name \in Owed(m) : Waits("rpc", name)
    BY DEF TypeOK, Disk, Tasks, Noted, Written, Waits
  <1>1. CASE Delete
    <2>1. CASE Await("rpc", Call("delete", m.handle), m, disk)
      BY <1>0, <1>1, <2>1, CallAttending DEF Delete, Call
    <2> QED
      BY <1>1, <2>1 DEF Delete
  <1>2. CASE DeleteEnds
    <2>1. CASE Await("rpc", Idle, m, disk)
      BY <1>0, <1>2, <2>1, EndAttending DEF DeleteEnds, End
    <2> QED
      BY <1>2, <2>1 DEF DeleteEnds
  <1> QED
    BY <1>1, <1>2 DEF Deleting

LEMMA RequestsAttending ==
    ASSUME TypeOK, Attended, Requests
    PROVE  \E p \in Tasks : Attending(p)
  <1> USE MemoryAlike
  <1>0. /\ m \in Meta /\ disk \in Disk /\ "recover" \in Tasks /\ Others(task)
    BY DEF TypeOK, Disk, Tasks, Others
  <1>1. ASSUME NEW r \in Runs, stopRun(r)
        PROVE  Attending("recover")
    BY <1>1, StillAttending DEF stopRun
  <1>2. ASSUME NEW rn, m' = armLiveness(m, rn), disk' = Armed(m'), task' = task
        PROVE  Attending("recover")
    <2>1. Alike(m') /\ Owed(m') \subseteq Owed(m)
      BY <1>2, ArmLivenessOwed
    <2> QED
      BY <1>0, <1>2, <2>1, SameAttending DEF Armed
  <1>3. ASSUME NEW rn, wakeInBackground(m, Persisted(m, disk), task, rn)
        PROVE  \E p \in Tasks : Attending(p)
    <2>1. Persisted(m, disk) \in Disk /\ (disk.alarm => Persisted(m, disk).alarm)
      BY <1>0 DEF Persisted, Disk
    <2> QED
      BY <1>0, <1>3, <2>1, WakeInBackgroundAttending
  <1> QED
    BY <1>0, <1>1, <1>2, <1>3 DEF Requests, enqueueRun

LEMMA MessagesAttending ==
    ASSUME TypeOK, Attended, Messages
    PROVE  \E p \in Tasks : Attending(p)
  <1> USE MemoryAlike
  <1>0. /\ m \in Meta /\ disk \in Disk /\ {"recover", "msg"} \subseteq Tasks
    BY DEF TypeOK, Disk, Tasks
  <1>1. Alike(Heard) /\ Owed(Heard) = Owed(m) /\ Heard.armed = m.armed /\ Heard \in Meta
    <2>1. Alike(Heard) /\ Owed(Heard) = Owed(m)
      BY Bounds, StrikesOwed, FoundOwed DEF Heard
    <2> QED
      BY <1>0, <2>1 DEF Heard, Meta, Alike
  <1>2. ASSUME Alike(m'), Owed(m') \subseteq Owed(m), disk' = Armed(m'), task' = task
        PROVE  Attending("recover")
    BY <1>2, SameAttending DEF Armed
  <1>3. ASSUME Alike(m'), Owed(m') \subseteq Owed(m), m'.armed = m.armed,
               disk' = Persisted(m', disk) \/ disk' = disk, task' = task
        PROVE  Attending("recover")
    <2>1. disk'.alarm = disk.alarm
      BY <1>0, <1>3 DEF Persisted, Disk
    <2> QED
      BY <1>3, <2>1, SameAttending
  <1>4. ASSUME m' = Heard, UNCHANGED <<disk, task>>
        PROVE  Attending("recover")
    BY <1>1, <1>3, <1>4
  <1>5. ASSUME NEW i \in Instances, onHello(i)
        PROVE  Attending("recover")
    <2> DEFINE x == [m EXCEPT !.lost = FALSE, !.strikes = 0, !.streak = 0, !.failures = 0]
    <2>1. Alike(x) /\ Owed(x) \subseteq Owed(m)
      <3>1. x \in Meta /\ x.state = m.state /\ x.rotation = m.rotation
        BY <1>0, Bounds DEF Meta
      <3>2. Owed(x) \subseteq Owed(m)
        BY <1>0 DEF Meta, Owed, Owes
      <3> QED
        BY <3>1, <3>2 DEF Alike
    <2>2. Alike(armLiveness(x, run)) /\ Owed(armLiveness(x, run)) \subseteq Owed(m)
      BY <2>1, ArmLivenessOwed
    <2> QED
      BY <1>2, <1>5, <2>2 DEF onHello
  <1>6. ASSUME NEW i \in Instances, SocketCloses(i)
        PROVE  Attending("recover")
    <2> DEFINE x == [m EXCEPT !.lost = TRUE]
               y == Set(x, {"liveness"})
    <2>1. Alike(x) /\ Owed(x) \subseteq Owed(m) \cup {"liveness"}
      BY <1>0 DEF Alike, Meta, Owed, Owes
    <2> HIDE DEF x
    <2>2. Alike(y) /\ Owed(y) \subseteq Owed(m)
      BY <2>1, SetOwed DEF Deadlines
    <2> USE DEF x
    <2>3. CASE UNCHANGED <<m, disk>>
      BY <1>6, <2>3, StillAttending DEF SocketCloses
    <2> QED
      BY <1>2, <1>6, <2>2, <2>3 DEF SocketCloses
  <1>7. ASSUME NEW i \in Instances, onHeadAdvance(i)
        PROVE  Attending("recover")
    <2> DEFINE x == [Heard EXCEPT !.head = inst[i].epoch]
    <2>0. inst[i].epoch \in Epochs
      BY DEF TypeOK, Instance
    <2>1. x \in Meta /\ x.state = Heard.state /\ x.rotation = Heard.rotation /\ x.armed = Heard.armed
      BY <1>1, <2>0 DEF Meta
    <2>2. Alike(x) /\ Owed(x) = Owed(m)
      BY <1>1, <2>1 DEF Alike, Meta, Owed, Owes
    <2> QED
      BY <1>1, <1>3, <1>4, <1>7, <2>1, <2>2 DEF onHeadAdvance
  <1>8. ASSUME NEW i \in Instances, onHeartbeat(i)
        PROVE  Attending("recover")
    <2>1. /\ Alike(touch(Heard, run)) /\ Owed(touch(Heard, run)) \subseteq Owed(m)
          /\ touch(Heard, run).state # "awake" => touch(Heard, run).armed = m.armed
      BY <1>1, TouchOwed DEF Alike
    <2> QED
      BY <1>2, <1>3, <1>4, <1>8, <2>1 DEF onHeartbeat, Touched
  <1>9. ASSUME NEW i \in Instances, SupervisorFinal(i)
        PROVE  \E p \in Tasks : Attending(p)
    <2>1. CASE task["msg"].pc = "idle" /\ finalizeCold("msg", Heard, disk, TRUE)
      BY <1>0, <1>1, <2>1, FinalizeColdAttending DEF Noted, Written
    <2> QED
      BY <1>0, <1>4, <1>9, <2>1 DEF SupervisorFinal
  <1>10. ASSUME NEW i \in Instances, NEW r \in Runs,
                onJournalFrame(i, r) \/ onRunStarted(i, r) \/ onRunCompleted(i, r)
         PROVE  Attending("recover")
    BY <1>4, <1>10 DEF onJournalFrame, onRunStarted, onRunCompleted, Reports
  <1> QED
    BY <1>0, <1>5, <1>6, <1>7, <1>8, <1>9, <1>10 DEF Messages

LEMMA SubstrateAttending ==
    ASSUME TypeOK, Attended, Substrate
    PROVE  Attending("recover")
  <1>1. UNCHANGED <<m, disk>>
    BY DEF Substrate, SubstrateCreates, SubstrateActs
  <1>2. \A p \in Tasks : task'[p].pc = task[p].pc
    <2>1. CASE SubstrateCreates
      BY <2>1 DEF SubstrateCreates, TypeOK, Local, Tasks
    <2>2. ASSUME NEW q \in Tasks, SubstrateActs(q)
          PROVE  \A p \in Tasks : task'[p].pc = task[p].pc
      BY <2>2 DEF SubstrateActs, TypeOK, Local
    <2> QED
      BY <2>1, <2>2 DEF Substrate
  <1> QED
    BY <1>1, <1>2, StillAttending

LEMMA NextAttended ==
    ASSUME "crash" \notin Faults, TypeOK, TypeOK', Attended, [Next]_vars
    PROVE  Attended' /\ Watches
  <1>1. deleted => deleted'
    BY NextStep DEF Rest, vars
  <1>2. ASSUME \E p \in Tasks : Attending(p)
        PROVE  Attended' /\ Watches
    BY <1>1, <1>2, AttendingAttended, AttendingWatches
  <1>3. {"recover", "rpc"} \subseteq Tasks
    BY DEF Tasks
  <1>4. CASE Supervisor \/ UNCHANGED vars
    <2>1. UNCHANGED <<m, disk, task>>
      BY <1>4 DEF Supervisor, SupervisorExits, SupervisorStarts, SupervisorContinues, vars
    <2> QED
      BY <1>2, <1>3, <2>1, StillAttending
  <1>5. CASE Deleting
    BY <1>2, <1>3, <1>5, DeletingAttending, ForgottenAttended
  <1>6. CASE Environment
    <2>1. UNCHANGED <<m, disk, task>>
      BY <1>6 DEF Environment, Crash, Evict, Drop, Fault
    <2> QED
      BY <1>2, <1>3, <2>1, StillAttending
  <1>7. CASE Substrate
    BY <1>2, <1>3, <1>7, SubstrateAttending
  <1> QED
    BY <1>2, <1>4, <1>5, <1>6, <1>7, WakingAttending, RecoveringAttending, AlarmsAttending,
       CheckingAttending, SleepingAttending, RequestsAttending, MessagesAttending DEF Next

(* While the object is not restarted, no step of any operation forgets what *)
(* the computer waits for: a lost supervisor, an AWAKE tier and a handshake *)
(* keep the deadline, or the handler, that will look at them again.        *)
THEOREM EveryWaitIsWatchedEver ==
    ASSUME "crash" \notin Faults
    PROVE  Spec => EveryWaitIsWatched
  <1>1. Init => Attended
    BY DEF Init, Attended, initialMeta, Tasks, Idle, Call, InHand
  <1>2. TypeOK /\ TypeOK' /\ Attended /\ [Next]_vars => Attended'
    BY NextAttended
  <1>3. TypeOK /\ TypeOK' /\ Attended /\ [Next]_vars =>
          [ /\ LossIsWatched => LossIsWatched' \/ JoinsOlder
            /\ AwakeIsWatched => AwakeIsWatched' \/ JoinsOlder
            /\ HandshakeIsWatched /\ m.state # "cold" => HandshakeIsWatched' ]_vars
    BY NextAttended DEF Watches
  <1> QED
    BY <1>1, <1>2, <1>3, TypeCorrect, PTL DEF Spec, EveryWaitIsWatched
=============================================================================
