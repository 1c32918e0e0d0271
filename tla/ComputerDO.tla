------------------------------ MODULE ComputerDO ------------------------------
(***************************************************************************)
(* The lifecycle of one computer: the Durable Object that coordinates it   *)
(* (packages/control-plane/src/computer-do.ts), the substrate it drives,   *)
(* and the supervisor (marid) inside each instance the substrate created.  *)
(*                                                                         *)
(* The object is single threaded, so a handler runs without interruption   *)
(* up to an await of something outside the object: a substrate call, a     *)
(* write to D1, or the promise of another operation.  Awaits of its own    *)
(* storage are gated and let nothing in.  Each action below is therefore   *)
(* one such uninterrupted stretch, and `task' holds, for every operation   *)
(* suspended at an await, where it stands and what it read before it.      *)
(***************************************************************************)
EXTENDS Naturals, FiniteSets

CONSTANTS
    Runs,             \* ids of the runs a user may request
    MaxEpoch,         \* bound: generations (and instances) in a behaviour
    MaxFaults,        \* bound: faults of the environment in a behaviour
    MaxAsks,          \* bound: client commands in a behaviour
    ClientOps,        \* the commands clients send: a subset of AllOps
    Faults,           \* the faults that happen: a subset of AllFaults
    MaxStrikes,       \* LIVENESS_STRIKES_MAX
    MaxStreak,        \* RECOVERY_STREAK_MAX
    MaxRequeues,      \* MAX_RUN_REQUEUES
    WakeRetries,      \* WAKE_RETRY_MS.length
    SupportsWarm,     \* the driver keeps the disk across a sleep
    FreezesWhenWarm,  \* the driver's resumeBeforeCold
    UsesS3,           \* generations carry expiring store credentials
    AlarmAtLeastOnce  \* an alarm whose handler died is delivered again

Epochs    == 0..MaxEpoch
Instances == 1..MaxEpoch
Deadlines == {"wakeRetry", "waking", "liveness", "credential", "cold", "tier"}
AllOps    == {"wake", "sleep", "deepSleep", "health", "stop", "delete"}
AllFaults == {"refuse", "unknown", "evict", "drop", "crash"}

ASSUME ConstAssumption ==
    /\ MaxEpoch \in Nat \ {0}
    /\ MaxFaults \in Nat /\ MaxAsks \in Nat
    /\ MaxStrikes \in Nat \ {0} /\ MaxStreak \in Nat
    /\ MaxRequeues \in Nat /\ WakeRetries \in Nat
    /\ ClientOps \subseteq AllOps /\ Faults \subseteq AllFaults
    /\ {SupportsWarm, FreezesWhenWarm, UsesS3, AlarmAtLeastOnce} \subseteq BOOLEAN

VARIABLES
    m,       \* `Meta', the object's memory of its computer
    disk,    \* what storage holds: the persisted Meta and the one alarm
    run,     \* the runs table (SQLite: durable as soon as it is written)
    sup,     \* `#supervisor': the active channel's instance, 0 for null
    auth,    \* the keys of `#authEpoch': instances whose socket said hello
    task,    \* operations suspended at an await
    inst,    \* the substrate's instances, with the supervisor in each
    ph,      \* how far each instance's supervisor has got with each run
    faults,  \* faults left
    asks,    \* client commands left
    deleted  \* deletePermanently has answered ok

vars == <<m, disk, run, sup, auth, task, inst, ph, faults, asks, deleted>>

-----------------------------------------------------------------------------
(* State.                                                                  *)

(* Meta.  `token' is the epoch it was minted with; `head' the epoch of the *)
(* generation that wrote the manifest; `armed' the deadline slots that are *)
(* not null; `stale' is armedIdleSince /= idleSince.                       *)
Meta == [ state : {"cold", "waking", "awake", "warm"}, epoch : Epochs,
          token : Epochs, handle : Epochs, head : Epochs,
          coldPending : BOOLEAN, rotation : BOOLEAN, armed : SUBSET Deadlines,
          stale : BOOLEAN, lost : BOOLEAN, strikes : 0..MaxStrikes,
          streak : 0..(MaxStreak + 1), failures : 0..(WakeRetries + 1) ]

initialMeta ==
    [ state |-> "cold", epoch |-> 0, token |-> 0, handle |-> 0, head |-> 0,
      coldPending |-> FALSE, rotation |-> FALSE, armed |-> {}, stale |-> FALSE,
      lost |-> FALSE, strikes |-> 0, streak |-> 0, failures |-> 0 ]

Statuses == {"none", "queued", "dispatched", "running", "stopping",
             "completed", "cancelled", "interrupted"}
InFlight == {"dispatched", "running", "stopping"}
RunRow   == [ status : Statuses, began : BOOLEAN, requeues : 0..MaxRequeues ]
noRun    == [ status |-> "none", began |-> FALSE, requeues |-> 0 ]

(* An operation suspended at an await: the call it waits for, the instance *)
(* the call names, whether the substrate has carried it out, and what the  *)
(* operation had read before it (`work': pendingWork() > 0, `live':        *)
(* #liveSupervisor(), `rewake': the option #recover was given).            *)
Tasks == {"wake", "recover", "alarm", "health", "rpc", "msg"}
Pcs   == {"idle", "verify", "materialize", "resume", "reprobe", "tear", "join",
          "destroy", "sync", "settled", "probe", "sleep", "sleepProbe", "resumeCold",
          "delete"}
Local == [ pc : Pcs, on : Epochs, done : BOOLEAN,
           work : BOOLEAN, live : BOOLEAN, rewake : BOOLEAN ]

Call(pc, h) == [ pc |-> pc, on |-> h, done |-> FALSE,
                 work |-> FALSE, live |-> FALSE, rewake |-> FALSE ]
Idle == Call("idle", 0)

(* An instance: `epoch' is the MARI_EPOCH (and token) in its environment,  *)
(* `conn' whether its supervisor's socket carries bytes, `prep' how far it *)
(* has got with prepare_for_cold.                                          *)
Instance == [ st : {"none", "up", "slept", "exited", "gone"}, epoch : Epochs,
              conn : BOOLEAN, prep : {"no", "asked", "said"} ]

Phases == {"none", "inbox", "begun", "told", "reported"}

TypeOK ==
    /\ m \in Meta
    /\ disk \in [meta : Meta, alarm : BOOLEAN]
    /\ run \in [Runs -> RunRow]
    /\ sup \in Epochs
    /\ auth \subseteq Instances
    /\ task \in [Tasks -> Local]
    /\ inst \in [Instances -> Instance]
    /\ ph \in [Instances -> [Runs -> Phases]]
    /\ faults \in 0..MaxFaults
    /\ asks \in 0..MaxAsks
    /\ deleted \in BOOLEAN

Init ==
    /\ m = initialMeta
    /\ disk = [meta |-> initialMeta, alarm |-> FALSE]
    /\ run = [r \in Runs |-> noRun]
    /\ sup = 0
    /\ auth = {}
    /\ task = [p \in Tasks |-> Idle]
    /\ inst = [i \in Instances |->
                [st |-> "none", epoch |-> 0, conn |-> FALSE, prep |-> "no"]]
    /\ ph = [i \in Instances |-> [r \in Runs |-> "none"]]
    /\ faults = MaxFaults
    /\ asks = MaxAsks
    /\ deleted = FALSE

-----------------------------------------------------------------------------
(* Reading and writing the object's memory and storage.                    *)

pendingWork(rn)   == \E r \in Runs : rn[r].status \in InFlight \cup {"queued"}
hasQueuedRuns(rn) == \E r \in Runs : rn[r].status = "queued"

isCurrentSupervisor(i) == i \in auth /\ inst[i].epoch = m.epoch
liveSupervisor == sup # 0 /\ inst[sup].epoch = m.epoch

Set(x, names)   == [x EXCEPT !.armed = @ \cup names]
Clear(x, names) == [x EXCEPT !.armed = @ \ names]

(* Storage after #persist, and after #armAlarm with #persist.              *)
Persisted(x, d) == [d EXCEPT !.meta = x]
Armed(x)        == [meta |-> x, alarm |-> x.armed # {}]

(* Mutant: a lost supervisor is not counted as something at stake. *)
armLivenessForWork(x, rn) ==
    IF x.state = "awake" /\ pendingWork(rn)
    THEN Set(x, {"liveness"}) ELSE Clear(x, {"liveness"})
armLiveness(x, rn) ==
    IF x.state = "awake" /\ (x.lost \/ pendingWork(rn))
    THEN Set(x, {"liveness"}) ELSE Clear(x, {"liveness"})

(* Mutant: the tier deadline is stamped but not armed. *)
armTierUnarmed(x, rn) == armLiveness([x EXCEPT !.stale = FALSE], rn)
armTier(x, rn) == armLiveness(Set([x EXCEPT !.stale = FALSE], {"tier"}), rn)

(* Mutant: activity calls off every handshake, a rotation's too. *)
touchCallsOff(x, rn) ==
    IF x.state # "awake" THEN [x EXCEPT !.stale = TRUE]
    ELSE armTier(Clear([x EXCEPT !.coldPending = FALSE], {"cold"}), rn)
touch(x, rn) ==
    IF x.state # "awake" THEN [x EXCEPT !.stale = TRUE]
    ELSE LET y == IF x.rotation THEN x
                  ELSE Clear([x EXCEPT !.coldPending = FALSE], {"cold"})
         IN  armTier(y, rn)

(* Storage after touch and #persist: armTier arms the alarm, a touch of a  *)
(* computer that is not AWAKE does not.                                    *)
Touched(x, d) == IF x.state = "awake" THEN Armed(x) ELSE Persisted(x, d)

Capped(n, bound) == IF n < bound THEN n ELSE bound

Ask(op)  == op \in ClientOps /\ asks > 0 /\ ~deleted /\ asks' = asks - 1
Fault(f) == f \in Faults /\ faults > 0 /\ faults' = faults - 1

-----------------------------------------------------------------------------
(* Pieces of handlers.  x is the object's memory and d its storage as the  *)
(* handler has left them so far, p the operation the handler runs in.      *)

(* Suspend p at the call c. *)
Await(p, c, x, d) == m' = x /\ disk' = d /\ task' = [task EXCEPT ![p] = c]

(* p is over.  alarm() and healthCheck() persist and re-arm at the end.    *)
End(p, x, d) ==
    Await(p, Idle, x, IF p \in {"alarm", "health"} THEN Armed(x) ELSE d)

dropSupervisorSockets ==
    /\ sup' = 0
    /\ auth' = {}
    /\ inst' = [i \in Instances |->
                  IF i \in auth THEN [inst[i] EXCEPT !.conn = FALSE] ELSE inst[i]]

(* Mint the epoch and token, durably, before the substrate hears of them.  *)
Minted(x) ==
    Set([x EXCEPT !.state = "waking", !.epoch = @ + 1, !.token = x.epoch + 1,
                  !.lost = FALSE, !.strikes = 0,
                  !.coldPending = FALSE, !.rotation = FALSE], {"waking"})

(* Mutant: the epoch is minted in memory only. *)
BeginWakeUnsaved(x, tk) ==
    /\ x.epoch < MaxEpoch
    /\ m' = Minted(x)
    /\ disk' = disk
    /\ task' = [tk EXCEPT !["wake"] =
                  IF x.state = "warm" /\ x.handle # 0
                  THEN Call("resume", x.handle) ELSE Call("materialize", 0)]
BeginWake(x, tk) ==
    /\ x.epoch < MaxEpoch
    /\ m' = Minted(x)
    /\ disk' = Armed(Minted(x))
    /\ task' = [tk EXCEPT !["wake"] =
                  IF x.state = "warm" /\ x.handle # 0
                  THEN Call("resume", x.handle) ELSE Call("materialize", 0)]

wakeInner(x, d, tk, rn) ==
    IF x.state = "awake" /\ x.token # 0 /\ x.handle # 0
    THEN \/ /\ m' = touch(x, rn)      \* supervised, or young enough to boot
            /\ disk' = Touched(touch(x, rn), d)
            /\ task' = tk
         \/ /\ ~liveSupervisor
            /\ m' = x /\ disk' = d
            /\ task' = [tk EXCEPT !["wake"] = Call("verify", x.handle)]
    ELSE BeginWake(x, tk)

wakeInBackground(x, d, tk, rn) ==
    IF \/ x.state = "awake" /\ x.token # 0 /\ x.handle # 0 /\ liveSupervisor
       \/ tk["wake"].pc # "idle"
    THEN m' = x /\ disk' = d /\ task' = tk
    ELSE wakeInner(x, d, tk, rn)

Awakened(x, rn) ==
    LET y == Clear([x EXCEPT !.state = "awake", !.failures = 0],
                   {"wakeRetry", "waking", "credential"})
    IN  touch(IF UsesS3 THEN Set(y, {"credential"}) ELSE y, rn)

FailedWake(x, resumable, work) ==
    LET n == Capped(x.failures + 1, WakeRetries + 1)
        y == Clear([x EXCEPT !.failures = n],
                   {"waking", "liveness", "credential", "wakeRetry"})
        z == IF n <= WakeRetries /\ work THEN Set(y, {"wakeRetry"}) ELSE y
    IN  IF resumable THEN Set([z EXCEPT !.stale = FALSE], {"tier"})
        ELSE [z EXCEPT !.token = 0, !.handle = 0]

failWakeEnd(p, x, resumable) ==
    LET y == FailedWake(x, resumable, pendingWork(run))
    IN  Await(p, Call("sync", 0), y, Armed(y))

(* Mutant: a failed wake stays WAKING. *)
failWakeInPlace(p, x, resumable, d) ==
    IF resumable \/ x.handle = 0 THEN failWakeEnd(p, x, resumable)
    ELSE Await(p, Call("tear", x.handle), x, d)
failWake(p, x, resumable, d) ==
    LET y == [x EXCEPT !.state = IF resumable THEN "warm" ELSE "cold"]
    IN  IF resumable \/ x.handle = 0 THEN failWakeEnd(p, y, resumable)
        ELSE Await(p, Call("tear", x.handle), y, d)

Recovered(x) ==
    Clear([x EXCEPT !.handle = 0, !.token = 0, !.state = "cold",
                    !.coldPending = FALSE, !.rotation = FALSE, !.lost = FALSE,
                    !.strikes = 0, !.streak = Capped(@ + 1, MaxStreak + 1)],
          {"liveness", "credential", "cold", "waking", "tier"})

RecoverSettles(x, d, tk) ==
    /\ m' = Recovered(x)
    /\ disk' = Persisted(Recovered(x), d)
    /\ task' = [tk EXCEPT !["recover"].pc = "settled"]
    /\ dropSupervisorSockets

(* #recover: p waits for the recovery in flight, or for the one it starts. *)
recover(p, x, d, rewake) ==
    LET tk == [task EXCEPT ![p] = Call("join", 0)]
        c  == [Call("destroy", x.handle) EXCEPT !.rewake = rewake,
                                                !.work = pendingWork(run)]
    IN  IF task["recover"].pc = "idle" /\ x.handle = 0
        THEN RecoverSettles(x, d, [tk EXCEPT !["recover"] = c])
        ELSE /\ m' = x /\ disk' = d
             /\ task' = IF task["recover"].pc # "idle" THEN tk
                        ELSE [tk EXCEPT !["recover"] = c]
             /\ UNCHANGED <<sup, auth, inst>>

(* Mutant: one re-queue too many. *)
degradeOnceMore(rn) ==
    [ r \in Runs |->
        IF rn[r].status \notin InFlight THEN rn[r]
        ELSE IF ~rn[r].began /\ rn[r].requeues <= MaxRequeues
        THEN [rn[r] EXCEPT !.status = "queued", !.requeues = @ + 1]
        ELSE [rn[r] EXCEPT !.status = "interrupted"] ]
(* Mutant: a finished run is degraded with the others. *)
degradeFinishedToo(rn) ==
    [ r \in Runs |->
        IF rn[r].status \notin InFlight \cup {"completed"} THEN rn[r]
        ELSE IF ~rn[r].began /\ rn[r].requeues < MaxRequeues
        THEN [rn[r] EXCEPT !.status = "queued", !.requeues = @ + 1]
        ELSE [rn[r] EXCEPT !.status = "interrupted"] ]
degradeInFlightRuns(rn) ==
    [ r \in Runs |->
        IF rn[r].status \notin InFlight THEN rn[r]
        ELSE IF ~rn[r].began /\ rn[r].requeues < MaxRequeues
        THEN [rn[r] EXCEPT !.status = "queued", !.requeues = @ + 1]
        ELSE [rn[r] EXCEPT !.status = "interrupted"] ]

(* Mutant: COLD keeps the token of the generation it ended. *)
FinalizedWithToken(x) ==
    Clear([x EXCEPT !.handle = 0, !.state = "cold", !.lost = FALSE, !.strikes = 0],
          {"liveness", "credential", "cold", "tier", "waking"})
Finalized(x) ==
    Clear([x EXCEPT !.handle = 0, !.token = 0, !.state = "cold",
                    !.lost = FALSE, !.strikes = 0],
          {"liveness", "credential", "cold", "tier", "waking"})

FinalizeSettles(p, x, d) ==
    Await(p, Call("settled", 0), Finalized(x), Persisted(Finalized(x), d))

finalizeCold(p, x, d, final) ==
    LET y == [x EXCEPT !.head = IF final THEN x.epoch ELSE @,
                       !.coldPending = FALSE, !.rotation = FALSE]
    IN  IF x.handle = 0 THEN FinalizeSettles(p, y, d)
        ELSE Await(p, Call("destroy", x.handle), y, d)

(* Mutant: the handshake has no deadline. *)
prepareWithoutDeadline(p, x) ==
    LET y == [x EXCEPT !.coldPending = TRUE]
    IN  /\ Await(p, Idle, y, Armed(y))
        /\ inst' = IF sup # 0 /\ inst[sup].conn /\ inst[sup].prep = "no"
                   THEN [inst EXCEPT ![sup].prep = "asked"] ELSE inst

(* Ask the supervisor to stop; the frame is lost if the socket is dead.    *)
prepareForCold(p, x) ==
    LET y == Set([x EXCEPT !.coldPending = TRUE], {"cold"})
    IN  /\ Await(p, Idle, y, Armed(y))
        /\ inst' = IF sup # 0 /\ inst[sup].conn /\ inst[sup].prep = "no"
                   THEN [inst EXCEPT ![sup].prep = "asked"] ELSE inst

beginCold(p, x, d) ==
    IF ~liveSupervisor THEN finalizeCold(p, x, d, FALSE) /\ UNCHANGED inst
    ELSE IF x.handle # 0 /\ FreezesWhenWarm
    THEN Await(p, Call("resumeCold", x.handle), x, d) /\ UNCHANGED inst
    ELSE prepareForCold(p, x)

(* Mutant: the dispatch latch is not taken. *)
ClaimedUnlatched(rn) == rn

(* dispatchQueued: claim every queued run and send it on i's socket.       *)
Claimed(rn) ==
    [ r \in Runs |-> IF rn[r].status = "queued"
                     THEN [rn[r] EXCEPT !.status = "dispatched"] ELSE rn[r] ]
Sent(i, rn) ==
    [ ph EXCEPT ![i] = [ r \in Runs |->
        IF rn[r].status = "queued" /\ @[r] = "none" THEN "inbox" ELSE @[r] ] ]

-----------------------------------------------------------------------------
(* The substrate.  A call is carried out at some point between its start   *)
(* and its answer; `#bounded' gives up on a call whether or not that has   *)
(* happened, so a call that "failed" may have been carried out.            *)

Acts(c) ==
    CASE c.pc \in {"resume", "resumeCold"} -> {"slept", "up"}
      [] c.pc = "sleep"                    -> {"slept", "up"}
      [] c.pc \in {"destroy", "tear", "delete"} -> {"up", "slept", "exited", "gone"}
      [] OTHER -> {}

SubstrateActs(p) ==
    LET c == task[p] IN
    /\ ~c.done /\ c.on # 0 /\ inst[c.on].st \in Acts(c)
    /\ task' = [task EXCEPT ![p].done = TRUE]
    /\ inst' = [inst EXCEPT ![c.on] =
                  CASE c.pc = "sleep" -> [@ EXCEPT !.st = "slept"]
                    [] c.pc \in {"resume", "resumeCold"} -> [@ EXCEPT !.st = "up"]
                    [] OTHER -> [@ EXCEPT !.st = "gone", !.conn = FALSE]]
    /\ UNCHANGED <<m, disk, run, sup, auth, ph, faults, asks, deleted>>

(* materialize: a new instance with this generation's epoch in its         *)
(* environment.  Docker creates one per call, whatever exists already.     *)
SubstrateCreates ==
    /\ task["wake"].pc = "materialize" /\ ~task["wake"].done
    /\ \E i \in Instances :
         /\ inst[i].st = "none" /\ \A j \in 1..(i - 1) : inst[j].st # "none"
         /\ inst' = [inst EXCEPT ![i].st = "up", ![i].epoch = m.epoch]
         /\ task' = [task EXCEPT !["wake"].on = i, !["wake"].done = TRUE]
    /\ UNCHANGED <<m, disk, run, sup, auth, ph, faults, asks, deleted>>

(* The call p waits for throws: refused, over budget, or impossible.       *)
Refused(p) ==
    \/ Fault("refuse")
    \/ /\ task[p].pc \in {"resume", "resumeCold", "sleep"}
       /\ inst[task[p].on].st \in {"gone", "exited"}
       /\ UNCHANGED faults

Answered(p) == task[p].done /\ UNCHANGED faults
Over(p)     == Answered(p) \/ Refused(p)

(* What #probeInstance may answer about the instance p asked after.        *)
Gone(p)    == inst[task[p].on].st = "gone" /\ UNCHANGED faults
Alive(p)   == inst[task[p].on].st # "gone" /\ UNCHANGED faults
Unknown(p) == Fault("unknown")

Evict(i) ==
    /\ inst[i].st \in {"up", "slept", "exited"} /\ Fault("evict")
    /\ inst' = [inst EXCEPT ![i].st = "gone", ![i].conn = FALSE]
    /\ UNCHANGED <<m, disk, run, sup, auth, task, ph, asks, deleted>>

-----------------------------------------------------------------------------
(* Waking.                                                                 *)

(* POST /wake and the preview proxy; a wake in flight is shared.           *)
Wake ==
    /\ task["wake"].pc = "idle" /\ Ask("wake")
    /\ wakeInner(m, disk, task, run)
    /\ UNCHANGED <<run, sup, auth, inst, ph, faults, deleted>>

(* verifyAwake's probe is back: every answer leads to a recovery, since    *)
(* an instance that is alive has no supervisor.                            *)
WakeVerified ==
    /\ task["wake"].pc = "verify"
    /\ recover("wake", m, disk, FALSE)
    /\ UNCHANGED <<run, ph, faults, asks, deleted>>

WakeMaterialized ==
    /\ task["wake"].pc = "materialize" /\ task["wake"].done
    /\ LET y == Awakened([m EXCEPT !.handle = task["wake"].on], run)
       IN  Await("wake", Call("sync", 0), y, Armed(y))
    /\ UNCHANGED <<run, sup, auth, inst, ph, faults, asks, deleted>>

WakeResumed ==
    /\ task["wake"].pc = "resume" /\ task["wake"].done
    /\ LET y == Awakened(m, run) IN Await("wake", Call("sync", 0), y, Armed(y))
    /\ UNCHANGED <<run, sup, auth, inst, ph, faults, asks, deleted>>

WakeRefused ==
    /\ task["wake"].pc \in {"materialize", "resume"} /\ Refused("wake")
    /\ IF task["wake"].pc = "resume" /\ m.handle # 0
       THEN Await("wake", Call("reprobe", m.handle), m, disk)
       ELSE failWake("wake", m, FALSE, disk)
    /\ UNCHANGED <<run, sup, auth, inst, ph, asks, deleted>>

(* The resource of a failed resume: gone for good, or still worth keeping. *)
WakeReprobed ==
    /\ task["wake"].pc = "reprobe"
    /\ \/ Gone("wake") /\ recover("wake", m, disk, FALSE)
       \/ /\ Alive("wake") \/ Unknown("wake")
          /\ failWake("wake", m, m.handle # 0, disk)
          /\ UNCHANGED <<sup, auth, inst>>
    /\ UNCHANGED <<run, ph, asks, deleted>>

TornDown(p) ==
    /\ task[p].pc = "tear" /\ Over(p)
    /\ failWakeEnd(p, m, FALSE)
    /\ UNCHANGED <<run, sup, auth, inst, ph, asks, deleted>>

(* The D1 write that ends a wake, or a watchdog's rollback, has returned.  *)
Synced(p) ==
    /\ task[p].pc = "sync" /\ End(p, m, disk)
    /\ UNCHANGED <<run, sup, auth, inst, ph, faults, asks, deleted>>

-----------------------------------------------------------------------------
(* Recovery.                                                               *)

RecoverDestroyed ==
    /\ task["recover"].pc = "destroy" /\ Over("recover")
    /\ RecoverSettles(m, disk, task)
    /\ UNCHANGED <<run, ph, asks, deleted>>

(* D1 has answered: degrade the runs, then wake again if there is work, or *)
(* let the wake that asked for this recovery go on.                        *)
RecoverEnds ==
    LET rn == degradeInFlightRuns(run)
        c  == task["recover"]
        tk == [task EXCEPT !["recover"] = Idle]
    IN  /\ c.pc = "settled"
        /\ run' = rn
        /\ IF tk["wake"].pc = "join" THEN BeginWake(m, tk)
           ELSE IF c.rewake /\ m.streak <= MaxStreak /\ (c.work \/ hasQueuedRuns(rn))
           THEN wakeInBackground(m, Persisted(m, disk), tk, rn)
           ELSE m' = m /\ disk' = Armed(m) /\ task' = tk
        /\ UNCHANGED <<sup, auth, inst, ph, faults, asks, deleted>>

(* The operation that asked for a recovery goes on, and has no more to do. *)
Joined(p) ==
    /\ task[p].pc = "join" /\ task["recover"].pc = "idle"
    /\ End(p, m, disk)
    /\ UNCHANGED <<run, sup, auth, inst, ph, faults, asks, deleted>>

-----------------------------------------------------------------------------
(* The alarm.  Windows are deployment settings, so any armed deadline may  *)
(* be the one that is due; several due at once are several firings.  The   *)
(* slot is cleared, durably, before its handler runs.                      *)

Fires(name)     == disk.alarm /\ task["alarm"].pc = "idle" /\ name \in m.armed
Fired(name)     == Clear(m, {name})
FiredDisk(name) == [meta |-> Fired(name), alarm |-> FALSE]

AlarmEmpty ==
    /\ disk.alarm /\ task["alarm"].pc = "idle" /\ m.armed = {}
    /\ disk' = [disk EXCEPT !.alarm = FALSE]
    /\ UNCHANGED <<m, run, sup, auth, task, inst, ph, faults, asks, deleted>>

onWakeRetryDeadline ==
    LET x == Fired("wakeRetry") IN
    /\ Fires("wakeRetry")
    /\ IF x.state # "awake" /\ pendingWork(run) /\ task["wake"].pc = "idle"
       THEN BeginWake(x, task) ELSE End("alarm", x, FiredDisk("wakeRetry"))
    /\ UNCHANGED <<run, sup, auth, inst, ph, faults, asks, deleted>>

(* Mutant: the watchdog only looks, and never rolls back. *)
onWakingDeadlineLooks ==
    /\ Fires("waking")
    /\ IF m.state = "waking" /\ task["wake"].pc # "idle"
       THEN End("alarm", m, FiredDisk("waking"))
       ELSE End("alarm", Fired("waking"), FiredDisk("waking"))
    /\ UNCHANGED <<run, sup, auth, inst, ph, faults, asks, deleted>>
onWakingDeadline ==
    LET x == Fired("waking")
        d == FiredDisk("waking")
    IN  /\ Fires("waking")
        /\ CASE x.state # "waking"        -> End("alarm", x, d)
             [] x.state = "waking" /\ task["wake"].pc # "idle"
                                          -> End("alarm", Set(x, {"waking"}), d)
             [] OTHER                     -> failWake("alarm", x, FALSE, d)
        /\ UNCHANGED <<run, sup, auth, inst, ph, faults, asks, deleted>>

livenessCheck(p, x, d) ==
    LET work == pendingWork(run)
        live == liveSupervisor
        kept == UNCHANGED <<sup, auth, inst>>
    IN  \/ x.state # "awake" /\ End(p, x, d) /\ kept
        \/ /\ x.state = "awake" /\ live /\ ~work
           /\ End(p, [x EXCEPT !.lost = FALSE], d) /\ kept
        \/ /\ x.state = "awake" /\ live /\ work          \* spoke recently
           /\ End(p, armLiveness([x EXCEPT !.strikes = 0], run), d) /\ kept
        \/ /\ x.state = "awake" /\ ~(live /\ ~work)
           /\ IF x.handle = 0 THEN recover(p, x, d, TRUE)
              ELSE /\ Await(p, [Call("probe", x.handle) EXCEPT
                                  !.work = work, !.live = live], x, d)
                   /\ kept

onLivenessDeadline ==
    /\ Fires("liveness")
    /\ livenessCheck("alarm", Fired("liveness"), FiredDisk("liveness"))
    /\ UNCHANGED <<run, ph, faults, asks, deleted>>

healthCheck ==
    /\ task["health"].pc = "idle" /\ Ask("health")
    /\ livenessCheck("health", m, disk)
    /\ UNCHANGED <<run, ph, faults, deleted>>

(* The probe is back.  `live' and `work' are what was read before it.      *)
Probed(p) ==
    LET c    == task[p]
        hit  == [m EXCEPT !.strikes = Capped(@ + 1, MaxStrikes)]
        kept == UNCHANGED <<sup, auth, inst>>
        Strike == IF hit.strikes >= MaxStrikes THEN recover(p, hit, disk, TRUE)
                  ELSE End(p, armLiveness(hit, run), disk) /\ kept
    IN  /\ c.pc = "probe"
        /\ \/ Gone(p) /\ recover(p, m, disk, TRUE)
           \/ Unknown(p) /\ Strike
           \/ Alive(p) /\ ~c.live /\ c.work /\ recover(p, m, disk, TRUE)
           \/ /\ Alive(p) /\ ~c.live /\ ~c.work
              /\ End(p, [m EXCEPT !.lost = FALSE], disk) /\ kept
           \/ Alive(p) /\ c.live /\ Strike
        /\ UNCHANGED <<run, ph, asks, deleted>>

(* Mutant: the deadline of the handshake passes without a finalize. *)
onColdDeadlineWaits ==
    /\ Fires("cold")
    /\ End("alarm", Fired("cold"), FiredDisk("cold"))
    /\ UNCHANGED <<run, sup, auth, inst, ph, faults, asks, deleted>>
onColdDeadline ==
    LET x == Fired("cold") IN
    /\ Fires("cold")
    /\ IF ~x.coldPending \/ x.state = "cold" THEN End("alarm", x, FiredDisk("cold"))
       ELSE finalizeCold("alarm", x, FiredDisk("cold"), FALSE)
    /\ UNCHANGED <<run, sup, auth, inst, ph, faults, asks, deleted>>

onCredentialDeadline ==
    LET x == Fired("credential") IN
    /\ Fires("credential")
    /\ IF x.state \in {"awake", "warm"}
       THEN beginCold("alarm", [x EXCEPT !.rotation = TRUE], FiredDisk("credential"))
       ELSE End("alarm", x, FiredDisk("credential")) /\ UNCHANGED inst
    /\ UNCHANGED <<run, sup, auth, ph, faults, asks, deleted>>

(* AWAKE -> WARM, once the substrate has slept the instance.               *)
Slept(x) == armTier(Clear([x EXCEPT !.state = "warm"], {"liveness"}), run)

onTierDeadline ==
    LET x == Fired("tier")
        d == FiredDisk("tier")
    IN  /\ Fires("tier")
        /\ \/ /\ x.stale
              /\ End("alarm", IF x.state = "awake" THEN armTier(x, run) ELSE x, d)
              /\ UNCHANGED inst
           \/ /\ ~x.stale /\ x.state = "awake" /\ SupportsWarm
              /\ IF x.handle # 0 THEN Await("alarm", Call("sleep", x.handle), x, d)
                 ELSE End("alarm", Slept(x), d)
              /\ UNCHANGED inst
           \/ /\ ~x.stale
              /\ x.state = "warm" \/ (x.state = "awake" /\ ~SupportsWarm)
              /\ beginCold("alarm", x, d)
           \/ /\ ~x.stale /\ x.state \in {"cold", "waking"}
              /\ End("alarm", x, d) /\ UNCHANGED inst
        /\ UNCHANGED <<run, sup, auth, ph, faults, asks, deleted>>

-----------------------------------------------------------------------------
(* Sleep: the tier alarm's and the client's, and the road to COLD.         *)

sleepNow ==
    /\ task["rpc"].pc = "idle" /\ m.state = "awake" /\ m.handle # 0 /\ Ask("sleep")
    /\ Await("rpc", Call("sleep", m.handle), m, disk)
    /\ UNCHANGED <<run, sup, auth, inst, ph, faults, deleted>>

deepSleepNow ==
    /\ task["rpc"].pc = "idle" /\ m.state # "cold" /\ Ask("deepSleep")
    /\ beginCold("rpc", m, disk)
    /\ UNCHANGED <<run, sup, auth, ph, faults, deleted>>

TierSlept ==
    /\ task["alarm"].pc = "sleep" /\ Answered("alarm")
    /\ End("alarm", Slept(m), disk)
    /\ UNCHANGED <<run, sup, auth, inst, ph, asks, deleted>>

RpcSlept ==
    /\ task["rpc"].pc = "sleep" /\ Answered("rpc")
    /\ LET y == Set(Clear([m EXCEPT !.state = "warm", !.lost = FALSE,
                                    !.stale = FALSE], {"liveness"}), {"tier"})
       IN  Await("rpc", Idle, y, Armed(y))
    /\ UNCHANGED <<run, sup, auth, inst, ph, asks, deleted>>

SleepRefused(p) ==
    /\ task[p].pc = "sleep" /\ Refused(p)
    /\ IF m.handle = 0 THEN recover(p, m, disk, TRUE)
       ELSE /\ Await(p, Call("sleepProbe", m.handle), m, disk)
            /\ UNCHANGED <<sup, auth, inst>>
    /\ UNCHANGED <<run, ph, asks, deleted>>

(* Mutant: the client's answer for the tier policy too. *)
SleepProbedStays(p) ==
    /\ task[p].pc = "sleepProbe" /\ (Gone(p) \/ Alive(p) \/ Unknown(p))
    /\ End(p, m, disk)
    /\ UNCHANGED <<run, sup, auth, inst, ph, asks, deleted>>

(* Gone is the eviction path; otherwise the tier policy takes the computer *)
(* COLD instead, and the client is told that nothing happened.             *)
SleepProbed(p) ==
    /\ task[p].pc = "sleepProbe"
    /\ \/ Gone(p) /\ recover(p, m, disk, TRUE)
       \/ /\ Alive(p) \/ Unknown(p)
          /\ IF p = "alarm" THEN beginCold(p, m, disk)
             ELSE End(p, m, disk) /\ UNCHANGED inst
          /\ UNCHANGED <<sup, auth>>
    /\ UNCHANGED <<run, ph, asks, deleted>>

ResumedForCold(p) ==
    /\ task[p].pc = "resumeCold"
    /\ \/ Answered(p) /\ prepareForCold(p, m)
       \/ Refused(p) /\ finalizeCold(p, m, disk, FALSE) /\ UNCHANGED inst
    /\ UNCHANGED <<run, sup, auth, ph, asks, deleted>>

FinalizeDestroyed(p) ==
    /\ task[p].pc = "destroy" /\ Over(p)
    /\ FinalizeSettles(p, m, disk)
    /\ UNCHANGED <<run, sup, auth, inst, ph, asks, deleted>>

FinalizeEnds(p) ==
    LET rn == degradeInFlightRuns(run)
        y  == IF hasQueuedRuns(rn)
              THEN Set([m EXCEPT !.failures = 0], {"wakeRetry"}) ELSE m
    IN  /\ task[p].pc = "settled"
        /\ run' = rn
        /\ Await(p, Idle, y, Armed(y))
        /\ dropSupervisorSockets
        /\ UNCHANGED <<ph, faults, asks, deleted>>

-----------------------------------------------------------------------------
(* deletePermanently.  Destruction is confirmed before anything is lost.   *)

Forgotten ==
    /\ Await("rpc", Idle, [m EXCEPT !.handle = 0, !.token = 0],
             [meta |-> initialMeta, alarm |-> FALSE])
    /\ dropSupervisorSockets
    /\ run' = [r \in Runs |-> noRun]
    /\ deleted' = TRUE

Delete ==
    /\ task["rpc"].pc = "idle" /\ Ask("delete")
    /\ IF m.handle = 0 THEN Forgotten
       ELSE /\ Await("rpc", Call("delete", m.handle), m, disk)
            /\ UNCHANGED <<run, sup, auth, inst, deleted>>
    /\ UNCHANGED <<ph, faults>>

DeleteEnds ==
    /\ task["rpc"].pc = "delete"
    /\ \/ Answered("rpc") /\ Forgotten
       \/ /\ Refused("rpc") /\ Await("rpc", Idle, m, disk)
          /\ UNCHANGED <<run, sup, auth, inst, deleted>>
    /\ UNCHANGED <<ph, asks>>

-----------------------------------------------------------------------------
(* Runs.                                                                   *)

(* The run is recorded, then handed to the current supervisor if there is  *)
(* one; otherwise (no supervisor, or its socket threw) a wake is started.  *)
(* A frame sent on a socket that is silently dead is lost.                 *)
enqueueRun(r) ==
    LET rn == [run EXCEPT ![r].status = "queued"] IN
    /\ run[r].status = "none" /\ ~deleted
    /\ \/ /\ liveSupervisor
          /\ run' = Claimed(rn)
          /\ ph' = IF inst[sup].conn THEN Sent(sup, rn) ELSE ph
          /\ m' = armLiveness(m, run')
          /\ disk' = Armed(m')
          /\ task' = task
       \/ /\ ~(liveSupervisor /\ inst[sup].conn)
          /\ run' = rn
          /\ ph' = ph
          /\ wakeInBackground(m, Persisted(m, disk), task, rn)
    /\ UNCHANGED <<sup, auth, inst, faults, asks, deleted>>

(* A run no supervisor was handed is cancelled in place.                   *)
stopRun(r) ==
    /\ run[r].status \in InFlight \cup {"queued"} /\ Ask("stop")
    /\ run' = [run EXCEPT ![r].status = IF @ = "queued" THEN "cancelled"
                                        ELSE "stopping"]
    /\ UNCHANGED <<m, disk, sup, auth, task, inst, ph, faults, deleted>>

-----------------------------------------------------------------------------
(* The supervisor's socket.                                                *)

onHello(i) ==
    LET x == [m EXCEPT !.lost = FALSE, !.strikes = 0, !.streak = 0, !.failures = 0]
    IN  /\ inst[i].st = "up" /\ ~inst[i].conn /\ inst[i].prep = "no"
        /\ inst[i].epoch = m.epoch /\ inst[i].epoch = m.token
        /\ sup' = i
        /\ auth' = auth \cup {i}
        /\ inst' = [inst EXCEPT ![i].conn = TRUE]
        /\ m' = armLiveness(x, run)
        /\ disk' = Armed(m')
        /\ run' = Claimed(run)
        /\ ph' = Sent(i, run)
        /\ UNCHANGED <<task, faults, asks, deleted>>

(* The connection breaks.  Frames on it are lost, in either direction; the *)
(* object may learn of it late (SocketCloses) or never (half open).        *)
Drop(i) ==
    /\ inst[i].conn /\ Fault("drop")
    /\ inst' = [inst EXCEPT ![i].conn = FALSE]
    /\ \E lost \in SUBSET Runs :
         ph' = [ph EXCEPT ![i] = [r \in Runs |->
                  IF r \notin lost THEN @[r]
                  ELSE CASE @[r] = "inbox" -> "none"
                         [] @[r] = "begun" -> "told"
                         [] @[r] = "told"  -> "reported"
                         [] OTHER          -> @[r]]]
    /\ UNCHANGED <<m, disk, run, sup, auth, task, asks, deleted>>

(* The close event, and onSupervisorLost.                                  *)
SocketCloses(i) ==
    /\ i \in auth /\ ~inst[i].conn
    /\ auth' = auth \ {i}
    /\ sup' = IF sup = i THEN 0 ELSE sup
    /\ IF /\ inst[i].epoch = m.epoch /\ m.state = "awake"
          /\ ~(sup' # 0 /\ inst[sup'].epoch = m.epoch)
       THEN /\ m' = Set([m EXCEPT !.lost = TRUE], {"liveness"})
            /\ disk' = Armed(m')
       ELSE UNCHANGED <<m, disk>>
    /\ UNCHANGED <<run, task, inst, ph, faults, asks, deleted>>

(* A frame from i reaches the object on an authenticated socket (one sent  *)
(* before the guest froze may arrive after): the supervisor spoke.  This   *)
(* is noted only in memory.                                                *)
Hears(i) == inst[i].st \in {"up", "slept"} /\ inst[i].conn /\ i \in auth
Heard    == [m EXCEPT !.strikes = 0]

(* Mutant: the head moves without the compare on the epoch. *)
onHeadAdvanceUnfenced(i) ==
    /\ Hears(i)
    /\ m' = [Heard EXCEPT !.head = inst[i].epoch]
    /\ disk' = Persisted(m', disk)
    /\ UNCHANGED <<run, sup, auth, task, inst, ph, faults, asks, deleted>>

(* Fenced by the compare-and-swap on the epoch.                            *)
onHeadAdvance(i) ==
    /\ Hears(i)
    /\ IF inst[i].epoch = m.epoch
       THEN /\ m' = [Heard EXCEPT !.head = inst[i].epoch]
            /\ disk' = Persisted(m', disk)
       ELSE m' = Heard /\ disk' = disk
    /\ UNCHANGED <<run, sup, auth, task, inst, ph, faults, asks, deleted>>

onHeartbeat(i) ==
    /\ Hears(i) /\ \E r \in Runs : ph[i][r] \in {"begun", "told"}
    /\ IF isCurrentSupervisor(i)
       THEN m' = touch(Heard, run) /\ disk' = Touched(m', disk)
       ELSE m' = Heard /\ disk' = disk
    /\ UNCHANGED <<run, sup, auth, task, inst, ph, faults, asks, deleted>>

(* A message about run r from i: `row' is what it makes of r's row, `told' *)
(* how far i has got with its reports.  A fenced-out one is ignored.       *)
Reports(i, r, row, told) ==
    /\ Hears(i)
    /\ m' = Heard
    /\ run' = IF isCurrentSupervisor(i) THEN [run EXCEPT ![r] = row] ELSE run
    /\ ph' = [ph EXCEPT ![i][r] = told]
    /\ UNCHANGED <<disk, sup, auth, task, inst, faults, asks, deleted>>

Began(row) == [row EXCEPT !.began = TRUE]
Started(row) ==
    [Began(row) EXCEPT !.status =
        IF @ \in {"stopping", "completed", "cancelled"} THEN @ ELSE "running"]
Completed(row) == [Began(row) EXCEPT !.status = "completed"]

onJournalFrame(i, r) ==
    ph[i][r] \in {"begun", "told"} /\ Reports(i, r, Began(run[r]), ph[i][r])
onRunStarted(i, r)   == ph[i][r] = "begun" /\ Reports(i, r, Started(run[r]), "told")
onRunCompleted(i, r) == 
    ph[i][r] = "told" /\ Reports(i, r, Completed(run[r]), "reported")

-----------------------------------------------------------------------------
(* The supervisor (crates/marid/src), as far as the object can tell.       *)

(* start_run reaches the run manager.                                      *)
SupervisorStarts(i, r) ==
    /\ inst[i].st = "up" /\ inst[i].prep # "said" /\ ph[i][r] = "inbox"
    /\ ph' = [ph EXCEPT ![i][r] = "begun"]
    /\ UNCHANGED <<m, disk, run, sup, auth, task, inst, faults, asks, deleted>>

(* After hello_ack a later generation may resume a run an earlier one left *)
(* unfinished, under the same id.                                          *)
SupervisorContinues(i, r) ==
    /\ inst[i].st = "up" /\ Hears(i)
    /\ ph[i][r] = "none" /\ run[r].status = "interrupted"
    /\ \E j \in 1..(i - 1) : ph[j][r] \in {"begun", "told"}
    /\ ph' = [ph EXCEPT ![i][r] = "begun"]
    /\ UNCHANGED <<m, disk, run, sup, auth, task, inst, faults, asks, deleted>>

(* prepare_for_cold: the runs are stopped and reported, then the final     *)
(* manifest goes out.  It counts only while the object still asks for it.  *)
SupervisorFinal(i) ==
    /\ inst[i].st = "up" /\ Hears(i) /\ inst[i].prep = "asked"
    /\ \A r \in Runs : ph[i][r] \notin {"begun", "told"}
    /\ inst' = [inst EXCEPT ![i].prep = "said"]
    /\ IF isCurrentSupervisor(i) /\ m.coldPending /\ task["msg"].pc = "idle"
       THEN finalizeCold("msg", Heard, disk, TRUE)
       ELSE m' = Heard /\ UNCHANGED <<disk, task>>
    /\ UNCHANGED <<run, sup, auth, ph, faults, asks, deleted>>

(* The process ends after its final manifest, or when the connection it    *)
(* was shutting down on is lost.                                           *)
SupervisorExits(i) ==
    /\ inst[i].st = "up"
    /\ inst[i].prep = "said" \/ (inst[i].prep = "asked" /\ ~inst[i].conn)
    /\ inst' = [inst EXCEPT ![i].st = "exited", ![i].conn = FALSE]
    /\ UNCHANGED <<m, disk, run, sup, auth, task, ph, faults, asks, deleted>>

-----------------------------------------------------------------------------
(* The object is evicted, or its process restarted: memory is gone, calls  *)
(* in flight have no one waiting, sockets are closed.  The constructor     *)
(* reloads Meta and gives a computer found WAKING a fresh watchdog.        *)
Revived == LET x == disk.meta IN
           IF x.state = "waking" THEN Set(x, {"waking"}) ELSE x

Crash ==
    /\ Fault("crash")
    /\ m' = Revived
    /\ disk' = [meta  |-> Revived,
                alarm |-> \/ disk.alarm \/ Revived.state = "waking"
                          \/ AlarmAtLeastOnce /\ task["alarm"].pc # "idle"]
    /\ sup' = 0
    /\ auth' = {}
    /\ inst' = [i \in Instances |-> [inst[i] EXCEPT !.conn = FALSE]]
    /\ task' = [p \in Tasks |-> Idle]
    /\ UNCHANGED <<run, ph, asks, deleted>>

-----------------------------------------------------------------------------
Waking ==
    \/ Wake \/ WakeVerified \/ WakeMaterialized \/ WakeResumed
    \/ WakeRefused \/ WakeReprobed
    \/ \E p \in {"wake", "alarm"} : TornDown(p) \/ Synced(p)

Recovering ==
    \/ RecoverDestroyed \/ RecoverEnds
    \/ \E p \in {"alarm", "health", "rpc"} : Joined(p)

Alarms ==
    \/ AlarmEmpty \/ onWakeRetryDeadline \/ onWakingDeadline
    \/ onLivenessDeadline \/ onColdDeadline \/ onCredentialDeadline
    \/ onTierDeadline

Checking == healthCheck \/ \E p \in {"alarm", "health"} : Probed(p)

Sleeping ==
    \/ sleepNow \/ deepSleepNow \/ TierSlept \/ RpcSlept
    \/ \E p \in {"alarm", "rpc"} :
         SleepRefused(p) \/ SleepProbed(p) \/ ResumedForCold(p)
    \/ \E p \in {"alarm", "rpc", "msg"} : FinalizeDestroyed(p) \/ FinalizeEnds(p)

Deleting == Delete \/ DeleteEnds
Requests == \E r \in Runs : enqueueRun(r) \/ stopRun(r)

Messages ==
    \E i \in Instances :
      \/ onHello(i) \/ SocketCloses(i) \/ onHeadAdvance(i)
      \/ onHeartbeat(i) \/ SupervisorFinal(i)
      \/ \E r \in Runs :
           onJournalFrame(i, r) \/ onRunStarted(i, r) \/ onRunCompleted(i, r)

Supervisor ==
    \E i \in Instances :
      \/ SupervisorExits(i)
      \/ \E r \in Runs : SupervisorStarts(i, r) \/ SupervisorContinues(i, r)

Substrate   == SubstrateCreates \/ \E p \in Tasks : SubstrateActs(p)
Environment == Crash \/ \E i \in Instances : Evict(i) \/ Drop(i)

Next == \/ Waking \/ Recovering \/ Alarms \/ Checking \/ Sleeping \/ Deleting
        \/ Requests \/ Messages \/ Supervisor \/ Substrate \/ Environment

Spec == Init /\ [][Next]_vars

-----------------------------------------------------------------------------
(* Fairness.  Every call of the substrate is bounded, so an operation that *)
(* waits goes on; the runtime delivers every alarm, and alarm() runs every *)
(* deadline that is due, so none is starved by the others (SF).  Nothing   *)
(* is assumed of clients, of faults, or of the supervisor.                 *)

Proceeds(p) ==
    \/ /\ p = "wake"
       /\ \/ WakeVerified \/ WakeMaterialized \/ WakeResumed
          \/ WakeRefused \/ WakeReprobed
    \/ p = "recover" /\ (RecoverDestroyed \/ RecoverEnds)
    \/ p \in {"alarm", "health"} /\ Probed(p)
    \/ p = "alarm" /\ TierSlept
    \/ p = "rpc" /\ (RpcSlept \/ DeleteEnds)
    \/ p # "wake" /\ Joined(p)
    \/ TornDown(p) \/ Synced(p) \/ SleepRefused(p) \/ SleepProbed(p)
    \/ ResumedForCold(p) \/ FinalizeDestroyed(p) \/ FinalizeEnds(p)

(* A supervisor whose connection is dead stops having spoken recently.     *)
SilenceIsProbed ==
    /\ onLivenessDeadline
    /\ sup = 0 \/ ~inst[sup].conn
    /\ task'["alarm"].pc \in {"probe", "join"}

Fairness ==
    /\ \A p \in Tasks : WF_vars(Proceeds(p)) /\ WF_vars(SubstrateActs(p))
    /\ WF_vars(SubstrateCreates)
    /\ SF_vars(onWakingDeadline) /\ SF_vars(onColdDeadline)
    /\ SF_vars(onLivenessDeadline) /\ SF_vars(SilenceIsProbed)
    /\ SF_vars(onTierDeadline)

LiveSpec == Spec /\ Fairness

-----------------------------------------------------------------------------
(* Properties that hold.                                                   *)

Quiet    == \A p \in Tasks : task[p].pc = "idle"
Handling == task["alarm"].pc # "idle"
Served   == m.state \in {"awake", "warm"} /\ ~deleted
Watched(name) == name \in m.armed /\ disk.alarm

(* An instance only ever carries an epoch that storage already holds, so   *)
(* no restart of the object can mint it again, and no two instances carry  *)
(* the same one, so at most one supervisor can pass the fence: the minting *)
(* of wakeInner (persist and arm before materialize).                      *)
GenerationsFenced ==
    ~deleted => \A i \in Instances : inst[i].st # "none" =>
        /\ inst[i].epoch <= disk.meta.epoch
        /\ \A j \in Instances \ {i} : inst[j].epoch # inst[i].epoch

(* Why: what memory and storage hold agrees on the generation, no head is   *)
(* younger than it, and a materialize that has been asked for will create  *)
(* an instance of a generation no other instance has (wakeInner persists   *)
(* before it calls; every later write carries the epoch along).            *)
Due == task["wake"].pc = "materialize" /\ ~task["wake"].done
Fenced ==
    ~deleted =>
      /\ disk.meta.epoch = m.epoch
      /\ disk.meta.head <= m.head /\ m.head <= m.epoch
      /\ \A i \in Instances : /\ inst[i].epoch <= m.epoch
                              /\ inst[i].st # "none" => inst[i].epoch # 0
      /\ \A i, j \in Instances :
           i # j /\ inst[i].epoch = inst[j].epoch => inst[i].epoch = 0
      /\ Due => /\ m.epoch # 0
                /\ \A i \in Instances : inst[i].epoch # m.epoch

(* The durable head is never replaced by one an older generation wrote,    *)
(* whatever frames a fenced-out supervisor still has in flight and         *)
(* wherever the object crashes (onHeadAdvance, onSnapshotWritten).         *)
HeadNeverGoesBack ==
    [][disk'.meta.head >= disk.meta.head \/ deleted']_vars

(* WAKING is a transition: either a wake is in flight in this object's     *)
(* memory or the watchdog deadline is armed (failWake, onWakingDeadline    *)
(* and the constructor).                                                   *)
WakingIsWatched ==
    m.state = "waking" /\ ~deleted =>
        task["wake"].pc # "idle" \/ Watched("waking") \/ Handling

(* Something is coming: a deadline, an operation that goes on, or an end.   *)
Coming(name) == name \in m.armed /\ (disk.alarm \/ Handling)
Ending == \E p \in Tasks : task[p].pc = "destroy"

(* While the object waits for a final manifest the handshake's deadline is *)
(* armed (beginCold, touch, onHello: THE HANDSHAKE GETS A DEADLINE).       *)
HandshakeIsWatched ==
    m.state # "cold" /\ ~deleted /\ m.coldPending => Coming("cold")

(* An AWAKE computer whose supervisor was lost keeps the deadline that     *)
(* will ask the substrate, across every touch and re-arm                   *)
(* (onSupervisorLost, armLiveness), unless it is being asked.              *)
LossIsWatched ==
    m.state = "awake" /\ ~deleted /\ m.lost =>
        Coming("liveness") \/ task["alarm"].pc = "probe" \/ Ending

(* An AWAKE computer has the deadline of its tier, or of the handshake it  *)
(* is in, unless the tier's is being served (armTier, touch, wakeInner).   *)
AwakeIsWatched ==
    m.state = "awake" /\ ~deleted /\ ~m.coldPending =>
        \/ Coming("tier") \/ Ending
        \/ task["alarm"].pc \in {"sleep", "sleepProbe", "resumeCold"}

(* An alarm finds a recovery in flight, and the computer it recovered is   *)
(* COLD already: the one that the alarm is about is another generation.    *)
JoinsOlder == task["recover"].pc = "settled" /\ task'["alarm"].pc = "join"

(* Nothing the computer waits for is forgotten by a step of any operation: *)
(* what is watched stays watched for as long as it is waited for.  Two     *)
(* things are apart: an alarm that waits for a recovery which is over but  *)
(* for its write to D1 and does nothing after it (#recover hands out the   *)
(* promise in flight), and the late answer of a sleep, which may make a    *)
(* COLD computer WARM.  A restart loses what the alarm had cleared.        *)
EveryWaitIsWatched ==
    [][ /\ LossIsWatched => LossIsWatched' \/ JoinsOlder
        /\ AwakeIsWatched => AwakeIsWatched' \/ JoinsOlder
        /\ HandshakeIsWatched /\ m.state # "cold" => HandshakeIsWatched' ]_vars

(* However COLD was reached (a failed wake, a recovery, a finalize),       *)
(* nothing of the generation is left: no resource and no token.            *)
ColdIsEmpty == m.state = "cold" /\ Quiet => m.handle = 0 /\ m.token = 0

(* A run of which nothing was heard has been handed to one supervisor,     *)
(* plus one for each time it was taken back (dispatchQueued's latch,       *)
(* degradeInFlightRuns).                                                   *)
HandedOnce ==
    ~deleted => \A r \in Runs : ~run[r].began /\ run[r].status # "interrupted" =>
        Cardinality({i \in Instances : ph[i][r] # "none"}) <= 1 + run[r].requeues

(* A completed run is never degraded, re-queued or restarted by a late     *)
(* frame, a recovery or a finalize (onRunStarted, degradeInFlightRuns).    *)
CompletedRunsStay ==
    [][\A r \in Runs : run[r].status = "completed" =>
         run'[r].status = "completed" \/ deleted']_vars

(* Activity does not call off a credential rotation that has begun: it     *)
(* ends with the generation (touch, rotationPending).                      *)
RotationStands ==
    [][m.rotation /\ m.coldPending /\ ~m'.coldPending =>
         \/ m'.state # m.state \/ m'.handle = 0
         \/ \E p \in Tasks : task'[p].pc = "destroy"]_vars

(* A wake ends, whatever the substrate answers and even if the object is   *)
(* restarted in the middle of it (the watchdog).                           *)
WakingEnds == m.state = "waking" ~> m.state # "waking"

(* A handshake ends even if the supervisor never answers (onColdDeadline). *)
Handshaking   == Served /\ m.coldPending
HandshakeEnds == Handshaking ~> ~Handshaking

(* An instance that vanished under pending work is noticed, also when its  *)
(* socket never closes: by the health check (onLivenessDeadline's probe    *)
(* and strikes), or by the tier deadline's sleep where none is armed.      *)
GoneUnderWork == /\ m.state = "awake" /\ pendingWork(run)
                 /\ m.handle # 0 /\ inst[m.handle].st = "gone"
LossIsNoticed == GoneUnderWork ~> ~GoneUnderWork

-----------------------------------------------------------------------------
(* What the repository says of the program, and the program does not do.   *)
(* No run checks these; the README says what happens instead.              *)

(* onTierDeadline: WARM is a machine that sleeps.  The answer of a sleep    *)
(* that comes after another generation was woken makes that one WARM, and  *)
(* a resume that was carried out and reported failed leaves WARM behind.   *)
WarmIsNotRunning ==
    m.state = "warm" /\ ~deleted /\ Quiet /\ m.handle # 0 /\ ~m.coldPending =>
        inst[m.handle].st # "up"

(* contracts.md 6.1: each wake hands the new Epoch to the supervisor.  A   *)
(* resumed one keeps the environment of the generation before it.          *)
ResumedIsCurrent ==
    m.state = "awake" /\ Quiet /\ m.handle # 0 => inst[m.handle].epoch = m.epoch

(* failWake and wakeInner: an instance the object forgets is an orphan.    *)
(* A finalize that was waiting for its destroy while a wake went through   *)
(* forgets the new generation's instance.                                  *)
NoOrphan ==
    ~deleted /\ Quiet => \A i \in Instances :
        inst[i].st \in {"up", "slept"} /\ inst[i].epoch = m.epoch => m.handle = i

(* app.ts: a run on a computer that is not AWAKE is itself a wake.  One    *)
(* asked of a WARM computer goes to the supervisor that is frozen.         *)
RunIsNotFrozen ==
    m.state = "warm" /\ ~deleted /\ Quiet /\ pendingWork(run) => "wakeRetry" \in m.armed
=============================================================================
