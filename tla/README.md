# A verification development of mari-cloud

Mari gives each user *computers* that sleep when nobody uses them: a Durable
Object per computer (`packages/control-plane/src/computer-do.ts`) coordinates a
substrate (Docker, Cloudflare Containers, Box, Sprites) and a supervisor, `marid`
(`crates/marid`), that runs inside each instance. This directory holds TLA+
models of the parts of that system in which the order of things matters, the TLC
configurations that check them and TLAPS proofs about them. File and line
references are relative to the repository's root.

Contents: [the system](#the-system), [the modules](#the-modules),
[the runs](#the-runs), [fairness](#fairness), [the proofs](#the-proofs),
[what the models show that the code does not say](#disagreements),
[what is not modelled](#not-modelled), [the plan](#the-plan),
[running it](#running-it).

## The system

| Component | State it keeps | Operations | Hard because | Modules |
|---|---|---|---|---|
| **Computer lifecycle**, `computer-do.ts` | `Meta` (COLD / WAKING / AWAKE / WARM, epoch, token, handle, head, six deadlines, counters), the runs table, `#supervisor`, `#authEpoch`, promises in flight | `wake`, `sleepNow`, `deepSleep`, `healthCheck`, `deletePermanently`, `enqueueRun`, `stopRun`, `alarm`, the supervisor's messages | every operation awaits the substrate, and the others run meanwhile; the object may restart at any await; an alarm slot is cleared before its handler has run | `ComputerDO` |
| **Journal**, `computer-do.ts`, `marid/src/journal.rs`, `supervisor.rs`, `continuation.rs` | the run's buffer and base, the `sent` mark of each connection, `acked`; the coalescing buffer, `journal`, `journal_head`, `journal_anomaly` | append, stream, ingest at an offset, flush, acknowledge, resume, continue in a later generation | frames of an old socket arrive after a new one has resumed; the buffer is lost with the object; a continuation starts where *any* surviving copy ends | `JournalIngest`, `JournalPromise` |
| **Substrate drivers**, `substrate.ts`, `substrates/*`, `node/substrate.ts` | the provider's machine, what the driver last polled | materialize, sleep, wake, destroy, instanceStatus, holdAwake; the choice of a driver | a call that was given up on is carried out all the same; a platform reports late or wrongly | `SubstrateProvider`, `Substrates`, five drivers |
| **Fleet API and limits**, `app.ts`, `db/fleet.ts`, `limits.ts`, `usage.ts`, `handler.ts` | rows of computers, lineage, vault, ledgers | create, fork, wake, sleep, delete, secrets, metering | check, then act, across awaits; a route cut between two stores | `Fleet`, `Metering` |
| **Review of runs**, `computer-do.ts`, `runs.ts` | each run's `pre` and `post`, dispositions, the head, what is on the disk | keep, revert, head advances | a verdict yields while the supervisor reports | `Review` |
| **Stores of the control plane**, `manifest-store.ts`, `diff.ts`, `r2-credentials.ts` | the account's chunk root; a generation's credential | bootstrap, list, read, compare; compose, rotate | copies are cut and overlap; a credential outlives or underlives its generation | `ManifestStore`, `StoreCredentials` |
| **Chunk store core**, `crates/mari-core` (and marid's revert) | chunks, manifests; the computer's tree | snapshot, collect; walk, read, prune, restore | a sweep planned earlier meets snapshots under way; a tree changes while it is read, and is of any shape when it is reverted | `ChunkStore`, `RootTree` |
| **Supervisor**, `marid/src/*` | runs, journals, the disk | start, stop, snapshot, revert, continue, prepare_for_cold, shutdown | a shutdown races the socket, a continuation follows a crash | parts of `ComputerDO`, `JournalIngest`, `ChunkStore`, `RootTree` |
| **Wire protocol**, `packages/shared`, `mari-proto` | a frame reader's buffer | encode, validate, reassemble | integer widths at either end | `Wire` |
| **Fleet events**, `events-do.ts`, `web/src/events` | the hub's sequence, a stream, the client's model | emit, fan out, drop, reduce, merge with REST | emissions overtake each other, the hub restarts | `EventStream` |
| **Web client**, `packages/web` | attach offset, queued input; the pane tree, the saved layout | attach, reconnect; split, close, move; restore, save | answers come late, twice or never | `Terminal`, `PaneTree`, `Workspace` |
| **Node runtime**, `node/*` | the alarm's row and timer; files; one SQLite connection | set, fire, retry, revive; put, list, delete; batch | the row is gone before the handler ran; requests interleave inside a transaction | `NodeAlarm`, `NodeStore` |
| **Authentication**, **deployment and end-to-end harness** | | | not control of the running system, or a library's | none |

Who talks to whom: a browser calls the fleet API (`app.ts`), which checks the
account's rows and calls the computer's object. The object calls the substrate and
waits, at most for the bound of `#bounded`. The instance that `materialize`
creates runs a marid with the computer's epoch and token in its environment; marid
connects back over a WebSocket, says `hello`, is given the queued runs, and
reports runs, journal frames, snapshots and head advances. The runtime calls
`alarm()`, which looks at the six deadline slots. The object emits events to the
user's `EventsDO` without waiting; browsers follow those and attach to terminals
through the object. A snapshot goes from marid straight to the chunk store, which
the control plane only reads, copies into and deletes from.

What makes each part correct:

- *Lifecycle.* At most one supervisor passes the fence; the head never goes back
  to an older generation; no state the computer rests in is without something
  that will look at it again; a run is handed out once; COLD means nothing is
  left; what vanishes is noticed.
- *Journal.* The durable journal is what the run printed, byte for byte, until a
  hole is recorded; no ack passes the run's end; what is printed becomes durable.
- *Drivers.* A call that resolves saw the state it promises; what a failed call
  left is not left billing; a new generation never gets the old one's machine.
- *Fleet.* The cap holds; a delete leaves nothing; what is browsed is what a wake
  restores; a month's compute is counted once.
- *Review.* A reverted run's changes come back only by another verdict.
- *Stores.* A root holds a manifest's chunks before the manifest; a head's chunks
  survive collection; a revert that reports success made the tree the manifest's.
- *Interfaces.* Output and input once and in order; the interface does not step
  back; a message is heard as it was sent or not at all.

## The modules

### `ComputerDO`: the lifecycle of one computer

The object, its substrate and the marid of each instance, in one module because
their interleaving is the question. `MCComputerDO` is the module TLC is run on.

*State.* `m` is `Meta` in memory; `disk` is what storage holds, the persisted
`Meta` and the one alarm of the object. `run` is the runs table. `sup` and `auth`
are `#supervisor` and the keys of `#authEpoch`. `task` holds the operations
suspended at an await: one for each promise the code keeps (`#wakeInFlight`,
`#recoveryInFlight`, the alarm, a health check, one client RPC, one message
handler), with the program counter and what was read before the await. `inst` and
`ph` are the instances, the supervisor in each, and how far each run got there.

*Actions.* A Durable Object is single threaded, and its own storage is gated, so
other events get in only where a handler awaits the outside: the substrate, D1,
or another operation's promise. One action is one stretch between such awaits;
the whole handler is there, its trailing `#armAlarm` and `#persist` included. The
substrate acts on its own (`SubstrateActs`, `SubstrateCreates`), so a call can be
given up on (`Unknown`) before or after it was carried out.

*Abstractions.* Time is absent: an armed deadline may be due at any moment, one
slot per alarm. A manifest is the epoch of the generation that wrote it; a token
is the epoch it was minted with. `stale` is `armedIdleSince /= idleSince`. The
age of a booting instance and "the supervisor spoke recently" are
nondeterministic. An instance has one socket. A write to D1 is an await only
where state follows it (`"sync"`, `"settled"`). `holdAwake` changes no state here
and is left out. Since the object's storage is gated, the persist of WAKING and
that of the mint (1072 and 1102) are one step.

### `JournalIngest` and `JournalPromise`: the journal of one run

`JournalIngest` follows one run's bytes from marid's PTY reader to the `journal`
table. Both sides keep all of this state per run and share only the socket, so
one run is the general case. `truth` is what the run printed as its latest life
continues it; `base`, `acked`, and `sent` in each `conn` are marid's;
`durable`, `pending` and `anomalies` are the object's. All bytes are distinct,
so a byte tells which life printed it and at which offset: a shifted or repeated
byte is visible, and "the bytes differ" is exact. `flush_journals` sends one
frame per step. A socket that marid has left may still deliver what is on it, and
is then closed. `nextGeneration` asks for an empty buffer: FLUSH_MS is 100 ms, and
a boot is longer. The segments on the disk, those in the store and the run's
record are one number, `stored`; it may be ahead of the control plane, which is
what a shutdown while disconnected (`offline_shutdown`) leaves behind.

`JournalPromise` is the abstract specification: a log `durable` that is a prefix
of `produced` and grows, until `holed`; a continuation may forget output but none
that is durable. `JournalIngest` implements it, with `holed` read as "a gap is in
`journal_anomaly`" (`PromiseKept`).

### The drivers: `SubstrateProvider` and its five implementations

`SubstrateProvider` is the abstract specification: one resource behind a handle
(`gone`, `warm`, `up`, `awake`), which the platform may change at any time, and one
call at a time. A call may fail; one that resolves has *seen*, at some moment
between its start and its end, the state it promises. `BoxDriver`,
`CloudflareDriver`, `DockerDriver`, `SpritesDriver` and `FakeDriver` are the
drivers request by request, each over its platform's own states: archiving and
provisioning boxes that answer 409, a container whose `running` flag lags by
minutes, a daemon without timeouts, a sandbox that suspends by itself. Each
implements the contract (`PromiseKept`). `Substrates` is the registry: the choice
by price, capacity and latency (the first best index; `NotDominated` compares it with
Pareto dominance),
the driver promise that is kept even when it was rejected, the routing of a
handle, and one driver per behaviour.

### The account: `Fleet`, `Metering`, `Review`

`Fleet` is `app.ts` over `db/fleet.ts`. A request is a record with the await it is
at (`at`); one action is the stretch between two awaits, a D1 statement, a call on
an object or a store operation, any of which may fail, and the request may be cut
there. Objects are reduced to what the routes read: state, head, handle. `excused`
names the computers on which a delete overlapped another request.

`Metering` closes AWAKE stretches, cuts them at months, and hands the slices to
two ledgers in the background; a write that fails ends its chain. `Review` is
`keepRun` and `revertRun` against the reports of the supervisor that owns the disk;
a manifest is the set of runs whose changes it holds, so "the change came back" is
set membership. `RevertedStays` says of a run that is reverted, and that nothing still
under way carries, that it stays so until another run's finish or revert moves the head.

### The stores: `ManifestStore`, `StoreCredentials`, `ChunkStore`, `RootTree`

`ManifestStore` is the bootstrap of an account's root, a put at a time, and the
routes that list, read and compare manifests without a wake; the listing is
compared with the walk it stands for, the diff with set difference.
`StoreCredentials` composes what a generation opens its store with: the prefixes
(paths are sequences of characters, so that one id may begin with another) and the
life of the temporary credential against the rotation deadline.

`ChunkStore` is mari-core's snapshot, existence check by existence check and upload
by upload, against the collector: `plan_at` (`Mark`, `List`), `execute` (`Execute`,
then one `Sweep` per candidate). Content is a set of chunks, a manifest its parent
and its chunks. Nothing under `src/` calls the collector yet, so which manifests
are retained (every computer's head) and that a plan is executed once come from
its documentation. `exposed` is a history variable: the chunks of each head that a
sweep may have taken because the two overlapped.

`RootTree` is one computer's tree: `Walk` and `ReadFile` on a live tree (`Edit` in
between), then the supervisor's revert: `PruneEntry` in the walk's order, the
passes of `restore`, and the answer. A node is a kind and a body. `barred` holds
what the kernel refuses: a removal, or the opening of a directory.

### The interfaces: `Wire`, `EventStream`, `Terminal`, `PaneTree`, `Workspace`

`Wire` sends a message with one field of any value through a stream cut anywhere,
as the CBOR encoder, the validators and `mari-proto`'s widths treat it.
`EventStream` follows one run and its computer from `#emit` to the row the page
shows. `Terminal` is the attach client and the object's client channel, an output
byte being its offset. `PaneTree` keeps the binary tree of `wm/tree.ts` as two
functions on paths, and computes rectangles in integers. `Workspace` is the layout
in one browser tab: store, restore and persist effects, query cache, saves.
`SavedLayouts` is the layout an earlier page saved.

### The private instance: `NodeAlarm`, `NodeStore`

`NodeAlarm` is the row, the timer, the handler and its retry, with crashes and the
revival at boot: the environment that `AlarmAtLeastOnce` stands for in
`ComputerDO`. `NodeStore` is the object store on a file system (a put is a
temporary file and a rename; listing by pages while the supervisor writes) and the
database's batches on one connection.

### Compositions and instances

`Services` composes the eleven parts that share no state with one another or with
the lifecycle (metering, manifests, credentials, terminal, events, alarm, disk,
wire, workspace, chunks, tree). A behaviour has one of them in `focus`; the
variables of the others are `None`. So one run checks each of them over its whole
state space, and nothing is lost, because no action reads another part's state.
`Substrates` composes the drivers in the same way. `MCComputerDO`, `MCJournalIngest`,
`MCSubstrates`, `MCFleet`, `MCReview`, `MCWorkspace`, `MCServices` hold the
instances TLC is run on.

## The runs

| Run | Constants that matter | Shows |
|---|---|---|
| `evictions` | two evictions or broken sockets, no commands | `TypeOK`, `HandedOnce`, `EveryWaitIsWatched`, `CompletedRunsStay` |
| `restarts` | one restart at any await; stop, deep sleep, health check | `GenerationsFenced`, `Fenced`, `HeadNeverGoesBack` |
| `refusals` | one refused or unanswered substrate call; wake, sleep, delete | `WakingIsWatched`, `ColdIsEmpty` |
| `rotation` | no WARM, expiring credentials, one restart, fair | `RotationStands`, `WakingEnds` |
| `losses` | one eviction or broken socket, fair | `LossIsNoticed`, `HandshakeEnds` |
| `journal` | two lives, three sockets, one restart, one failing flush, fair | `InPlace`, `NeverPastEnd`, `DivergesOnlyHoled`, `Delivered`, `PromiseKept` |
| `drivers` | five drivers, two polls to a deadline, three generations, fair | `NotDominated`, `PromiseKept`, `NotLeftBilling`, `NewGeneration`, `CallsReturn` |
| `fleet` | two computers, two requests, caps 0 and 1, one failure or cut | `UnderCap`, `LeftOnlyByOverlap`, `BrowsedIsRestored` |
| `review` | two runs, two verdicts, one snapshot in flight, one fault, two generations | `RevertedStays` |
| `services` | see `Services.cfg` | `Accounted`, `PublishedWhole`, `BrowsedAsWritten`, `CredentialStands`, `OnceInOrder`, `AlarmStands`, `StoreIsWhole`, `HeardAsSent`, `NeverStepsBack`, `LayoutStands`, `HeadsRestore`, `RevertIsExact` |
| `attach_hole`, `layout_reverts` | each the least that is needed | a statement of the repository that the code does not keep, see below |

*Bounds of the lifecycle.* `MaxEpoch = 2`: two generations are what every fencing
question needs, the current one and one that was fenced out; a third only repeats
the second. One run: runs do not interact except through `pendingWork`, which one
run decides. One or two faults: each hazard is one fault against an ordinary
schedule, and evictions need two to lose an instance and then its successor.
`MaxStrikes = 2` separates the first strike from the verdict, `MaxStreak = 1` and
`WakeRetries = 1` separate "again" from "given up"; the rotation run has
`MaxStreak = 0` to keep its liveness check small, and the refusals run
`MaxStrikes = 1`, since none of its properties depends on how a loss is
established. `BeginWake` stops at `MaxEpoch`: with the generations used up a
computer stays COLD, which no property depends on.

*Bounds of the journal.* `MaxBytes = 2` with `FrameChunk = 2` has frames that are
partly held, wholly held and beyond the head; three sockets leave frames in flight
on the first two. The safety part was also run with `MaxBytes = 3` with the same
result, and is proved for every value.

*Bounds of the others.* `Fleet`: two requests meet at every pair of awaits, and
the second computer is the one a fork makes; a cap of 1 is the least that two
creations can exceed, and a cap of 0 refuses. `Review`: two runs so that a revert
of one can bring back the other. `Metering`: months of one tick, so that every
stretch crosses one. `NodeStore`: three keys and pages of one, so that a page's
cursor can be deleted under it. `Wire`: widths 3 < 9 < 15 stand for 2^16, 2^32 and
2^53, every value up to and past each is sent. `Workspace`: two edits to a page on
four panes, and a stored grid of four. `ChunkStore`: two computers, two chunks, two
snapshots, a window of one second on a clock of three values, so that a chunk can
be older and younger than the window both at the plan and at the sweep. Its safety
was also run with three snapshots and three chunks (12.5 million states), and is
proved for every value. `RootTree`: five names two levels deep with a glob on a
file and on a directory, five trees to start from, two edits anywhere.

*Symmetry* is used where only safety is checked and the set is of interchangeable
model values: computers, requests and runs in `fleet` and `review`, the accounts'
computers and the snapshotting supervisors in `services`.

*Deadlock* is not checked: a COLD computer nobody asks for does nothing, a request
that was answered is over, and a bounded number of edits ends.

## Fairness

`ComputerDO`'s liveness assumes three things of the platform. (1) A substrate
call ends: `#bounded` gives it up otherwise, hence weak fairness of
`Proceeds(p)` and of what the substrate does. (2) An alarm is delivered, and
which of the due slots its handler takes is not always the same one: the slots
are handled in the order of their time, so a slot that stays armed is the
earliest at some point; hence strong fairness of each deadline's handler. (3) A
dead socket stops speaking, so a liveness deadline that comes round forever finds
it silent at some point (`SilenceIsProbed`). Nothing is assumed of clients, of
supervisors, or of faults.

`JournalIngest` assumes that marid's loop reconnects and streams, that a socket
that is up delivers, and that the flush timer fires. Faults are bounded, so the
last socket stays up: the claim is "once the network holds for long enough".
Printing, segment uploads and continuations are not fair.

`Substrates` assumes that a driver whose call is under way takes its next step
(weak fairness of `DriverStep`): every request it makes is awaited with a deadline
or answered by the platform, and the platform may answer anything. The other
modules check safety only and state no fairness.

## The proofs

| Module | Theorems | Assumptions |
|---|---|---|
| `ComputerDOProofs` | `TypeCorrect`, `FencedAlways`, `GenerationsFencedAlways`, `HeadNeverGoesBackEver`, `CompletedRunsStayEver`, `HandedOnceAlways`, `WakingIsWatchedAlways`, `ColdIsEmptyAlways`, `RotationStandsEver`, `EveryWaitIsWatchedEver` | `ConstAssumption`; `ColdIsEmptyAlways` and `EveryWaitIsWatchedEver`: no restarts (`"crash" \notin Faults`) |
| `JournalIngestProofs` | `InPlaceAlways`, `NeverPastEndAlways`, `DivergesOnlyHoledAlways`, `PromiseKeptAlways` | the module's constants are natural numbers |
| `FleetProofs` | `LeftOnlyByOverlapAlways`, `BrowsedIsRestoredAlways`, `UnderCapAlways` | `Fleet`'s |
| `ReviewProofs` | `RevertedStaysEver` | `Review`'s: bounds are natural numbers, `None` is no run |
| `SubstratesProofs` | `PromiseKeptAlways`, `NotLeftBillingEver`, `NewGenerationEver`, `NotDominatedAlways` | `Substrates`': bounds and profiles are natural numbers, some candidate has a profile |
| `ServicesProofs` | `AlarmStandsAlways`, `StoreIsWholeAlways`, `NeverStepsBackEver`, `OnceInOrderAlways`, `HeardAsSentAlways`, `NeverClobbersEver` | `NoneIsNoTime`; `KeysAreOrdered`; none; `CapIsNatural`; `WidthsAreOrdered`; none |
| `StoreProofs` | `PublishedWholeAlways`, `CredentialStandsAlways`, `HeadsRestoreAlways`, `RevertIsExactAlways`, `AccountedAlways`, `BrowsedAsWrittenAlways` | none; `TimesAreNatural` and `NamesAreSegments`; `SecondsAreNatural`; `NamesAreATree` and `StartsAreTrees`; `TicksAreCounted`; `ManifestsAreTrees` |
| `WorkspaceProofs` | `LayoutStandsEver` | `PanesHaveRoom` and `StoredAreLayouts` |

The modules `Services` instantiates state what a theorem needs of their constants as
named operators, and the theorem assumes them; `MCServices` has an `ASSUME` that
the ones of the manifests, the disk, the tree, the metering, the wire and the layouts
hold of the instance that is checked. All theorems hold for any size of the sets and any value of the bounds.

*Lifecycle, the fence.* `GenerationsFenced` is not inductive: an instance is created
after the await of `materialize`, so what matters is that the epoch of a
*pending* materialize is durable and unused. `Fenced` adds that: memory and
storage agree on the epoch, no head is younger than it, and if a materialize is
due, no instance has the current epoch. The proofs never look at most of the
code's control. Each step is first classified: it leaves the epoch and head alone
(`Mem`), mints the next epoch in memory and storage at once (`Mint`), advances
the head to the current epoch, deletes the computer, or creates the instance that
was due. One lemma per handler shows its class (the `*Mem`, `*Step` lemmas), and
`NextStep` collects them; `KindFenced` and `KindHead` then are about the classes
only. `TypeCorrect` comes from the same lemmas.

*Lifecycle, the control.* Three more questions, each with an invariant of its own. For
`HandedOnce`, `InTurn`: the instances that may have been handed a run nothing was heard
of are at most its re-queues, and one more once it left the queue (`Turns`). For
`WakingIsWatched`, `ColdIsEmpty` and `RotationStands`, `Control`: what each operation
suspended at an await still has in hand (`Awaited`), what is left of a computer that
has been emptied (`Emptied`), and where memory may run ahead of storage (`Kept`); one
lemma per handler shows that its step leaves enough behind (`Leaves`, `Leaving`), one
lemma that this is enough. For `EveryWaitIsWatched`, `Attended`: `Owed` is what is
waited for with no deadline armed, and then the alarm's handler is at work on it
(`Serves`); each handler's step attends to it or hands it on (`Attends`, `Watches`).
`ColdIsEmpty` and `EveryWaitIsWatched` fail with restarts, which is a fact about the
code (see below), so their theorems assume none.

*Journal.* `InPlace` says nothing of what is in flight, and a frame in flight is
what breaks it. `JInv` adds that every frame of the current generation says what
the run printed at its own offset (`WiresTrue`), that no socket is of a generation
to come (`GensBehind`), and that until a generation has continued the run it has
sent nothing and has heard no offset but the durable one (`Quiet`, `QuietWires`).
The refinement follows from the same invariant: a step of the socket maps to a
stutter, a flush to the abstract append, a continuation to the abstract forgetting.

*Fleet.* A delete goes through its stores in order, so the invariant says, for each
await of a delete, which stores it has left behind (`Sound`), that nothing but the
delete is on that computer unless it is `excused`, and that every instance and
object outside a row is accounted for by one request in flight.

*Review.* "A reverted run stays reverted" cannot be inductive while something that is
still to happen carries the run's changes: the disk, a snapshot in flight, a run under
way, the `post` of one that ended, a revert that has read its target. `Carried` names
those, and `Gone` is "reverted, and no head, disk or carrier holds it". `InTurn` says
what a verdict suspended at an await knows of its run, `Ended` that a run with a
verdict has ended. The step lemma `GoneStep` then has one case per action, and only
another run's finish or revert (`Verdict`) brings a change back.

*Drivers.* The contract is proved a step at a time: one lemma for each abstract
action (`Begins`, `Changes`, `Resolves`, `Rejects`, `Refuses`, `Drifts`, `Forgets`)
says which routed steps it stands for, given that `seen` holds what there is
(`Watched`). Each driver then has an invariant of which call may be at which request
(`BoxAt`, `CloudflareAt`, ...), kept by its steps, and one case per request that names
the abstract step. `NewGeneration` needs Cloudflare's invariant that a flag is false
only over an empty slot, and that a materialize past `replace` finds its own
generation or none, unless the destroy was late. `NotDominated` is arithmetic: every
factor follows what it measures (`FactorFollows`), the weighted terms grow with it
(`TermGrows`), so a candidate that is no worse scores no less; and some candidate is
`best` because finitely many scores have a greatest.

*Alarm.* A revival arms what is on disk, so row and timer have to agree also while
nothing is owed. *Bootstrap.* What a bootstrap is past is in the root, and no step
takes a chunk out of it. *Credentials.* The lead covers the wake's budget, within
which the materialize answers, and the handshake; two ids of which neither is a
segment's beginning of the other have disjoint prefixes (`SegmentsAgree`,
`BeginningsAgree`). *Events.* `Numbered`: what is on the stream is numbered
upwards and above all that was applied; `Rested`: the runs list shows a run finished
only when it is, and so does an answer on its way. *Disk.* `SweepInv`: of what was
under the prefix when the sweep began, and was not written since, all up to the cursor
is gone but for the page; `BatchInv`: at most one batch is under way, in the one open
transaction, and it has written as far as its position says. *Terminal.* `OutInv`: what
was shown lies below the offset applied, and a terminal without a grid was shown
nothing and gets its grid first. `InInv`: what was handed on, what is on its way
and what is kept follow one another (`Follows`), the kept is empty while the socket
is open and the way is empty while it is not; what the cap leaves of a queue is its
end, with the beginning of the first input cut (`TrimmedEnds`). *Metering.*
`Stretches`: what storage has as left open is what memory has, or ended since, and no
later than now. `Intervals`: what is on its way lies before the open stretch, and no two
writes to one ledger cover the same tick, so that taking one off the way changes what is
on it by that write's ticks. What is settled then changes only where a slice is charged,
by the slice's ticks (`OtherStepsStay`, `ChargeSettles`): a charge takes the first slice,
which lies in one month, off its stretch. The sums are counted out as cardinalities
(`Total`, `TicksIn`), since a fold cannot be reasoned about here. *Wire.* `WireInv`:
the buffer and what is still on its way are, put together, the frames not taken yet, so
where the stream is cut does not matter and the length the reader finds is the first
frame's (`PrefixIs`). What the guards take is no wider than a number holds
(`WideIsRefused`), so the far end makes of a message what its guard makes (`OutcomeIs`).

*Browsing.* A read that ends has verified every chunk it puts together (`BrowseInv`,
`BytesAreRead`), and two entries of one path are one entry, so what is answered is what
the manifest says. A name one below a directory is that path and its last segment
(`OneBelow`, `StrictlyBegins`), so every listing shows each entry of its directory, and
an entry's beginnings lead down to it (`WalkReachesAll`). 
*Workspace.* `TabInv`: a component that has read nothing has nothing to save, and a
page that was not edited shows what it was mounted with, or what was saved last; hence
`NeverClobbersEver`. The rest of `LayoutStands` is about the geometry of a layout. A
tree is taken as the set of the paths to its nodes, and what holds of the root and
passes to both slots holds of every node (`Descent`), what holds of the leaves and
passes to what they are slots of likewise (`Ascent`). A tree is no deeper than it has panes
(`Depth`), so no rectangle shrinks to nothing (`Room`); a part lies within its root's rectangle
(`Within`), two parts neither of which has the other do not overlap (`NoOverlap`), and
along every stretch of a node's edge lies a pane of it (`Bordering`), so that across
the edge of a split the nearest pane is one of the other slot (`Neighbours`,
`Crossing`). A set of panes that no move leaves has then all or none of the panes of
every part, and so of the whole (`AllReached`). `LayoutInv` says that a layout
is a tree of no more than `MaxPanes` panes wherever it is kept or on its way: in the store, in a
timer, in a queued save, in a read, in the Durable Object. Each operation makes a tree of a
tree; the hard one is the close, which grafts the sibling's part into the place of the
split (`Grafted`, `PromotedIsTree`). Edges are compared exactly here, in the code with
a tolerance of `EPS` (1e-6, `tree.ts:61`): the theorem is about layouts whose edges
are longer than that, which four splits at the least ratio (0.05) into one another still are,
and five are not.

*Collection.* The deletion of a chunk is safe because of what was decided at the
execution, and that because of what was seen at the plan. `CInv` follows it back: a
candidate is in the store until the sweep comes to it (`ListedIsThere`), so a
snapshot that found it missing had done so before it was written (`LackedIsLater`),
and the plan's age makes that snapshot as old as the window (`PlannedIsOld`); at
the execution, what is not spared is then of no head and, in every snapshot under
way, loose (`TakenIsLoose`). *Revert.* `Standing`: a name stands in a directory, on
the disk while processes write and in the manifest always; `Cleared`: a name the prune
is past, and the manifest does not hold, is gone or stands for something that remains;
`Restored`: what the passes of `restore` are past is as the manifest has it. At the
answer they make the tree the manifest's. The prune's order matters for `Cleared`: a
directory is come to after all that is in it.

Each property is checked by TLC before it is proved; the properties of the parts of
`Services` are checked in `services`, which states each under its focus. Every
action property and invariant of the lifecycle, the journal, the fleet, the review,
the drivers and the parts of `Services` that a run checks is proved. Only
model-checked: liveness (`WakingEnds`, `LossIsNoticed`, `HandshakeEnds`, `Delivered`,
`CallsReturn`), which is out of the prover's reach, as is `ENABLED`. The
least-number principle is at hand (`WFMin` of the well-foundedness module, in
`LeastOf` and `GreatestOf`), and replaces induction where a bound or a cardinality
can be counted down; induction over the data of a recursive definition is not done.

<a id="disagreements"></a>
## What the models show that the code does not say

Two of these have a run that produces the trace.

- `attach_hole`. An attach is answered with the whole journal as one frame at
  offset 0 (`computer-do.ts:3158`); the client drops a frame that begins below what
  it has applied (`attach.ts:241`). Output printed while the socket was down is not
  shown, though `terminal/status.ts:54` says "missed output replays".
- `layout_reverts`. A screen that is left and opened again restores the layout the
  page loaded with over the last change (`Workspace.tsx:58`), though `:91` says the
  last change is not cancelled.

### Without a run

The models below reach these too. They were met as counterexamples to properties
that were then weakened or dropped; definitions that state them are kept where the
name is given, and no run of this directory checks them.

*Lifecycle and journal* (`computer-do.ts`)
- A restart between the clearing of a slot and the end of its handler loses the
  deadline (3274); `HandshakeEnds` and `LossIsNoticed` fail with restarts for that
  reason.
- A WARM machine resumes with the epoch it booted with and its `hello` is fenced
  out (1105); a run asked of a WARM computer is sent to the frozen socket (1988).
- `WarmIsNotRunning` is false beyond small bounds: the answer to a sleep of an earlier
  instance marks the generation woken since as WARM (3510, no check after the await); a
  resume carried out but reported as failed leaves WARM with the machine up; so does a
  deep sleep's resume that overlaps the tier's sleep. A late answer may also make a COLD
  computer WARM, with a handshake pending and no deadline.
- A loss that is found while a recovery awaits its D1 write joins that recovery
  (`#recoveryInFlight`, 1450), whose alarm then ends with nothing armed (`JoinsOlder`
  exempts it).
- After a restart the teardown of a failed wake is forgotten, and COLD may hold a
  resource (`ColdIsEmpty` is checked and proved without restarts); a watchdog's
  teardown may forget the handle of a generation woken since.
- A finalize forgets the handle of a wake it overlapped (1421). A `wakeRetry` that
  fires while a settled wake still awaits D1 is consumed without a wake (1012). A
  deletion during a materialize has no handle to destroy (907).
- A supervisor that says hello during the liveness probe is replaced (3385); a late
  heartbeat leaves WARM with no deadline (3467).
- A run in `stopping`, or whose `run_started` is on its way, is re-queued and may
  start twice; a continued run is `running` again without a health check armed.
- A continuation above the durable head is appended at the head, and again at each
  reconnect (2734, `WrittenOnce`); a failed flush loses bytes on a socket that stays
  up (2888, `DeliveredAnyway`).

*Drivers.* Box: a wake answered 409 while archiving fails and leaves the machine
running. Docker: a failed start leaves the container; an exec reports 0 when its
inspect lags. A driver promise that was rejected stays cached. Cloudflare: a destroy
that times out counts as done (`cloudflare.ts:738`), and the old instance may answer
the next readiness probe.

*Fleet and metering.* A delete that overlaps a wake, run, secret or fork leaves an
instance, a vault entry or lineage (`NothingLeftBehind`; `db/fleet.ts:167` says
otherwise). A row can be listed and woken before its object has a head
(`app.ts:500`), and stays so when the creation is cut. A restart between the close
of a stretch and the persist charges it twice; a failed ledger write drops it; a
late one recreates the ledger row of a deleted computer.

*Review.* Two reverts, or a keep and a revert, both answer "applied". A revert
while a snapshot is in flight or the supervisor is away is undone by the next head
advance. A keep may move the head to an older manifest when the post-run snapshot
had failed (2096, 2116). A failed restore is only logged by marid.

*Stores.* A rotation deadline counts from the answer of `materialize`, not from the
mint; a resume from WARM re-arms it although the credential is older.
- `supervisor.rs:95-97` says a snapshot's exclusion and a revert's preservation
  "never drift". A snapshot leaves out all that is below a directory a glob matches,
  a revert preserves only the names that match: the contents of a directory named
  like `certs.pem` are deleted by a revert (`NeverDrift`).
- A removal the kernel refuses is counted in `refused`, which `revert_to_manifest`
  does not look at: the revert reports success with leftovers
  (`LeftoversAreReported`).
- A file in the manifest where the disk has a directory with an excluded child: the
  prune takes the refusal for expected, the restore fails, and the tree is left
  half-way.
- `gc.rs:286`, "never delete a chunk younger than the safety window": the age is the
  plan's, so a chunk that two snapshots found missing and one of them rewrote after
  the plan is deleted young (`YoungAreKept`).
- The comment of `gc.rs` narrows the race to heads that advance between the second
  collection and the last delete; a snapshot whose existence checks precede the
  deletes and whose head advances after the sweep has ended loses chunks as well
  (`OnlyAdvancedInSweep`).

*Interfaces and private instances.* A terminal attached after the run exited is
never told; input is dropped when the object has no supervisor. An `interrupted`
attention emitted before the run's failure is deleted by the reducer, a late one
stays on a finished run, a re-queued run is still shown running; publishes overtake
each other; a full stream is dropped. A layout's node ids start again at 1 after a
reload and collide with the restored ones; edits made while the layout is read are
not saved until the next change; saves of two mounts are unordered. A timer that
runs out while a handler runs is spent, a crash inside a handler loses the row, and
retries end. Statements of other requests run inside an open batch and roll back
with it. A frame longer than `MAX_FRAME_LEN` makes the reader throw on every later
message.

## Not modelled

- Authentication, deployment scripts, the end-to-end harness, the HTTP server and
  socket pair of a private instance, request parsing and validation of routes,
  prices: no control that these properties can see, or a library's.
- Previews, the terminal grid's cells, input prediction, the wake dialog, head
  history (it only feeds the diff routes), `obs`.
- In mari-core: the content-defined cutting, the delta and the heat profile, hard
  links, and the safety of paths against a hostile tree; a tree that changes during
  a revert; a walk of a snapshot that is itself interleaved with edits.
- In marid: PTYs, secrets, the heat-ordered cold restore, its state database.
- Exceptions out of a handler (a storage write that throws), apart from the flush.
- In `JournalIngest`: browsers that follow the journal, the limit of 200 anomalies,
  a marid restarted within its generation, and a flush that fails between its first
  and its last write.
- A crash between the two persists of a wake (1072 and 1102).

## The plan

1. `ComputerDO`, `JournalIngest`, `Fleet`, `Review`, the drivers, the parts of
   `Services`: done for TLC, as the tables above say.
2. Every safety property of a passing run is proved; what is added is proved with it.
3. `MaridSupervisor`: stop, shutdown paths and outbox as a module of its own, shown
   to implement the supervisor actions of `ComputerDO`.
4. Runs stay small in number: the counterexamples above get one when another gives
   way, `NeverDrift` first.

## Running it

    tlc -workers 2 -config Evictions.cfg MCComputerDO
    tlc -workers 2 -config Services.cfg MCServices
    tlapm ComputerDOProofs.tla

The longest runs are `Refusals` (4.4 million states), `Fleet` (4 million),
`Services` (2.5 million) and `Rotation` (a liveness check), each two to three
minutes; the rest end within about a minute. The proofs take up to a
quarter of an hour a module (`StoreProofs`).
