------------------------------- MODULE Services -------------------------------
(* The parts that work beside a computer's lifecycle: the metering of its hours,
   the manifests it is created from and browsed by, its store credentials, the
   terminal of a pane, the fleet's events, the Node runtime's alarm and disk, the
   frames of the supervisor's channel, a workspace tab, the chunk store with its
   collector, and the tree of a computer that is snapshot and reverted.  They share no state
   with one another, so a behaviour is of one of them, the focus it starts with. *)
CONSTANTS Computers, MonthLen, MaxTime, None, CapTicks, MaxLosses, MaxChains, Manifests,
          Tasks, MaxInline, MaxCuts, Owners, Ids, Ttls, Delays, WakeTimeout,
          ColdFinalize, MaxBytes, MaxTyped, MaxQueued, MaxDrops, MaxEmits, MaxInflight,
          MaxTicks, MaxBreaks, Retries, AlarmTime, MaxSets, Keys, Prefix, PageLimit,
          MaxPuts, Batches, MaxSingles, U16_MAX, U32_MAX, MAX_SAFE, HeaderLen, BodyLens,
          Specs, Stored, MaxEdits, MaxPanes, MaxFetches, MaxMounts, MaxLoads, Unit,
          Chunks, Makers, Contents, Images, Window, MaxSecs, MaxSnaps, Paths, ParentOf,
          Globbed, Starts, Bodies, MaxWrites

VARIABLES focus, now, since, stored, granted, chains, period, ledger, owed, losses,
          base, head, bodies, held, task, answer, cuts, env, owner, computer,
          generation, mintedAt, due, resumed, mintClock, ws, closed, sawGrid, applied,
          queued, shown, up, down, watched, journal, attached, typed, given, drops, run,
          waiting, comp, emits, pubs, clock, seq, turn, stream, records, model, got,
          rest, asked, breaks, alarmClock, process, live, row, timer, firing, failures,
          alarmOwed, excuse, sets, files, temps, puts, sweep, doomed, open, pending,
          effects, batch, singles, route, sent, lens, wire, buf, heard, layout, minted,
          inst, query, saves, remote, page, edits, fetches, loads,
          mtime, written, heads, snap, gc, secs, begun, exposed, tree, manifest, phase,
          todo, barred, walkErrors, before, edited

metering == <<now, since, stored, granted, chains, period, ledger, owed, losses>>
manifests == <<base, head, bodies, held, task, answer, cuts>>
credentials == <<env, owner, computer, generation, mintedAt, due, resumed, mintClock>>
terminal == <<ws, closed, sawGrid, applied, queued, shown, up, down, watched, journal,
              attached, typed, given, drops>>
events == <<run, waiting, comp, emits, pubs, clock, seq, turn, stream, records, model,
            got, rest, asked, breaks>>
alarms == <<alarmClock, process, live, row, timer, firing, failures, alarmOwed, excuse,
            sets>>
disk == <<files, temps, puts, sweep, doomed, open, pending, effects, batch, singles>>
channel == <<route, sent, lens, wire, buf, heard>>
tab == <<layout, minted, inst, query, saves, remote, page, edits, fetches, loads>>
collection == <<mtime, written, heads, snap, gc, secs, begun, exposed>>
root == <<tree, manifest, phase, todo, barred, walkErrors, before, edited>>
vars == <<focus, metering, manifests, credentials, terminal, events, alarms, disk,
          channel, tab, collection, root>>

Meter == INSTANCE Metering
Manifest == INSTANCE ManifestStore
Credentials == INSTANCE StoreCredentials
                 WITH given <- generation, minted <- mintedAt, now <- mintClock
Attach == INSTANCE Terminal
Events == INSTANCE EventStream
Alarm == INSTANCE NodeAlarm
           WITH now <- alarmClock, owed <- alarmOwed, MaxTime <- AlarmTime
Disk == INSTANCE NodeStore WITH stored <- effects
Channel == INSTANCE Wire
Tab == INSTANCE Workspace WITH chains <- saves
Chunk == INSTANCE ChunkStore
Tree == INSTANCE RootTree WITH MaxEdits <- MaxWrites

--------------------------------------------------------------------------------
(* Of the parts that are not in focus nothing is kept. *)
noMeter == now = None /\ since = None /\ stored = None /\ granted = None
           /\ chains = None /\ period = None /\ ledger = None /\ owed = None
           /\ losses = None
noManifest == base = None /\ head = None /\ bodies = None /\ held = None /\ task = None
              /\ answer = None /\ cuts = None
noCredentials == env = None /\ owner = None /\ computer = None /\ generation = None
                 /\ mintedAt = None /\ due = None /\ resumed = None /\ mintClock = None
noAttach == ws = None /\ closed = None /\ sawGrid = None /\ applied = None
            /\ queued = None /\ shown = None /\ up = None /\ down = None
            /\ watched = None /\ journal = None /\ attached = None /\ typed = None
            /\ given = None /\ drops = None
noEvents == run = None /\ waiting = None /\ comp = None /\ emits = None /\ pubs = None
            /\ clock = None /\ seq = None /\ turn = None /\ stream = None
            /\ records = None /\ model = None /\ got = None /\ rest = None
            /\ asked = None /\ breaks = None
noAlarm == alarmClock = None /\ process = None /\ live = None /\ row = None
           /\ timer = None /\ firing = None /\ failures = None /\ alarmOwed = None
           /\ excuse = None /\ sets = None
noDisk == files = None /\ temps = None /\ puts = None /\ sweep = None /\ doomed = None
          /\ open = None /\ pending = None /\ effects = None /\ batch = None
          /\ singles = None
noChannel == route = None /\ sent = None /\ lens = None /\ wire = None /\ buf = None
             /\ heard = None
noTab == layout = None /\ minted = None /\ inst = None /\ query = None /\ saves = None
         /\ remote = None /\ page = None /\ edits = None /\ fetches = None
         /\ loads = None
noChunk == mtime = None /\ written = None /\ heads = None /\ snap = None /\ gc = None
           /\ secs = None /\ begun = None /\ exposed = None
noTree == tree = None /\ manifest = None /\ phase = None /\ todo = None /\ barred = None
          /\ walkErrors = None /\ before = None /\ edited = None

Init ==
  /\ focus \in {"metering", "manifests", "credentials", "terminal", "events", "alarm", "disk",
               "wire", "workspace", "chunks", "tree"}
  /\ IF focus = "metering" THEN Meter!Init ELSE noMeter
  /\ IF focus = "manifests" THEN Manifest!Init ELSE noManifest
  /\ IF focus = "credentials" THEN Credentials!Init ELSE noCredentials
  /\ IF focus = "terminal" THEN Attach!Init ELSE noAttach
  /\ IF focus = "events" THEN Events!Init ELSE noEvents
  /\ IF focus = "alarm" THEN Alarm!Init ELSE noAlarm
  /\ IF focus = "disk" THEN Disk!Init ELSE noDisk
  /\ IF focus = "wire" THEN Channel!Init ELSE noChannel
  /\ IF focus = "workspace" THEN Tab!Init ELSE noTab
  /\ IF focus = "chunks" THEN Chunk!Init ELSE noChunk
  /\ IF focus = "tree" THEN Tree!Init ELSE noTree

meterNext == /\ focus = "metering" /\ Meter!Next
             /\ UNCHANGED <<focus, manifests, credentials, terminal, events, alarms, disk,
                            channel, tab, collection, root>>
manifestNext == /\ focus = "manifests" /\ Manifest!Next
                /\ UNCHANGED <<focus, metering, credentials, terminal, events, alarms, disk,
                               channel, tab, collection, root>>
credentialsNext == /\ focus = "credentials" /\ Credentials!Next
                   /\ UNCHANGED <<focus, metering, manifests, terminal, events, alarms, disk,
                                  channel, tab, collection, root>>
attachNext == /\ focus = "terminal" /\ Attach!Next
              /\ UNCHANGED <<focus, metering, manifests, credentials, events, alarms, disk,
                             channel, tab, collection, root>>
eventsNext == /\ focus = "events" /\ Events!Next
              /\ UNCHANGED <<focus, metering, manifests, credentials, terminal, alarms, disk,
                             channel, tab, collection, root>>
alarmNext == /\ focus = "alarm" /\ Alarm!Next
             /\ UNCHANGED <<focus, metering, manifests, credentials, terminal, events, disk,
                            channel, tab, collection, root>>
diskNext == /\ focus = "disk" /\ Disk!Next
            /\ UNCHANGED <<focus, metering, manifests, credentials, terminal, events, alarms,
                           channel, tab, collection, root>>
channelNext == /\ focus = "wire" /\ Channel!Next
               /\ UNCHANGED <<focus, metering, manifests, credentials, terminal, events, alarms,
                              disk, tab, collection, root>>
tabNext == /\ focus = "workspace" /\ Tab!Next
           /\ UNCHANGED <<focus, metering, manifests, credentials, terminal, events, alarms,
                          disk, channel, collection, root>>
chunkNext == /\ focus = "chunks" /\ Chunk!Next
             /\ UNCHANGED <<focus, metering, manifests, credentials, terminal, events, alarms,
                            disk, channel, tab, root>>
treeNext == /\ focus = "tree" /\ Tree!Next
            /\ UNCHANGED <<focus, metering, manifests, credentials, terminal, events, alarms,
                           disk, channel, tab, collection>>

Next == \/ meterNext \/ manifestNext \/ credentialsNext \/ attachNext \/ eventsNext
        \/ alarmNext \/ diskNext \/ channelNext \/ tabNext \/ chunkNext
        \/ treeNext

Spec == Init /\ [][Next]_vars

--------------------------------------------------------------------------------
(* Each AWAKE millisecond is in one place and in its own month (Metering). *)
Accounted == focus = "metering" => Meter!Accounted

(* No root names a chunk it does not hold (ManifestStore). *)
PublishedWhole == focus = "manifests" => Manifest!PublishedWhole

(* The manifest is browsed, read and compared as it was written (ManifestStore). *)
BrowsedAsWritten ==
  focus = "manifests" => Manifest!ServedWhole /\ Manifest!WalkReaches /\ Manifest!DiffIsExact

(* A generation's credential opens its own keys and no other's, and is rotated with
   the handshake ahead of it (StoreCredentials). *)
CredentialStands ==
  focus = "credentials" => Credentials!ScopedToComputer /\ Credentials!RotatedInTime

(* Output is shown and input handed on once and in order (Terminal). *)
OnceInOrder == focus = "terminal" => Attach!OnceInOrder

(* The interface never steps back: a run shown finished is not shown unfinished again,
   and no event is mistaken for a stale one across the hub's restarts (EventStream). *)
NeverStepsBack ==
  [][focus = "events" => Events!StaysFinished /\ Events!FreshIsApplied']_vars

(* A deadline set and not served stands, on disk and in the timer (NodeAlarm). *)
AlarmStands == focus = "alarm" => Alarm!AlarmStands

(* A swept prefix is empty, and a batch is stored whole or not at all (NodeStore). *)
StoreIsWhole == focus = "disk" => Disk!PrefixEmptied /\ Disk!BatchIsOne

(* The far end hears what was sent, or nothing (Wire). *)
HeardAsSent == focus = "wire" => Channel!HeardAsSent

(* Every pane stays within reach of the focus keys, and only a change of a layout that
   was read is saved over it (Workspace). *)
LayoutStands ==
  [][focus = "workspace" => Tab!EndsReachable /\ Tab!SavesOnlyChanges]_vars

(* Every head can be restored but where a sweep overlapped its snapshot (ChunkStore). *)
HeadsRestore == focus = "chunks" => Chunk!HeadsRestore

(* A revert that reports no error made the tree the manifest's (RootTree). *)
RevertIsExact == focus = "tree" => Tree!RevertIsExact
================================================================================
