------------------------------ MODULE ChunkStore ------------------------------
(* The chunk store of mari-core: snapshots that upload only the chunks the store lacks
   (snapshot.rs over store.rs) and the collector that plans a sweep and executes it
   later (gc.rs), call by call, so that another computer's snapshot falls anywhere
   between two of them.

   Outside the sources: which manifests are retained (every computer's head; nothing
   under src/ calls the collector), and that a plan is executed once.

   A manifest is its parent and the chunks its entries name; it is its own id, as the
   id is the hash of its content.  What the walk and the read pass do is RootTree's. *)
EXTENDS Integers, FiniteSets

CONSTANTS Chunks,      \* content addresses
          Makers,      \* the computers whose supervisors snapshot
          Contents,    \* the sets of chunks a tree may be cut into
          Images,      \* the manifests a snapshot may name as its parent (marid's name none)
          Window,      \* the collector's safety window, in seconds
          MaxSecs,     \* bound of the clock
          MaxSnaps,    \* bound of the snapshots begun
          None

SnapshotManifests == [parent : Images \cup {None}, chunks : SUBSET Chunks]

VARIABLES mtime,     \* chunks/: when each was last written, None if it is not there
          written,   \* manifests/: the manifests the store holds
          heads,     \* the computers' heads, which retention keeps
          snap,      \* each supervisor's snapshot
          gc,        \* the collector
          secs,      \* the clock of the store and of the collector
          begun,     \* how many snapshots were begun
          exposed    \* history: the chunks of each head a sweep may have taken

vars == <<mtime, written, heads, snap, gc, secs, begun, exposed>>

noSnap == [pc |-> "none", began |-> 0, made |-> None, probe |-> {}, reused |-> {},
           missing |-> {}, loose |-> {}]
noGc == [pc |-> "idle", now |-> 0, live |-> {}, dead |-> {}]

stored == {k \in Chunks : mtime[k] # None}

Init ==
  /\ mtime = [k \in Chunks |-> None]
  /\ written = {}
  /\ heads = [c \in Makers |-> None]
  /\ snap = [c \in Makers |-> noSnap]
  /\ gc = noGc
  /\ secs = 0
  /\ begun = 0
  /\ exposed = [c \in Makers |-> {}]

--------------------------------------------------------------------------------
(* snapshot(): the tree has been read and cut; every distinct chunk is then looked up. *)
Begin(c, content, parent) ==
  /\ snap[c].pc = "none" /\ begun < MaxSnaps
  /\ begun' = begun + 1
  /\ snap' = [snap EXCEPT ![c] =
       [noSnap EXCEPT !.pc = "probing", !.began = secs, !.probe = content,
                      !.made = [parent |-> parent, chunks |-> content]]]
  /\ UNCHANGED <<mtime, written, heads, gc, secs, exposed>>

(* missing_chunks: one existence check.  A chunk that is there is used as it is, and is
   loose if a sweep has already collected what it spares. *)
Probe(c, k) ==
  /\ snap[c].pc = "probing" /\ k \in snap[c].probe
  /\ snap' = [snap EXCEPT
       ![c].probe = @ \ {k},
       ![c].reused = IF k \in stored THEN @ \cup {k} ELSE @,
       ![c].missing = IF k \in stored THEN @ ELSE @ \cup {k},
       ![c].loose = IF k \in stored /\ gc.pc = "sweeping" THEN @ \cup {k} ELSE @]
  /\ UNCHANGED <<mtime, written, heads, gc, secs, begun, exposed>>

(* put_chunk: a chunk that was missing is written, whoever wrote it meanwhile. *)
Upload(c, k) ==
  /\ snap[c].pc = "probing" /\ snap[c].probe = {} /\ k \in snap[c].missing
  /\ mtime' = [mtime EXCEPT ![k] = secs]
  /\ snap' = [snap EXCEPT ![c].missing = @ \ {k}]
  /\ UNCHANGED <<written, heads, gc, secs, begun, exposed>>

(* put_manifest, once nothing is missing. *)
PutManifest(c) ==
  /\ snap[c].pc = "probing" /\ snap[c].probe = {} /\ snap[c].missing = {}
  /\ written' = written \cup {snap[c].made}
  /\ snap' = [snap EXCEPT ![c].pc = "written"]
  /\ UNCHANGED <<mtime, heads, gc, secs, begun, exposed>>

(* The head advances to the manifest that was reported: retention keeps it from here. *)
AdvanceHead(c) ==
  /\ snap[c].pc = "written"
  /\ heads' = [heads EXCEPT ![c] = snap[c].made]
  /\ exposed' = [exposed EXCEPT ![c] = snap[c].loose]
  /\ snap' = [snap EXCEPT ![c] = noSnap]
  /\ UNCHANGED <<mtime, written, gc, secs, begun>>

(* A call of the store fails, the supervisor stops, or the advance is refused: what
   was uploaded stays, named by nothing that is retained. *)
GiveUp(c) ==
  /\ snap[c].pc # "none"
  /\ snap' = [snap EXCEPT ![c] = noSnap]
  /\ UNCHANGED <<mtime, written, heads, gc, secs, begun, exposed>>

--------------------------------------------------------------------------------
retained == {heads[c] : c \in Makers} \ {None}

(* collect_live_set: the retained manifests and those they stand on, each of which
   must load; parents of parents are not among Images. *)
reached == retained \cup ({m.parent : m \in retained} \ {None})
liveSet == UNION {m.chunks : m \in reached}

(* plan_at, its first half: the live set as of now. *)
Mark ==
  /\ gc.pc = "idle" /\ reached \subseteq written
  /\ gc' = [gc EXCEPT !.pc = "marked", !.now = secs, !.live = liveSet]
  /\ UNCHANGED <<mtime, written, heads, snap, secs, begun, exposed>>

(* now_secs.saturating_sub(mtime), against the window; as a mutant, against nothing. *)
age(k) == IF mtime[k] <= gc.now THEN gc.now - mtime[k] ELSE 0
deletableAtAnyAge(k) == mtime[k] # None
deletable(k) == age(k) >= Window

(* plan_at, its second half: list the store and age what is not live. *)
List ==
  /\ gc.pc = "marked"
  /\ gc' = [noGc EXCEPT !.pc = "planned",
                        !.dead = {k \in stored \ gc.live : deletable(k)}]
  /\ UNCHANGED <<mtime, written, heads, snap, secs, begun, exposed>>

(* What execute spares of the plan's candidates: what is live by now.  As a mutant, it
   trusts the plan's live set, which has none of them. *)
sparedByPlan == gc.live \ gc.dead
spared == liveSet

(* execute: what is live is collected again, from the manifests retained now.  Of a
   snapshot underway, what it found in the store is loose; and all of it, when it has
   been underway for the window. *)
Execute ==
  /\ gc.pc = "planned" /\ reached \subseteq written
  /\ gc' = [gc EXCEPT !.pc = "sweeping", !.live = spared]
  /\ snap' = [c \in Makers |->
       IF snap[c].pc = "none" THEN snap[c]
       ELSE [snap[c] EXCEPT !.loose = @ \cup
               IF secs - snap[c].began >= Window THEN snap[c].made.chunks
               ELSE snap[c].reused]]
  /\ UNCHANGED <<mtime, written, heads, secs, begun, exposed>>

(* One candidate of the plan: spared when it is live again, deleted otherwise. *)
Sweep(k) ==
  /\ gc.pc = "sweeping" /\ k \in gc.dead
  /\ gc' = [gc EXCEPT !.dead = @ \ {k}]
  /\ mtime' = IF k \in gc.live THEN mtime ELSE [mtime EXCEPT ![k] = None]
  /\ UNCHANGED <<written, heads, snap, secs, begun, exposed>>

(* The sweep ends, fails on the way, is a dry run, or its plan is dropped. *)
EndSweep ==
  /\ gc.pc # "idle"
  /\ gc' = noGc
  /\ UNCHANGED <<mtime, written, heads, snap, secs, begun, exposed>>

Tick ==
  /\ secs < MaxSecs
  /\ secs' = secs + 1
  /\ UNCHANGED <<mtime, written, heads, snap, gc, begun, exposed>>

Next ==
  \/ \E c \in Makers :
       \/ \E content \in Contents, parent \in Images \cup {None} : Begin(c, content, parent)
       \/ \E k \in Chunks : Probe(c, k) \/ Upload(c, k)
       \/ PutManifest(c) \/ AdvanceHead(c) \/ GiveUp(c)
  \/ Mark \/ List \/ Execute \/ (\E k \in Chunks : Sweep(k)) \/ EndSweep
  \/ Tick

Spec == Init /\ [][Next]_vars

--------------------------------------------------------------------------------
(* Every head can be restored: its chunks are in the store.  A sweep takes a chunk of
   one only if it was executed while the snapshot was underway, and then only a chunk
   the snapshot had found in the store, or any once it had been underway for the
   window (gc.rs's module comment and execute; snapshot.rs's existence check). *)
HeadsRestore ==
  \A c \in Makers : heads[c] # None =>
    \A k \in heads[c].chunks : k \in stored \/ k \in exposed[c]

(* What the same comment says of the race: it is narrowed to a head that advances
   between the collection and the last delete. *)
OnlyAdvancedInSweep ==
  [][\A c \in Makers : heads'[c] # heads[c] /\ gc.pc # "sweeping" =>
       heads'[c].chunks \subseteq stored]_vars

(* Invariant 2 of execute: a chunk younger than the window is never deleted. *)
YoungAreKept ==
  [][\A k \in Chunks : mtime[k] # None /\ mtime'[k] = None => secs - mtime[k] >= Window]_vars
================================================================================
