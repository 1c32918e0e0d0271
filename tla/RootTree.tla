------------------------------- MODULE RootTree -------------------------------
(* A computer's tree between a snapshot and a revert to it: the walk and the read pass
   of snapshot.rs on a tree that keeps changing, then the supervisor's revert, which
   prunes what the manifest does not name and restores the rest over it
   (supervisor.rs: revert_to_manifest, prune_to_manifest; restore.rs; rootfs.rs).

   A node is its kind and its body: a file's bytes and mode, a link's target, a
   directory's mode.  The walk of a snapshot is one step.  Hard links, sockets and
   hostile trees are left out.  Nobody writes the tree during a revert. *)
EXTENDS Integers, FiniteSets

CONSTANTS Paths,     \* the names the tree may hold, below the root
          ParentOf,  \* the directory of each, or the root
          Globbed,   \* the names an exclude glob matches
          Starts,    \* the trees a computer may start from
          Bodies,
          MaxEdits,  \* bound of the edits
          None

VARIABLES tree,      \* the disk: each name's node, or None
          manifest,  \* the entries of the snapshot
          phase,     \* what the supervisor does
          todo,      \* the names its pass has still to visit
          barred,    \* what the kernel refuses a revert: names to remove, directories to open
          walkErrors,
          before,    \* history: the tree the revert found
          edited     \* how many edits were made

vars == <<tree, manifest, phase, todo, barred, walkErrors, before, edited>>

Root == "/"
Kinds == {"file", "symlink", "dir"}
Nodes == [kind : Kinds, body : Bodies]
NewDirMode == 0   \* what create_dir makes, until the modes are applied
NoTree == [p \in Paths |-> None]

kindOf(t, p) == IF t[p] = None THEN None ELSE t[p].kind
isA(t, p, kind) == kindOf(t, p) = kind
present(t) == {p \in Paths : t[p] # None}
children(p) == {q \in Paths : ParentOf[q] = p}
inDirectory(t, p) == ParentOf[p] \in {Root} \cup {d \in Paths : isA(t, d, "dir")}

(* The names above a name, itself included. *)
upFrom[p \in Paths] == {p} \cup (IF ParentOf[p] = Root THEN {} ELSE upFrom[ParentOf[p]])
below(p) == {q \in Paths : p \in upFrom[q]}

(* Directories are above what they hold; a computer starts from a tree of nodes whose
   names lie in directories. *)
NamesAreATree ==
  /\ Root \notin Paths /\ Globbed \subseteq Paths
  /\ \A p \in Paths : /\ ParentOf[p] \in (Paths \ {p}) \cup {Root}
                      /\ upFrom[p] = {p} \cup (IF ParentOf[p] = Root THEN {}
                                              ELSE upFrom[ParentOf[p]])
                      /\ \A q \in upFrom[p] : ParentOf[q] \in upFrom[p] \cup {Root}
StartsAreTrees ==
  /\ None \notin [kind : Kinds, body : Bodies \cup {NewDirMode}] \cup Kinds
  /\ \A t \in Starts : /\ t \in [Paths -> Nodes \cup {None}]
                       /\ \A p \in present(t) : inDirectory(t, p)

Init ==
  /\ tree \in Starts
  /\ manifest = NoTree
  /\ phase = "live"
  /\ todo = {}
  /\ barred \in [stuck : {{}} \cup {{p} : p \in Paths}, closed : {{}} \cup {{p} : p \in Paths}]
  /\ Cardinality(barred.stuck) + Cardinality(barred.closed) <= 1
  /\ walkErrors = 0
  /\ before = NoTree
  /\ edited = 0

--------------------------------------------------------------------------------
(* A process of the computer makes, replaces or removes a node; rmdir wants the
   directory empty, and so does what takes its place. *)
Edit(p, node) ==
  /\ phase \in {"live", "reading", "saved"} /\ edited < MaxEdits
  /\ tree[p] # node /\ inDirectory(tree, p)
  /\ \/ ~isA(tree, p, "dir") \/ children(p) \cap present(tree) = {}
     \/ node \in {n \in Nodes : n.kind = "dir"}
  /\ tree' = [tree EXCEPT ![p] = node]
  /\ edited' = edited + 1
  /\ UNCHANGED <<manifest, phase, todo, barred, walkErrors, before>>

(* The walk: every name but those a glob matches and what lies under such a directory.
   A file's bytes are for the read pass. *)
walked(t) == {p \in present(t) : upFrom[p] \cap Globbed = {}}
Walk ==
  /\ phase = "live"
  /\ manifest' = [p \in Paths |-> IF p \in walked(tree) THEN tree[p] ELSE None]
  /\ todo' = {p \in walked(tree) : tree[p].kind = "file"}
  /\ phase' = "reading"
  /\ UNCHANGED <<tree, barred, walkErrors, before, edited>>

(* The read pass, one file: gone since the walk it is dropped, and what is not a file
   any more fails the snapshot, as does a directory on the way to it that is none. *)
onTheWay(p) == {q \in upFrom[p] \ {p} : ~isA(tree, q, "dir")}
ReadFile(p) ==
  /\ phase = "reading" /\ p \in todo
  /\ \/ /\ isA(tree, p, "file")
        /\ manifest' = [manifest EXCEPT ![p] = tree[p]]
        /\ todo' = todo \ {p} /\ phase' = phase
     \/ /\ tree[p] = None /\ \A q \in onTheWay(p) : tree[q] = None
        /\ manifest' = [manifest EXCEPT ![p] = None]
        /\ todo' = todo \ {p} /\ phase' = phase
     \/ /\ (tree[p] # None /\ ~isA(tree, p, "file")) \/ \E q \in onTheWay(p) : tree[q] # None
        /\ manifest' = NoTree /\ todo' = {} /\ phase' = "live"
  /\ UNCHANGED <<tree, barred, walkErrors, before, edited>>

PutManifest ==
  /\ phase = "reading" /\ todo = {}
  /\ phase' = "saved"
  /\ UNCHANGED <<tree, manifest, todo, barred, walkErrors, before, edited>>

--------------------------------------------------------------------------------
(* revert_to_manifest: the walk of the prune hands out every name, what a directory
   holds before the directory.  One that cannot be opened is an error and is handed
   out without what it holds. *)
Revert ==
  /\ phase = "saved"
  /\ LET shut == {d \in barred.closed : isA(tree, d, "dir")}
     IN /\ walkErrors' = Cardinality(shut)
        /\ todo' = present(tree) \ UNION {below(d) \ {d} : d \in shut}
  /\ before' = tree
  /\ phase' = "pruning"
  /\ UNCHANGED <<tree, manifest, barred, edited>>

(* As a mutant, directories come first, as a plain walk hands them out. *)
parentsFirst(p) == (upFrom[p] \ {p}) \cap todo = {}
contentsFirst(p) == (below(p) \ {p}) \cap todo = {}

(* remove_path: a directory only when it is empty, anything only when the kernel lets. *)
removable(t, p) == /\ p \notin barred.stuck
                   /\ isA(t, p, "dir") => children(p) \cap present(t) = {}

(* What the manifest names, of the same kind, is left to the restore. *)
kept(p) == kindOf(manifest, p) = kindOf(tree, p)

PruneEntry(p) ==
  /\ phase = "pruning" /\ p \in todo /\ contentsFirst(p)
  /\ todo' = todo \ {p}
  /\ tree' = IF p \in Globbed \/ kept(p) \/ ~removable(tree, p) THEN tree
             ELSE [tree EXCEPT ![p] = None]
  /\ UNCHANGED <<manifest, phase, barred, walkErrors, before, edited>>

(* restore's passes over the entries of one kind: directories, shallowest first, then
   files, then links; last, the directories' modes, deepest first. *)
entries(kind) == {p \in Paths : isA(manifest, p, kind)}
Passes == [pruning |-> "dir", dirs |-> "file", files |-> "symlink", links |-> "dir"]
After == [pruning |-> "dirs", dirs |-> "files", files |-> "links", links |-> "modes"]
NextPass ==
  /\ phase \in DOMAIN Passes /\ todo = {}
  /\ phase' = After[phase]
  /\ todo' = entries(Passes[phase])
  /\ UNCHANGED <<tree, manifest, barred, walkErrors, before, edited>>

(* A pass fails and with it the restore: its error is the revert's. *)
Fail ==
  /\ phase' = "failed" /\ todo' = {}
  /\ UNCHANGED <<tree, manifest, barred, walkErrors, before, edited>>

(* create_dir: one that is there and opens is kept as it is, a node of another kind is
   replaced. *)
CreateDir(p) ==
  /\ phase = "dirs" /\ p \in todo /\ (upFrom[p] \ {p}) \cap todo = {}
  /\ IF isA(tree, p, "dir") THEN p \notin barred.closed
     ELSE tree[p] = None \/ removable(tree, p)
  /\ tree' = IF isA(tree, p, "dir") THEN tree
             ELSE [tree EXCEPT ![p] = [kind |-> "dir", body |-> NewDirMode]]
  /\ todo' = todo \ {p}
  /\ UNCHANGED <<manifest, phase, barred, walkErrors, before, edited>>

(* write_file and create_symlink: a file is truncated where it is, any other node is
   removed first. *)
CreateNode(p) ==
  /\ phase \in {"files", "links"} /\ p \in todo
  /\ \/ tree[p] = None \/ removable(tree, p)
     \/ phase = "files" /\ isA(tree, p, "file")
  /\ tree' = [tree EXCEPT ![p] = manifest[p]]
  /\ todo' = todo \ {p}
  /\ UNCHANGED <<manifest, phase, barred, walkErrors, before, edited>>

(* chmod_dir; as a mutant, modes are left as they were made. *)
asMade(p) == tree
withMode(p) == [tree EXCEPT ![p] = manifest[p]]
ChmodDir(p) ==
  /\ phase = "modes" /\ p \in todo /\ contentsFirst(p)
  /\ tree' = withMode(p)
  /\ todo' = todo \ {p}
  /\ UNCHANGED <<manifest, phase, barred, walkErrors, before, edited>>

(* A node in the way that is not removed, a directory that does not open; or, anywhere,
   a chunk that cannot be read or a call the kernel refuses. *)
RestoreFails == phase \in {"dirs", "files", "links", "modes"} /\ todo # {} /\ Fail

(* The revert's answer: an error of the prune's walk fails it, a removal that was
   refused does not. *)
Answer ==
  /\ phase = "modes" /\ todo = {}
  /\ phase' = IF walkErrors > 0 THEN "partial" ELSE "reverted"
  /\ UNCHANGED <<tree, manifest, todo, barred, walkErrors, before, edited>>

Next ==
  \/ \E p \in Paths : \/ \E node \in Nodes \cup {None} : Edit(p, node)
                      \/ ReadFile(p) \/ PruneEntry(p)
                      \/ CreateDir(p) \/ CreateNode(p) \/ ChmodDir(p)
  \/ Walk \/ PutManifest \/ Revert \/ NextPass \/ RestoreFails \/ Answer

Spec == Init /\ [][Next]_vars

--------------------------------------------------------------------------------
(* The nodes a revert may leave beside the manifest's: what an exclude matches, what
   the kernel refused to remove, and the directories these stand in. *)
remains(p) == \E q \in below(p) : tree[q] # None /\ q \in Globbed \cup barred.stuck

(* A revert that reports no error has made the tree the manifest's, whatever the run
   left at its names, and has touched nothing an exclude matches (revert_to_manifest
   and its comment, "authoritative"; the order of the prune's walk and of the passes). *)
RevertIsExact ==
  /\ phase = "reverted" =>
       \A p \in Paths : \/ manifest[p] # None /\ tree[p] = manifest[p]
                        \/ manifest[p] = None /\ (tree[p] = None \/ remains(p))
  /\ before # NoTree => \A p \in Globbed : tree[p] = before[p]

(* supervisor.rs:95-97: a snapshot omits the excluded paths and a revert preserves
   exactly these, "so the two never drift". *)
NeverDrift ==
  phase \in {"pruning", "dirs", "files", "links", "modes", "reverted"} =>
    \A p \in Paths : upFrom[p] \cap Globbed # {} => tree[p] = before[p]

(* A revert that leaves what the manifest does not name says so. *)
LeftoversAreReported ==
  phase = "reverted" =>
    \A p \in present(tree) : manifest[p] = None => \E q \in below(p) : q \in Globbed
================================================================================
