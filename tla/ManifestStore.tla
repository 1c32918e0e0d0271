---------------------------- MODULE ManifestStore ----------------------------
(***************************************************************************)
(* manifest-store.ts, diff.ts and the file routes: reading a computer's files *)
(* from the chunk store without waking it.  A manifest is a set of entries    *)
(* with distinct paths, a path a sequence of names, a chunk body one of what  *)
(* the store can give back for it.  Bootstraps of the account's namespace     *)
(* run concurrently, a put at a time, and may be cut.                         *)
(***************************************************************************)
EXTENDS Naturals, Sequences, FiniteSets, SequencesExt

CONSTANTS Manifests,  \* the fleet's base manifests a behaviour may start from
          Tasks,      \* requests that need the manifest in the account's root
          MaxInline,  \* MAX_INLINE_FILE_BYTES
          MaxCuts, None

(* A manifest is what a walk of a directory tree saw: a path once, and below a
   path only if it is a directory's. *)
ManifestsAreTrees ==
  \A m \in Manifests :
     /\ m \subseteq [path : Seq(STRING), kind : {"file", "dir", "symlink"}, mode : Nat,
                     chunks : Seq([chunk : STRING, len : Nat]), size : Nat, target : STRING]
     /\ \A e, f \in m : /\ e.path = f.path => e = f
                        /\ IsStrictPrefix(e.path, f.path) => e.kind = "dir"

VARIABLES base,     \* the manifest, by its id
          head,     \* the computer's head: base or another manifest, or None
          bodies,   \* root -> chunk -> "good", "other", "garbage" or "absent"
          held,     \* roots whose manifests/ hold the manifest
          task,     \* task -> its step and the chunks it has left
          answer,   \* the last file route's path and answer
          cuts

vars == <<base, head, bodies, held, task, answer, cuts>>

Roots == {"fleet", "account"}
ChunksOf(m) == UNION {{r.chunk : r \in {e.chunks[i] : i \in DOMAIN e.chunks}} : e \in m}
AllChunks == UNION {ChunksOf(m) : m \in Manifests}
Fails(code) == [error |-> code]
Idle == [at |-> "idle", left |-> {}]

--------------------------------------------------------------------------------
(* A chunk's plaintext is one unit long, whatever length a ref claims. *)
decodeChunkBody(body, len) ==
  CASE body = "absent" -> "chunk_missing" [] body = "garbage" -> "chunk_undecodable"
    [] body = "other" -> "chunk_corrupt" [] body = "good" /\ len # 1 -> "chunk_length_mismatch"
    [] OTHER -> "ok"

(* Mutant: a body is served as it was stored. *)
getChunkUnverified(root, r) == IF bodies[root][r.chunk] = "absent" THEN "chunk_missing" ELSE "ok"

getChunk(root, r) == decodeChunkBody(bodies[root][r.chunk], r.len)

(* The first ref that cannot be trusted decides; then the sum must be the size. *)
readFile(root, e) ==
  LET Bad(i) == getChunk(root, e.chunks[i]) # "ok" \/ i > e.size
      bad == {i \in DOMAIN e.chunks : Bad(i)}
      first == CHOOSE i \in bad : \A j \in bad : i <= j IN
  IF e.size > MaxInline THEN Fails("too_large")
  ELSE IF bad # {}
       THEN Fails(IF getChunk(root, e.chunks[first]) # "ok" THEN getChunk(root, e.chunks[first])
                  ELSE "manifest_size_mismatch")
  ELSE IF Len(e.chunks) # e.size THEN Fails("manifest_size_mismatch")
  ELSE [bytes |-> [i \in DOMAIN e.chunks |-> bodies[root][e.chunks[i].chunk]]]

At(m, path) == {e \in m : e.path = path}
Under(m, dir) == {e \in m : IsStrictPrefix(dir, e.path)}

(* Mutant: only the entries themselves are listed. *)
listDirectoryExplicit(m, dir) ==
  IF dir # <<>> /\ \E e \in At(m, dir) : e.kind # "dir" THEN Fails("not_a_file")
  ELSE IF dir # <<>> /\ At(m, dir) = {} /\ Under(m, dir) = {} THEN Fails("not_found")
  ELSE [entries |-> {[name |-> Last(e.path), kind |-> e.kind] :
                       e \in {f \in Under(m, dir) : Len(f.path) = Len(dir) + 1}}]

(* A child is an entry one name below, or the directory a deeper entry implies. *)
listDirectory(m, dir) ==
  LET direct == {e \in Under(m, dir) : Len(e.path) = Len(dir) + 1}
      names == {e.path[Len(dir) + 1] : e \in Under(m, dir)}
      implied == names \ {Last(e.path) : e \in direct} IN
  IF dir # <<>> /\ \E e \in At(m, dir) : e.kind # "dir" THEN Fails("not_a_file")
  ELSE IF dir # <<>> /\ At(m, dir) = {} /\ Under(m, dir) = {} THEN Fails("not_found")
  ELSE [entries |-> {[name |-> Last(e.path), kind |-> e.kind] : e \in direct}
                    \cup {[name |-> n, kind |-> "dir"] : n \in implied}]

(* GET .../files/*: a file's bytes, or a listing. *)
filesHandler(path) ==
  IF head = None THEN (IF path = <<>> THEN [entries |-> {}] ELSE Fails("not_found"))
  ELSE IF head # base \/ "account" \notin held THEN Fails("manifest_missing")
  ELSE IF \E e \in At(head, path) : e.kind = "file"
       THEN readFile("account", CHOOSE e \in At(head, path) : TRUE)
  ELSE listDirectory(head, path)

(* GET .../file: a file's bytes only. *)
fileRoute(path) ==
  IF head = None THEN Fails("no_manifest")
  ELSE IF head # base \/ "account" \notin held THEN Fails("manifest_missing")
  ELSE IF At(head, path) = {} THEN Fails("not_found")
  ELSE LET e == CHOOSE f \in At(head, path) : TRUE IN
       IF e.kind # "file" THEN Fails("not_a_file") ELSE readFile("account", e)

(* Mutant: a mode change alone is no change. *)
diffManifestsByContent(from, to) ==
  LET P(m) == {e.path : e \in m} IN
  [added |-> P(to) \ P(from), removed |-> P(from) \ P(to),
   modified |-> {e.path : e \in {f \in to : \E g \in from : g.path = f.path /\ g.chunks # f.chunks}}]

diffManifests(from, to) ==
  LET P(m) == {e.path : e \in m}
      Changed(e, f) == \/ e.chunks # f.chunks \/ e.size # f.size \/ e.mode # f.mode
                       \/ e.kind # f.kind \/ e.target # f.target IN
  [added |-> P(to) \ P(from), removed |-> P(from) \ P(to),
   modified |-> {e.path : e \in {f \in to : \E g \in from : g.path = f.path /\ Changed(g, f)}}]

--------------------------------------------------------------------------------
Init == /\ base \in Manifests /\ head \in {base, None} /\ held = {"fleet"} /\ cuts = 0
        /\ bodies \in [Roots -> [AllChunks -> {"good", "other", "garbage", "absent"}]]
        /\ \A c \in AllChunks : bodies["account"][c] = "absent"
        /\ task = [t \in Tasks |-> Idle] /\ answer = [path |-> <<>>, is |-> Fails("none")]

(* ensureManifestNamespace: the target's manifest is the mark that it is done. *)
ensureManifestNamespace(t) ==
  /\ task[t] = Idle /\ "account" \notin held
  /\ task' = [task EXCEPT ![t] = [at |-> "copying", left |-> ChunksOf(base)]]
  /\ UNCHANGED <<base, head, bodies, held, answer, cuts>>

copy(t, c) ==
  /\ task[t].at = "copying" /\ c \in task[t].left
  /\ IF bodies["account"][c] # "absent"
     THEN task' = [task EXCEPT ![t].left = @ \ {c}] /\ UNCHANGED bodies
     ELSE IF bodies["fleet"][c] = "absent" THEN task' = [task EXCEPT ![t] = Idle] /\ UNCHANGED bodies
     ELSE /\ bodies' = [bodies EXCEPT !["account"][c] = bodies["fleet"][c]]
          /\ task' = [task EXCEPT ![t].left = @ \ {c}]
  /\ UNCHANGED <<base, head, held, answer, cuts>>

(* Mutant: the manifest goes first. *)
publishFirst(t) ==
  /\ task[t].at = "copying"
  /\ held' = held \cup {"account"} /\ UNCHANGED task
  /\ UNCHANGED <<base, head, bodies, answer, cuts>>

publish(t) ==
  /\ task[t].at = "copying" /\ task[t].left = {}
  /\ held' = held \cup {"account"} /\ task' = [task EXCEPT ![t] = Idle]
  /\ UNCHANGED <<base, head, bodies, answer, cuts>>

cutOff(t) == /\ task[t] # Idle /\ cuts < MaxCuts /\ cuts' = cuts + 1
             /\ task' = [task EXCEPT ![t] = Idle] /\ UNCHANGED <<base, head, bodies, held, answer>>

Browsed == {<<>>} \cup UNION {{SubSeq(e.path, 1, n) : n \in 1..Len(e.path)} : e \in base}

browse == \E path \in Browsed : \E is \in {filesHandler(path), fileRoute(path)} :
            /\ answer' = [path |-> path, is |-> is]
            /\ UNCHANGED <<base, head, bodies, held, task, cuts>>

Next == browse \/ \E t \in Tasks : \/ ensureManifestNamespace(t) \/ publish(t) \/ cutOff(t)
                                   \/ \E c \in AllChunks : copy(t, c)

Spec == Init /\ [][Next]_vars

--------------------------------------------------------------------------------
(* Concurrent bootstraps, however they interleave or are cut, never let the
   account's root name a chunk it does not hold: the manifest is put last. *)
PublishedWhole == "account" \in held => \A c \in ChunksOf(base) : bodies["account"][c] # "absent"

(* A file route that answers with bytes answers with every byte its manifest lists,
   each one verified, whatever the store gave back (a corrupt file loaded into an
   editor gets saved back). *)
ServedWhole ==
  "bytes" \in DOMAIN answer.is =>
     \E e \in At(base, answer.path) : /\ Len(answer.is.bytes) = e.size
                                      /\ \A i \in 1..e.size : answer.is.bytes[i] = "good"

(* Walking down from the root through the listings reaches every entry, implied
   parents included, with its own kind. *)
WalkReaches ==
  \A e \in base : \A n \in 1..Len(e.path) :
     LET is == listDirectory(base, SubSeq(e.path, 1, n - 1)) IN
     /\ "entries" \in DOMAIN is
     /\ \E child \in is.entries : /\ child.name = e.path[n]
                                  /\ child.kind = IF n = Len(e.path) THEN e.kind ELSE "dir"
     /\ \A x, y \in is.entries : x.name = y.name => x = y

(* The diff of two manifests names each path on which they differ once, on the
   right side, and no other path: an empty diff means equal trees. *)
DiffIsExact ==
  \A to \in Manifests :
     LET d == diffManifests(base, to)
         Differs(p) == At(base, p) # At(to, p) IN
     /\ d.added \cup d.removed \cup d.modified = {p \in {e.path : e \in base \cup to} : Differs(p)}
     /\ d.added \cap (d.removed \cup d.modified) = {} /\ d.removed \cap d.modified = {}
     /\ \A p \in d.removed : At(to, p) = {}
================================================================================
