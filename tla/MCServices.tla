------------------------------ MODULE MCServices ------------------------------
(* The instances of the parts of Services TLC checks. *)
EXTENDS Services, SavedLayouts, Sequences, TLC

(* Manifests: a file of one chunk, of two, the parents implied or listed, another
   mode, a chunk that repeats or is of another length, a symlink, a directory. *)
Ref(c, n) == [chunk |-> c, len |-> n]
Entry(path, kind, mode, chunks, size, target) ==
  [path |-> path, kind |-> kind, mode |-> mode, chunks |-> chunks, size |-> size,
   target |-> target]
File(path, mode, chunks, size) == Entry(path, "file", mode, chunks, size, "")
Dir(path) == Entry(path, "dir", 1, <<>>, 0, "")
one == File(<<"a", "b">>, 1, <<Ref("c1", 1)>>, 1)
two == File(<<"a", "b">>, 1, <<Ref("c1", 1), Ref("c2", 1)>>, 2)
Trees == {{}, {one}, {two}, {[one EXCEPT !.mode = 2], Dir(<<"a">>)},
          {File(<<"a">>, 1, <<Ref("c1", 1), Ref("c1", 2)>>, 2)},
          {two, File(<<"a", "c", "d">>, 1, <<Ref("c2", 1)>>, 2),
           Entry(<<"d">>, "symlink", 1, <<>>, 0, "a")},
          {File(<<"a">>, 1, <<Ref("c1", 1), Ref("c2", 1), Ref("c2", 1)>>, 3), Dir(<<"b">>)},
          {File(<<"a">>, 1, <<Ref("c1", 1), Ref("c2", 1)>>, 1)}}

Digests == {<<"d1">>, <<"d2">>}
Names == {<<"p">>, <<"p", "q">>}   \* one id begins with the other

StoredLayouts == {None, Grid}

(* Chunks: a tree of one chunk or of two, and a manifest a snapshot may stand on. *)
CONSTANTS k1, k2
Cuts == {{k1, k2}, {k2}}
Parents == {[parent |-> None, chunks |-> {k2}]}

(* Names two levels deep, of which a glob matches a file and a directory. *)
FileNames == {"d", "d/f", "d/.netrc", "e.pem", "e.pem/k"}
DirectoryOf == [p \in FileNames |->
  IF p \in {"d/f", "d/.netrc"} THEN "d" ELSE IF p = "e.pem/k" THEN "e.pem" ELSE "/"]
Matched == {"d/.netrc", "e.pem"}

(* Trees: one with all of these names, then a link, a directory or nothing in the
   place of some, a file where others have a directory, and an empty one. *)
node(kind) == [kind |-> kind, body |-> 1]
full == [p \in FileNames |-> node(IF p \in {"d", "e.pem"} THEN "dir" ELSE "file")]
DiskTrees ==
  {full, [full EXCEPT !["d/f"] = node("symlink")],
   [full EXCEPT !["d/f"] = node("dir"), !["d/.netrc"] = None],
   [p \in FileNames |-> IF p = "d" THEN node("file") ELSE None],
   [p \in FileNames |-> None]}

ASSUME MeterAssumption == Meter!TicksAreCounted

ASSUME ManifestAssumption == Manifest!ManifestsAreTrees

ASSUME WireAssumption == Channel!WidthsAreOrdered

ASSUME DiskAssumption == Tree!NamesAreATree /\ Tree!StartsAreTrees

ASSUME LayoutAssumption == Tab!PanesHaveRoom /\ Tab!StoredAreLayouts

Interchangeable == Permutations(Computers) \cup Permutations(Makers)
================================================================================
