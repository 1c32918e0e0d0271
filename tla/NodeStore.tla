------------------------------ MODULE NodeStore ------------------------------
(***************************************************************************)
(* node/r2.ts and node/d1.ts, a private instance's object store on a file    *)
(* system and its database on one SQLite connection, under what app.ts asks  *)
(* of them: the deletion of a computer's objects page by page while its      *)
(* supervisor still writes, and batches of statements whose awaits let other *)
(* requests run in between.  A key is its place in the order of keys.        *)
(***************************************************************************)
EXTENDS Naturals, FiniteSetsExt

CONSTANTS Keys,      \* object keys, in the order list sorts them
          Prefix,    \* those under the prefix being deleted
          PageLimit, \* list's limit
          MaxPuts,   \* bound: writes of the supervisor
          Batches,   \* batches of statements, each of two
          MaxSingles \* bound: statements outside a batch

VARIABLES files,    \* keys that list and get find
          temps,    \* temporary files, each for the key it will replace
          puts,
          sweep,    \* the deletion: [at, page, cursor]
          doomed,   \* history: keys the deletion must remove
          open,     \* a transaction is open on the connection
          pending,  \* effects inside it
          stored,   \* effects stored
          batch,    \* [at: "ready", "begun", 1, 2, "done" or "failed"] of each batch
          singles

store == <<files, temps, puts, sweep, doomed>>
database == <<open, pending, stored, batch, singles>>
vars == <<store, database>>

Init == /\ files \in SUBSET Keys /\ temps = {} /\ puts = 0
        /\ sweep = [at |-> "idle", page |-> {}, cursor |-> 0] /\ doomed = {}
        /\ open = FALSE /\ pending = {} /\ stored = {}
        /\ batch = [b \in Batches |-> "ready"] /\ singles = 0

--------------------------------------------------------------------------------
(* The object store. *)

(* put: a temporary file, then a rename over the key. *)
putTemp(k) == /\ puts < MaxPuts /\ puts' = puts + 1
              /\ temps' = temps \cup {k}
              /\ UNCHANGED <<files, sweep, doomed, database>>

putRename(k) == /\ k \in temps
                /\ temps' = temps \ {k} /\ files' = files \cup {k}
                /\ doomed' = doomed \ {k}
                /\ UNCHANGED <<puts, sweep, database>>

(* How many of the keys sort before one. *)
ahead(k, all) == Cardinality({j \in all : j < k})

(* Mutant: the cursor counts the objects passed. *)
listByCount(cursor) == {k \in files \cap Prefix : ahead(k, files \cap Prefix) >= cursor}

(* The objects of list({prefix, cursor}), of which a page holds the first PageLimit. *)
listAfter(cursor) == {k \in files \cap Prefix : k > cursor}
firstOf(all) == {k \in all : ahead(k, all) < PageLimit}

(* deleteObjectPrefix: a page is listed, and its keys deleted one by one. *)
sweepPage == /\ sweep.at \in {"idle", "more"}
             /\ LET all == listAfter(sweep.cursor)
                    page == firstOf(all)
                IN sweep' = [at |-> IF page = all THEN "last" ELSE "page", page |-> page,
                             cursor |-> IF page = {} THEN 0 ELSE Max(page)]
             /\ doomed' = IF sweep.at = "idle" THEN files \cap Prefix ELSE doomed
             /\ UNCHANGED <<files, temps, puts, database>>

sweepDelete == /\ sweep.at \in {"page", "last"} /\ sweep.page # {}
               /\ files' = files \ {Min(sweep.page)}
               /\ sweep' = [sweep EXCEPT !.page = @ \ {Min(@)}]
               /\ UNCHANGED <<temps, puts, doomed, database>>

sweepNext == /\ sweep.at \in {"page", "last"} /\ sweep.page = {}
             /\ sweep' = [sweep EXCEPT !.at = IF @ = "page" THEN "more" ELSE "done"]
             /\ UNCHANGED <<files, temps, puts, doomed, database>>

--------------------------------------------------------------------------------
(* The database: one connection, so what runs while a transaction is open runs
   inside it. *)

apply(effect) == IF open THEN pending' = pending \cup {effect} /\ UNCHANGED stored
                 ELSE stored' = stored \cup {effect} /\ UNCHANGED pending

(* Mutant: BEGIN is tried with the statements, so its refusal rolls back. *)
beginTried(b) == IF open
                 THEN /\ batch' = [batch EXCEPT ![b] = "failed"]
                      /\ open' = FALSE /\ pending' = {}
                 ELSE /\ batch' = [batch EXCEPT ![b] = "begun"]
                      /\ open' = TRUE /\ UNCHANGED pending

(* BEGIN is refused inside a transaction, before the batch is tried. *)
begin(b) == IF open THEN batch' = [batch EXCEPT ![b] = "failed"] /\ UNCHANGED <<open, pending>>
            ELSE /\ batch' = [batch EXCEPT ![b] = "begun"]
                 /\ open' = TRUE /\ UNCHANGED pending

batchBegins(b) == /\ batch[b] = "ready" /\ begin(b)
                  /\ UNCHANGED <<store, stored, singles>>

batchRuns(b) == /\ batch[b] \in {"begun", "half"}
                /\ batch' = [batch EXCEPT ![b] = IF @ = "begun" THEN "half" ELSE "run"]
                /\ apply(<<b, batch'[b]>>)
                /\ UNCHANGED <<store, open, singles>>

(* A statement throws: the transaction goes, with all that ran in it. *)
batchThrows(b) == /\ batch[b] \in {"begun", "half"}
                  /\ batch' = [batch EXCEPT ![b] = "failed"]
                  /\ open' = FALSE /\ pending' = {}
                  /\ UNCHANGED <<store, stored, singles>>

batchCommits(b) == /\ batch[b] = "run"
                   /\ batch' = [batch EXCEPT ![b] = IF open THEN "done" ELSE "failed"]
                   /\ stored' = stored \cup pending /\ pending' = {} /\ open' = FALSE
                   /\ UNCHANGED <<store, singles>>

single == /\ singles < MaxSingles /\ singles' = singles + 1
          /\ apply(<<"single", singles>>)
          /\ UNCHANGED <<store, open, batch>>

Next == \/ sweepPage \/ sweepDelete \/ sweepNext \/ single
        \/ \E k \in Keys : putTemp(k) \/ putRename(k)
        \/ \E b \in Batches : \/ batchBegins(b) \/ batchRuns(b) \/ batchThrows(b)
                              \/ batchCommits(b)

Spec == Init /\ [][Next]_vars

--------------------------------------------------------------------------------
(* When the deletion of a prefix ends, every object that was under it when it
   began, and was not written again, is gone: the pages of node/r2.ts list
   under the deletions of app.ts deleteObjectPrefix. *)
PrefixEmptied == sweep.at = "done" => files \cap doomed = {}

(* A batch leaves all of its effects or none, whatever runs between its
   statements ("D1 runs a batch as one implicit transaction; so does this",
   node/d1.ts). *)
BatchIsOne == ~open => \A b \in Batches :
                \/ {<<b, "half">>, <<b, "run">>} \subseteq stored
                \/ {<<b, "half">>, <<b, "run">>} \cap stored = {}
================================================================================
