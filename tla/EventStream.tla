----------------------------- MODULE EventStream -----------------------------
(***************************************************************************)
(* Live events about one run and its computer: computer-do.ts emits them     *)
(* without waiting, the user's EventsDO numbers them and fans them out, and  *)
(* the web client folds them into a model, which it merges with the runs it  *)
(* reads over REST.  Emissions may overtake each other, the hub may restart, *)
(* and a stream that stalls or breaks is replaced by an empty one.           *)
(***************************************************************************)
EXTENDS Naturals, Sequences, FiniteSets

CONSTANTS MaxEmits,    \* bound: events emitted
          MaxInflight, \* MAX_INFLIGHT
          MaxTicks,    \* bound: the wall clock
          MaxBreaks    \* bound: streams that break

VARIABLES run,       \* the run's state in the computer's journal of runs
          waiting,   \* an attention of the run is undismissed
          comp,      \* the computer's state
          emits,     \* history: events emitted
          pubs,      \* publishes in flight to the hub
          clock,     \* the wall clock, in units no two publishes share
          seq,       \* the hub's #seq
          turn,      \* history: publishes the hub has served
          stream,    \* "none", "open" or "dropped" by the hub
          records,   \* written to the open stream, not read yet
          model,     \* the client's EventsModel
          got,       \* history: the last turn delivered for each entity
          rest, asked, \* the runs list's row over REST, and an answer in flight
          breaks

vars == <<run, waiting, comp, emits, pubs, clock, seq, turn, stream, records, model, got,
          rest, asked, breaks>>

EventKeys == {"run", "attn", "state"}
Unknown == "unknown"  \* nothing learned
Rank == [s \in {"pending", "running", "stopping", "exited", "failed", Unknown} |->
           CASE s = Unknown -> 0 [] s = "pending" -> 1 [] s = "running" -> 2
             [] s = "stopping" -> 3 [] OTHER -> 4]
isTerminal(s) == s \in {"exited", "failed"}
isActive(s) == s \in {"pending", "running", "stopping"}

Init == /\ run = "pending" /\ waiting = FALSE /\ comp = "cold" /\ emits = 0
        /\ pubs = {} /\ clock = 1 /\ seq = 0 /\ turn = 0
        /\ stream = "none" /\ records = <<>>
        /\ model = [run |-> Unknown, attn |-> FALSE, state |-> Unknown,
                    applied |-> [k \in EventKeys |-> 0], turn |-> [k \in EventKeys |-> 0]]
        /\ got = [k \in EventKeys |-> 0]
        /\ rest = Unknown /\ asked = Unknown /\ breaks = 0

--------------------------------------------------------------------------------
(* The computer. *)

emit(events) ==
  /\ emits + Len(events) <= MaxEmits
  /\ emits' = emits + Len(events)
  /\ pubs' = pubs \cup {[key |-> events[i].key, value |-> events[i].value, id |-> emits + i]
                         : i \in DOMAIN events}

hub == <<clock, seq, turn>>
client == <<model, got, rest, asked>>

(* The run starts, is asked to stop, ends, is cancelled, or is queued again
   after its machine was lost. *)
RunMoves == [pending |-> {"running", "stopping", "failed"},
             running |-> {"stopping", "exited", "pending"},
             stopping |-> {"exited", "pending"}, exited |-> {}, failed |-> {}]

runMoves == /\ \E to \in RunMoves[run] : run' = to /\ emit(<<[key |-> "run", value |-> to]>>)
            /\ UNCHANGED <<waiting, comp, hub, stream, records, client, breaks>>

(* The machine is lost under the run: the attention, then the end. *)
raiseInterrupted == /\ run \in {"running", "stopping"} /\ ~waiting
                    /\ run' = "failed" /\ waiting' = TRUE
                    /\ emit(<<[key |-> "attn", value |-> TRUE],
                              [key |-> "run", value |-> "failed"]>>)
                    /\ UNCHANGED <<comp, hub, stream, records, client, breaks>>

onAttention == /\ run \in {"running", "stopping"} /\ ~waiting
               /\ waiting' = TRUE /\ emit(<<[key |-> "attn", value |-> TRUE]>>)
               /\ UNCHANGED <<run, comp, hub, stream, records, client, breaks>>

dismissAttention == /\ waiting
                    /\ waiting' = FALSE /\ emit(<<[key |-> "attn", value |-> FALSE]>>)
                    /\ UNCHANGED <<run, comp, hub, stream, records, client, breaks>>

CompMoves == [cold |-> {"waking"}, waking |-> {"awake", "cold"}, awake |-> {"warm", "cold"},
              warm |-> {"awake", "cold"}]

computerMoves == /\ \E to \in CompMoves[comp] :
                      comp' = to /\ emit(<<[key |-> "state", value |-> to]>>)
                 /\ UNCHANGED <<run, waiting, hub, stream, records, client, breaks>>

(* The owner is not known, or the call fails: the event is gone. *)
publishLost == /\ \E p \in pubs : pubs' = pubs \ {p}
               /\ UNCHANGED <<run, waiting, comp, emits, hub, stream, records, client, breaks>>

--------------------------------------------------------------------------------
(* The hub. *)

(* publish numbers the event and writes it to the open stream; a subscriber
   that is too far behind is dropped. *)
publish == /\ \E p \in pubs :
                /\ pubs' = pubs \ {p}
                /\ IF stream # "open" THEN UNCHANGED <<stream, records>>
                   ELSE IF Len(records) > MaxInflight
                        THEN stream' = "dropped" /\ UNCHANGED records
                   ELSE /\ records' = Append(records, [key |-> p.key, value |-> p.value,
                                                       seq |-> seq + 1, turn |-> turn + 1])
                        /\ UNCHANGED stream
           /\ seq' = seq + 1 /\ turn' = turn + 1
           /\ UNCHANGED <<run, waiting, comp, emits, clock, client, breaks>>

(* Mutant: a new hub numbers its events from nothing. *)
seedFromNothing == 0

seed == clock

(* The hub is evicted with its subscribers; the next one seeds #seq from the
   clock, which has moved further than the hub has counted. *)
restart == /\ clock > seq /\ seq' = seed
           /\ stream' = IF stream = "open" THEN "dropped" ELSE stream
           /\ UNCHANGED <<run, waiting, comp, emits, pubs, clock, turn, records, client, breaks>>

tick == /\ clock < MaxTicks /\ clock' = clock + 1
        /\ UNCHANGED <<run, waiting, comp, emits, pubs, seq, turn, stream, records, client,
                       breaks>>

--------------------------------------------------------------------------------
(* The client. *)

connect == /\ stream = "none" /\ stream' = "open" /\ records' = <<>>
           /\ UNCHANGED <<run, waiting, comp, emits, pubs, hub, client, breaks>>

(* The source fails, with what it had not delivered, and is retried. *)
onerror == /\ \/ stream = "dropped" /\ UNCHANGED breaks
              \/ stream = "open" /\ breaks < MaxBreaks /\ breaks' = breaks + 1
           /\ stream' = "none" /\ records' = <<>>
           /\ UNCHANGED <<run, waiting, comp, emits, pubs, hub, client>>

(* Mutant: what was heard last wins. *)
lastHeard(a, b) == b

mergeRunState(a, b) == IF Rank[a] >= Rank[b] THEN a ELSE b

applyEvent(m, e) ==
  LET marked == [m EXCEPT !.applied[e.key] = e.seq, !.turn[e.key] = e.turn]
      merged == mergeRunState(m.run, e.value)
  IN IF e.seq <= m.applied[e.key] THEN m
     ELSE CASE e.key = "state" -> [marked EXCEPT !.state = e.value]
            [] e.key = "attn" -> [marked EXCEPT !.attn = e.value]
            [] e.key = "run" -> [marked EXCEPT !.run = merged,
                                               !.attn = m.attn /\ isActive(merged)]

deliver == /\ stream # "none" /\ records # <<>>
           /\ model' = applyEvent(model, Head(records))
           /\ got' = [got EXCEPT ![Head(records).key] = Head(records).turn]
           /\ records' = Tail(records)
           /\ UNCHANGED <<run, waiting, comp, emits, pubs, hub, stream, rest, asked, breaks>>

(* The runs list is read over REST; the answer is older than its arrival. *)
request == /\ asked = Unknown /\ asked' = run
           /\ UNCHANGED <<run, waiting, comp, emits, pubs, hub, stream, records, model, got,
                          rest, breaks>>

response == /\ asked # Unknown /\ rest' = asked /\ asked' = Unknown
            /\ UNCHANGED <<run, waiting, comp, emits, pubs, hub, stream, records, model, got,
                           breaks>>

(* mergeRuns, the one row: a live run joins or completes the REST row; the
   attention shows when there is a row to show it on. *)
row == [state |-> IF rest = Unknown THEN model.run
                  ELSE IF model.run = Unknown THEN rest
                  ELSE mergeRunState(rest, model.run),
        attention |-> model.attn /\ (rest # Unknown \/ model.run # Unknown)]

Next == \/ runMoves \/ raiseInterrupted \/ onAttention \/ dismissAttention \/ computerMoves \/ publishLost
        \/ publish \/ restart \/ tick \/ connect \/ onerror \/ deliver \/ request \/ response

Spec == Init /\ [][Next]_vars

--------------------------------------------------------------------------------
(* A run the interface has shown finished is never shown unfinished again, in
   whatever order events and REST answers reach it: runs/merge.ts and the fold
   of events/reducer.ts over the fire-and-forget publishes of computer-do.ts. *)
StaysFinished == isTerminal(row.state) => isTerminal(row'.state)
FinishedStaysFinished == [][StaysFinished]_<<model, rest>>

(* No event the stream delivered was mistaken for a stale one: the last the
   client applied about an entity is the last the hub published of those that
   reached it, across the hub's restarts (the seeding of #seq in events-do.ts
   against the high-water marks of events/reducer.ts). *)
FreshIsApplied == model.turn = got
================================================================================
