---------------------------- MODULE JournalIngest -----------------------------
(***************************************************************************)
(* The output of one run on its way from marid to the control plane.       *)
(*                                                                         *)
(* marid keeps the run's journal (crates/marid/src/journal.rs), streams it *)
(* over whichever control socket is up (supervisor.rs, flush_journals) and *)
(* may continue the run in a later generation (continuation.rs).  The      *)
(* computer's Durable Object takes frames at the offset they claim, holds  *)
(* them in a buffer for FLUSH_MS, makes them durable and acknowledges them *)
(* (computer-do.ts, #onJournalFrame and #flushRun).                        *)
(*                                                                         *)
(* One run: both sides keep every variable below per run, and share only   *)
(* the sockets.  No two bytes are equal, so that a byte tells which life   *)
(* of the run produced it and at which offset.                             *)
(***************************************************************************)
EXTENDS Naturals, SequencesExt

CONSTANTS
    MaxBytes,     \* bound: offsets the run reaches
    FrameChunk,   \* FRAME_CHUNK, the most bytes one frame carries
    MaxConns,     \* bound: control sockets opened
    MaxGens,      \* bound: generations of the computer
    MaxRestarts,  \* bound: restarts of the Durable Object
    MaxFailures   \* bound: flushes whose write fails

Offsets == 0..MaxBytes
Unset   == MaxBytes + 1  \* no entry in a map of offsets
Conns   == 1..MaxConns
Gens    == 1..MaxGens
Bytes   == Gens \X Offsets

ASSUME ConstAssumption ==
    /\ MaxBytes \in Nat \ {0} /\ FrameChunk \in Nat \ {0}
    /\ MaxConns \in Nat \ {0} /\ MaxGens \in Nat \ {0}
    /\ MaxRestarts \in Nat /\ MaxFailures \in Nat

VARIABLES
    gen,        \* the computer's generation, and marid's
    truth,      \* what the run printed, as its latest life continues it
    base,       \* Journal.base: the offset this life started at
    stored,     \* the journal end the run's record and segments attest to
    serving,    \* this marid holds a journal of the run
    startup,    \* run_startup_continuation: "waiting", "started" or "done"
    acked,      \* Shared.acked, Unset without an entry
    conn,       \* every socket ever opened, with what is in flight on it
    used,       \* sockets opened so far
    cur,        \* the socket marid serves, 0 for none
    durable,    \* the `journal' table; its length is `journal_head'
    pending,    \* the coalescing buffer, anchored at the end of `durable'
    anomalies,  \* kinds in the `journal_anomaly' table
    active,     \* `#supervisor', 0 for null
    auth,       \* the keys of `#authEpoch'
    restarts,   \* restarts of the object left
    failures    \* failing flushes left

maridVars == <<truth, base, stored, serving, startup, acked>>
doVars    == <<durable, pending, anomalies, active, auth>>
linkVars  == <<conn, used, cur>>
vars == <<gen, maridVars, linkVars, doVars, restarts, failures>>

Lower(a, b)  == IF a < b THEN a ELSE b
Higher(a, b) == IF a < b THEN b ELSE a

-----------------------------------------------------------------------------
(* State.                                                                  *)

(* One socket: the generation whose token its hello carries, marid's       *)
(* per-connection `sent' mark, and the messages in flight each way.        *)
Hello             == [kind |-> "hello", at |-> 0, bytes |-> <<>>]
Frame(at, bytes)  == [kind |-> "frame", at |-> at, bytes |-> bytes]
HelloAck(offset)  == [kind |-> "hello_ack", offset |-> offset]
JournalAck(offset) == [kind |-> "journal_ack", offset |-> offset]

unopened == [gen |-> 1, sent |-> Unset, wire |-> <<>>, back |-> <<>>]

Init ==  \* the run has just started, over the first socket
    /\ gen = 1 /\ truth = <<>> /\ base = 0 /\ stored = 0
    /\ serving = TRUE /\ startup = "done" /\ acked = Unset
    /\ conn = [c \in Conns |-> unopened] /\ used = 1 /\ cur = 1
    /\ durable = <<>> /\ pending = <<>> /\ anomalies = {}
    /\ active = 1 /\ auth = {1}
    /\ restarts = MaxRestarts /\ failures = MaxFailures

(* #sendControl: to the active channel, and lost with it.                  *)
SendControl(msg) ==
    IF active = 0 \/ active # cur THEN conn
    ELSE [conn EXCEPT ![active].back = Append(@, msg)]

-----------------------------------------------------------------------------
(* marid.                                                                  *)

(* The run prints, and the reader thread appends.                          *)
append ==
    /\ serving /\ Len(truth) < MaxBytes
    /\ truth' = Append(truth, <<gen, Len(truth)>>)
    /\ UNCHANGED <<gen, base, stored, serving, startup, acked, linkVars,
                   doVars, restarts, failures>>

(* A segment reaches the disk, the store and the run's record.             *)
flush_ready_segments ==
    /\ serving
    /\ stored' \in (stored + 1)..Len(truth)
    /\ UNCHANGED <<gen, truth, base, serving, startup, acked, linkVars,
                   doVars, restarts, failures>>

connect ==
    /\ cur = 0 /\ used < MaxConns
    /\ used' = used + 1 /\ cur' = used + 1
    /\ conn' = [conn EXCEPT ![used + 1] =
                  [unopened EXCEPT !.gen = gen, !.wire = <<Hello>>]]
    /\ UNCHANGED <<gen, maridVars, doVars, restarts, failures>>

(* read_from: empty below the base, and at or past the end.                *)
read_from(off) ==
    IF off < base THEN <<>>
    ELSE SubSeq(truth, off + 1, Lower(off + FrameChunk, Len(truth)))

(* Mutant: the journal's base is not looked at.                            *)
streamFromMark ==
    IF conn[cur].sent # Unset THEN conn[cur].sent
    ELSE IF acked # Unset THEN acked ELSE 0
(* Where flush_journals goes on: its mark on this socket, else the acked   *)
(* offset, and never below what this life holds.                           *)
streamFrom ==
    LET sent == conn[cur].sent
        mark == IF sent # Unset THEN sent
                ELSE IF acked # Unset THEN acked ELSE 0
    IN  Higher(mark, base)

(* Mutant: the mark moves by the chunk asked for, not the one read.        *)
flush_journalsByChunk ==
    /\ cur # 0 /\ serving
    /\ LET off == streamFrom
           chunk == read_from(off)
       IN  /\ chunk # <<>> \/ conn[cur].sent = Unset
           /\ conn' = [conn EXCEPT
                ![cur].sent = off + FrameChunk,
                ![cur].wire = IF chunk = <<>> THEN @ ELSE Append(@, Frame(off, chunk))]
    /\ UNCHANGED <<gen, maridVars, used, cur, doVars, restarts, failures>>
(* One turn of the loop of flush_journals.                                 *)
flush_journals ==
    /\ cur # 0 /\ serving
    /\ LET off == streamFrom
           chunk == read_from(off)
       IN  /\ chunk # <<>> \/ conn[cur].sent = Unset
           /\ conn' = [conn EXCEPT
                ![cur].sent = off + Len(chunk),
                ![cur].wire = IF chunk = <<>> THEN @ ELSE Append(@, Frame(off, chunk))]
    /\ UNCHANGED <<gen, maridVars, used, cur, doVars, restarts, failures>>

(* handle_control: the two messages that carry an offset.  The first       *)
(* hello_ack of a process also starts the continuation pass.               *)
handle_control ==
    /\ cur # 0 /\ conn[cur].back # <<>>
    /\ LET msg == Head(conn[cur].back)
           resets == msg.kind = "hello_ack" /\ msg.offset # Unset
       IN  /\ conn' = [conn EXCEPT
                 ![cur].back = Tail(@),
                 ![cur].sent = IF resets THEN msg.offset ELSE @]
           /\ acked' = IF msg.offset # Unset THEN msg.offset ELSE acked
           /\ startup' = IF msg.kind = "hello_ack" /\ startup = "waiting"
                         THEN "started" ELSE startup
    /\ UNCHANGED <<gen, truth, base, stored, serving, used, cur, doVars,
                   restarts, failures>>

(* Mutant: the control plane's own offset is not asked for.                *)
resumeStored == stored
(* The highest journal end any surviving copy attests to.                  *)
resume_offset == Higher(stored, IF acked = Unset THEN 0 ELSE acked)

(* A run whose agent has a resume command goes on, from its resume_offset. *)
continue_run ==
    /\ startup = "started"
    /\ startup' = "done" /\ serving' = TRUE
    /\ base' = resume_offset
    /\ truth' = SubSeq(truth, 1, resume_offset)
    /\ UNCHANGED <<gen, stored, acked, linkVars, doVars, restarts, failures>>

(* The socket dies under marid, which will open another.  What it had sent *)
(* may still arrive.                                                       *)
disconnect ==
    /\ cur # 0 /\ used < MaxConns
    /\ cur' = 0 /\ conn' = [conn EXCEPT ![cur].back = <<>>]
    /\ UNCHANGED <<gen, maridVars, used, doVars, restarts, failures>>

-----------------------------------------------------------------------------
(* The Durable Object.                                                     *)

(* Mutant: the handshake alone is taken for authority.                     *)
FencedByHandshakeOnly(c) == c \in auth
isCurrentSupervisor(c) == c \in auth /\ conn[c].gen = gen

(* The durable head per run; a run that never flushed has no row.          *)
allRunHeads == IF durable = <<>> THEN Unset ELSE Len(durable)

onHello(c) ==
    /\ conn[c].wire # <<>> /\ Head(conn[c].wire).kind = "hello"
    /\ IF conn[c].gen = gen
       THEN /\ active' = c /\ auth' = auth \cup {c}
            /\ conn' = [conn EXCEPT ![c].wire = Tail(@),
                 ![c].back = IF c = cur THEN Append(@, HelloAck(allRunHeads)) ELSE @]
       ELSE /\ conn' = [conn EXCEPT ![c].wire = <<>>]
            /\ UNCHANGED <<active, auth>>
    /\ UNCHANGED <<gen, maridVars, used, cur, durable, pending, anomalies,
                   restarts, failures>>

nextOffset == Len(durable) + Len(pending)

(* What is held below nextOffset, compared with what a frame re-sends.     *)
Replays(at, bytes) ==
    LET overlap == Lower(Len(bytes), nextOffset - at)
    IN  SubSeq(durable \o pending, at + 1, at + overlap) = SubSeq(bytes, 1, overlap)

(* Mutant: a frame is appended whole, whatever offset it claims.           *)
WholeFrame(at, bytes) == bytes
(* The part of a frame that is beyond nextOffset: all of it after a gap.   *)
NewPart(at, bytes) ==
    IF at >= nextOffset THEN bytes
    ELSE SubSeq(bytes, nextOffset - at + 1, Len(bytes))

(* Mutant: a hole is absorbed in silence.                                  *)
AnomalyOfReplay(at, bytes) ==
    IF at >= nextOffset THEN {}
    ELSE {IF Replays(at, bytes) THEN "duplicate" ELSE "divergent"}
Anomaly(at, bytes) ==
    IF at < nextOffset
    THEN {IF Replays(at, bytes) THEN "duplicate" ELSE "divergent"}
    ELSE IF at > nextOffset THEN {"gap"} ELSE {}

onJournalFrame(c) ==
    /\ conn[c].wire # <<>> /\ Head(conn[c].wire).kind = "frame"
    /\ LET f == Head(conn[c].wire)
       IN  IF isCurrentSupervisor(c)
           THEN /\ anomalies' = anomalies \cup Anomaly(f.at, f.bytes)
                /\ pending' = pending \o NewPart(f.at, f.bytes)
           ELSE UNCHANGED <<anomalies, pending>>
    /\ conn' = [conn EXCEPT ![c].wire = Tail(@)]
    /\ UNCHANGED <<gen, maridVars, used, cur, durable, active, auth,
                   restarts, failures>>

(* The timer of #scheduleFlush.                                            *)
flushRun ==
    /\ pending # <<>>
    /\ durable' = durable \o pending /\ pending' = <<>>
    /\ conn' = SendControl(JournalAck(nextOffset))
    /\ UNCHANGED <<gen, maridVars, used, cur, anomalies, active, auth,
                   restarts, failures>>

(* The write throws: #flushRun had already taken the buffer out of         *)
(* `#pending', and #flushAll only logs.                                    *)
flushFails ==
    /\ pending # <<>> /\ failures > 0
    /\ failures' = failures - 1 /\ pending' = <<>>
    /\ UNCHANGED <<gen, maridVars, linkVars, durable, anomalies, active, auth,
                   restarts>>

(* The close of a socket marid has left: either everything it had sent was *)
(* handled before, or the rest is lost.                                    *)
onClose(c) ==
    /\ c # cur /\ c \in auth
    /\ auth' = auth \ {c} /\ active' = IF active = c THEN 0 ELSE active
    /\ conn' = [conn EXCEPT ![c].wire = <<>>]
    /\ UNCHANGED <<gen, maridVars, used, cur, durable, pending, anomalies,
                   restarts, failures>>

(* The object restarts: memory and sockets are gone, SQLite is not.        *)
restart ==
    /\ restarts > 0 /\ used < MaxConns
    /\ restarts' = restarts - 1
    /\ pending' = <<>> /\ active' = 0 /\ auth' = {}
    /\ cur' = 0
    /\ conn' = [c \in Conns |-> [conn[c] EXCEPT !.wire = <<>>, !.back = <<>>]]
    /\ UNCHANGED <<gen, maridVars, used, durable, anomalies, failures>>

(* The computer sleeps or loses its instance and wakes: a new marid, with  *)
(* nothing but the store, and a new token.  A boot takes longer than       *)
(* FLUSH_MS, so the buffer is empty by then.                               *)
nextGeneration ==
    /\ gen < MaxGens /\ used < MaxConns /\ pending = <<>>
    /\ gen' = gen + 1
    /\ serving' = FALSE /\ startup' = "waiting" /\ acked' = Unset
    /\ cur' = 0
    /\ conn' = IF cur = 0 THEN conn ELSE [conn EXCEPT ![cur].back = <<>>]
    /\ UNCHANGED <<truth, base, stored, used, doVars, restarts, failures>>

-----------------------------------------------------------------------------
Marid == append \/ flush_ready_segments \/ connect \/ flush_journals
         \/ handle_control \/ continue_run

DurableObject ==
    flushRun \/ \E c \in Conns : onHello(c) \/ onJournalFrame(c) \/ onClose(c)

Environment == disconnect \/ restart \/ nextGeneration \/ flushFails

Next == Marid \/ DurableObject \/ Environment

Spec == Init /\ [][Next]_vars

(* marid's loop keeps reconnecting, streaming and reading; sockets         *)
(* deliver; the flush timer fires.  Nothing makes the run print, a segment *)
(* reach the store, or a fault happen.  Faults are bounded, so one last    *)
(* socket stays up.                                                        *)
Fairness ==
    /\ WF_vars(connect) /\ WF_vars(flush_journals) /\ WF_vars(handle_control)
    /\ WF_vars(flushRun)
    /\ \A c \in Conns : WF_vars(onHello(c)) /\ WF_vars(onJournalFrame(c))

LiveSpec == Spec /\ Fairness

-----------------------------------------------------------------------------
(* Properties.                                                             *)

Message == [kind : {"hello", "frame"}, at : Offsets, bytes : Seq(Bytes)]
Reply   == [kind : {"hello_ack", "journal_ack"}, offset : Offsets \cup {Unset}]

(* Every variable keeps its type, and no length passes the run's offsets.  *)
TypeOK ==
    /\ gen \in Gens /\ truth \in Seq(Bytes) /\ Len(truth) \in Offsets
    /\ base \in Offsets /\ stored \in Offsets
    /\ serving \in BOOLEAN /\ startup \in {"waiting", "started", "done"}
    /\ acked \in Offsets \cup {Unset}
    /\ conn \in [Conns -> [gen : Gens, sent : Offsets \cup {Unset},
                           wire : Seq(Message), back : Seq(Reply)]]
    /\ used \in Conns /\ cur \in 0..used
    /\ durable \in Seq(Bytes) /\ pending \in Seq(Bytes)
    /\ anomalies \subseteq {"duplicate", "divergent", "gap"}
    /\ active \in 0..used /\ auth \subseteq Conns
    /\ restarts \in 0..MaxRestarts /\ failures \in 0..MaxFailures

Holed == "gap" \in anomalies

(* What the object holds for the run, durable and buffered, is the output  *)
(* from its first byte on, each byte at its own offset, for as long as no  *)
(* gap was recorded: reconnects, restarts and continuations included.      *)
InPlace == ~Holed => IsPrefix(durable \o pending, truth)

(* The object never holds more of the run than marid has: an ack above the *)
(* journal's end would make the next socket skip output still to come.     *)
NeverPastEnd == nextOffset <= Len(truth)

(* Two different bytes are only ever claimed for one offset after a hole   *)
(* shifted the journal: a divergence is not a second writer.               *)
DivergesOnlyHoled == "divergent" \in anomalies => Holed

(* What the generation now serving has printed becomes durable, however    *)
(* often the socket dies and the object restarts, unless the next          *)
(* generation comes first.                                                 *)
Printed(g, at)  == \E i \in DOMAIN truth : truth[i] = <<g, at>>
Journaled(g, at) == \E i \in DOMAIN durable : durable[i] = <<g, at>>

(* ... as long as every flush can write.                                   *)
Delivered ==
    \A g \in Gens, at \in 0..(MaxBytes - 1) :
        Printed(g, at) ~> (Journaled(g, at) \/ gen # g \/ failures < MaxFailures)

(* ... and when one cannot, because marid sends its bytes again            *)
(* (computer-do.ts, the comment in #flushAll).                             *)
DeliveredAnyway ==
    \A g \in Gens, at \in 0..(MaxBytes - 1) :
        Printed(g, at) ~> (Journaled(g, at) \/ gen # g)

(* A frame that is sent again does not write its bytes a second time.      *)
(* (computer-do.ts, the comment on #onJournalFrame.)                       *)
WrittenOnce ==
    LET held == durable \o pending
    IN  \A i, j \in DOMAIN held : held[i] = held[j] => i = j

(* The journal keeps its promise, whatever happens to sockets and object.  *)
Promise == INSTANCE JournalPromise
             WITH produced <- truth, durable <- durable, holed <- Holed,
                  Bytes <- Bytes
PromiseKept == Promise!Spec
===============================================================================
