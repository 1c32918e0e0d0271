------------------------- MODULE JournalIngestProofs -------------------------
(***************************************************************************)
(* What the durable journal of a run is, for every number of bytes,        *)
(* sockets, generations, restarts and failing flushes: in place, never     *)
(* past the run's end, and an implementation of JournalPromise.            *)
(***************************************************************************)
EXTENDS JournalIngest, SequenceTheorems, TLAPS

-----------------------------------------------------------------------------
(* What is in flight.                                                      *)
Elems(s) == {s[i] : i \in 1..Len(s)}

LEMMA NoElems == Elems(<<>>) = {}
  BY DEF Elems

LEMMA HeadElems ==
    ASSUME NEW S, NEW s \in Seq(S), s # <<>>
    PROVE  /\ Head(s) \in Elems(s) /\ Head(s) \in S
           /\ Tail(s) \in Seq(S) /\ Elems(Tail(s)) \subseteq Elems(s)
  BY DEF Elems

LEMMA AppendElems ==
    ASSUME NEW S, NEW s \in Seq(S), NEW x \in S
    PROVE  Append(s, x) \in Seq(S) /\ Elems(Append(s, x)) = Elems(s) \cup {x}
  <1>1. /\ Append(s, x) \in Seq(S) /\ Len(Append(s, x)) = Len(s) + 1
        /\ \A i \in 1..Len(s) : Append(s, x)[i] = s[i]
        /\ Append(s, x)[Len(s) + 1] = x
    OBVIOUS
  <1> QED
    BY <1>1 DEF Elems

-----------------------------------------------------------------------------
(* Types, as far as the argument looks.                                    *)
Frames == [kind : {"hello", "frame"}, at : Nat, bytes : Seq(Bytes)]
Acks   == [kind : {"hello_ack", "journal_ack"}, offset : Nat]
Link   == [gen : Nat, sent : Nat, wire : Seq(Frames), back : Seq(Acks)]

Typed == /\ gen \in 1..MaxGens /\ truth \in Seq(Bytes) /\ durable \in Seq(Bytes)
         /\ pending \in Seq(Bytes) /\ base \in Nat /\ stored \in Nat /\ acked \in Nat
         /\ conn \in [Conns -> Link] /\ used \in Conns /\ cur \in 0..used
         /\ Len(truth) <= MaxBytes

(* A frame says what the run printed, at its own offset.                   *)
FrameTrue(f) == f.kind = "frame" =>
                  /\ f.at + Len(f.bytes) <= Len(truth)
                  /\ \A i \in 1..Len(f.bytes) : f.bytes[i] = truth[f.at + i]

(* Every frame of the current generation in flight is true; no socket is   *)
(* of a generation to come, and marid serves one of its own.               *)
WiresTrue == \A c \in Conns : conn[c].gen = gen =>
                                \A f \in Elems(conn[c].wire) : FrameTrue(f)
GensBehind == /\ \A c \in Conns : conn[c].gen <= gen
              /\ cur # 0 => conn[cur].gen = gen

(* Until a generation has continued the run it has sent no frame, and the  *)
(* only offset it can have heard is the durable one.                       *)
QuietWires == startup # "done" =>
  /\ \A c \in Conns : conn[c].gen = gen => \A f \in Elems(conn[c].wire) : f.kind = "hello"
  /\ cur # 0 => \A k \in Elems(conn[cur].back) : k.kind = "hello_ack" /\ k.offset = allRunHeads
Quiet == startup # "done" =>
  /\ ~serving /\ pending = <<>>
  /\ acked \in {Unset, Len(durable)}
  /\ startup = "started" /\ durable # <<>> => acked = Len(durable)

(* InPlace, byte by byte.                                                  *)
Held == durable \o pending
BytesInPlace == ~Holed => \A i \in 1..Len(Held) : Held[i] = truth[i]

JInv == /\ Typed /\ WiresTrue /\ GensBehind /\ QuietWires /\ Quiet /\ stored <= Len(truth)
        /\ NeverPastEnd /\ BytesInPlace /\ DivergesOnlyHoled

-----------------------------------------------------------------------------
(* A socket with one of its parts replaced.                                *)
LEMMA OneLink ==
    ASSUME Typed, NEW c \in Conns, NEW l \in Link, NEW k, k = [conn EXCEPT ![c] = l]
    PROVE  k \in [Conns -> Link] /\ k[c] = l /\ \A x \in Conns \ {c} : k[x] = conn[x]
  BY DEF Typed

(* The socket marid serves is one that was opened.                         *)
LEMMA Serving ==
    ASSUME Typed, cur # 0
    PROVE  cur \in Conns /\ conn[cur] \in Link
  BY ConstAssumption DEF Typed, Conns

LEMMA AtRest ==
    ASSUME Typed
    PROVE  <<>> \in Seq(Bytes) /\ 0 \in 0..used
  <1>1. <<>> \in Seq(Bytes)
    OBVIOUS
  <1>2. 0 \in 0..used
    BY ConstAssumption DEF Typed, Conns
  <1> QED
    BY <1>1, <1>2

LEMMA NoMessages == <<>> \in Seq(Frames) /\ <<>> \in Seq(Acks)
  OBVIOUS

LEMMA LinkHas ==
    ASSUME NEW l \in Link
    PROVE  /\ l.gen \in Nat /\ l.sent \in Nat /\ l.wire \in Seq(Frames) /\ l.back \in Seq(Acks)
  BY DEF Link

LEMMA Unopened ==
    ASSUME Typed
    PROVE  unopened \in Link /\ unopened.back = <<>>
  BY ConstAssumption, NoMessages DEF unopened, Link, Unset

LEMMA FramesLeft ==
    ASSUME NEW w \in Seq(Frames), w # <<>>
    PROVE  /\ Head(w) \in Elems(w) /\ Head(w) \in Frames
           /\ Tail(w) \in Seq(Frames) /\ Elems(Tail(w)) \subseteq Elems(w)
  BY HeadElems

LEMMA AcksLeft ==
    ASSUME NEW b \in Seq(Acks), b # <<>>
    PROVE  /\ Head(b) \in Elems(b) /\ Head(b) \in Acks
           /\ Tail(b) \in Seq(Acks) /\ Elems(Tail(b)) \subseteq Elems(b)
  BY HeadElems

(* A chunk of the journal: what the run printed, from `off' on.            *)
LEMMA Chunk ==
    ASSUME Typed, NEW off \in Nat
    PROVE  LET chunk == read_from(off)
           IN  /\ chunk \in Seq(Bytes) /\ Len(chunk) \in Nat
               /\ chunk # <<>> => off + Len(chunk) <= Len(truth)
               /\ \A i \in 1..Len(chunk) : chunk[i] = truth[off + i]
  <1> DEFINE chunk == read_from(off)
             end == Lower(off + FrameChunk, Len(truth))
  <1>1. CASE off < base
    BY <1>1 DEF read_from
  <1>2. CASE ~(off < base)
    <2>1. end \in Nat /\ end <= Len(truth) /\ truth \in Seq(Bytes)
      BY ConstAssumption DEF Typed, Lower
    <2>2. chunk = SubSeq(truth, off + 1, end)
      BY <1>2 DEF read_from
    <2> HIDE DEF chunk, end
    <2>3. CASE off + 1 <= end
      <3>1. chunk \in Seq(Bytes) /\ Len(chunk) = end - off
            /\ \A i \in 1..(end - off) : chunk[i] = truth[off + i]
        BY <2>1, <2>2, <2>3
      <3> QED
        BY <2>1, <3>1 DEF chunk
    <2>4. CASE ~(off + 1 <= end)
      <3>1. chunk = <<>>
        BY <2>1, <2>2, <2>4
      <3> QED
        BY <3>1 DEF chunk
    <2> QED
      BY <2>3, <2>4
  <1> QED
    BY <1>1, <1>2

LEMMA Lengths ==
    ASSUME Typed
    PROVE  /\ Held \in Seq(Bytes) /\ Len(Held) = Len(durable) + Len(pending)
           /\ nextOffset = Len(Held) /\ Len(durable) \in Nat /\ Len(pending) \in Nat
           /\ Len(truth) \in Nat /\ MaxBytes \in Nat /\ Unset \in Nat
           /\ \A i \in 1..Len(durable) : Held[i] = durable[i]
           /\ \A i \in 1..Len(pending) : Held[Len(durable) + i] = pending[i]
  BY ConstAssumption DEF Typed, Held, nextOffset, Unset

(* Fewer messages in flight, of the same run, are as true.                 *)
LEMMA FewerInFlight ==
    ASSUME WiresTrue, UNCHANGED <<truth, gen>>,
           \A c \in Conns : conn'[c].gen = gen =>
              conn[c].gen = gen /\ Elems(conn'[c].wire) \subseteq Elems(conn[c].wire)
    PROVE  WiresTrue'
  BY DEF WiresTrue, FrameTrue

(* The bytes held and the run's output stay as they were.                  *)
LEMMA SameBytes ==
    ASSUME NeverPastEnd, BytesInPlace, DivergesOnlyHoled,
           UNCHANGED <<truth, durable, pending, anomalies>>
    PROVE  NeverPastEnd' /\ BytesInPlace' /\ DivergesOnlyHoled'
  BY DEF NeverPastEnd, BytesInPlace, DivergesOnlyHoled, Holed, Held, nextOffset

(* A buffer that is lost takes its bytes with it.                          *)
LEMMA BufferLost ==
    ASSUME Typed, NeverPastEnd, BytesInPlace, DivergesOnlyHoled, pending' = <<>>,
           UNCHANGED <<truth, durable, anomalies>>
    PROVE  NeverPastEnd' /\ BytesInPlace' /\ DivergesOnlyHoled'
  <1>1. Held' = durable /\ nextOffset' = Len(durable)
    BY DEF Typed, Held, nextOffset
  <1> QED
    BY <1>1, Lengths DEF NeverPastEnd, BytesInPlace, DivergesOnlyHoled, Holed

LEMMA InitJInv == Init => JInv
  <1> SUFFICES ASSUME Init PROVE JInv
    OBVIOUS
  <1>1. unopened \in Link
    BY ConstAssumption DEF unopened, Link, Unset
  <1>2. Typed
    BY <1>1, ConstAssumption DEF Init, Typed, Conns, Unset
  <1>3. \A c \in Conns : Elems(conn[c].wire) = {} /\ conn[c].gen = 1
    BY NoElems DEF Init, unopened
  <1>4. 1 \in Conns
    BY ConstAssumption DEF Conns
  <1>5. Held = <<>> /\ nextOffset = 0 /\ Len(truth) = 0
    BY DEF Init, Held, nextOffset
  <1> QED
    BY <1>2, <1>3, <1>4, <1>5
    DEF Init, JInv, WiresTrue, GensBehind, QuietWires, Quiet, NeverPastEnd, BytesInPlace,
        DivergesOnlyHoled, Holed

LEMMA AppendKeeps ==
    ASSUME JInv, append
    PROVE  JInv'
  <1> USE DEF JInv, append, linkVars, doVars
  <1>1. <<gen, Len(truth)>> \in Bytes
    BY ConstAssumption DEF Typed, Bytes, Gens, Offsets
  <1>2. /\ truth' \in Seq(Bytes) /\ Len(truth') = Len(truth) + 1 /\ Len(truth) \in Nat
        /\ \A i \in 1..Len(truth) : truth'[i] = truth[i]
    BY <1>1 DEF Typed
  <1>3. Typed'
    BY <1>2, ConstAssumption DEF Typed
  <1>4. WiresTrue'
    <2> SUFFICES ASSUME NEW c \in Conns, conn[c].gen = gen, NEW f \in Elems(conn[c].wire)
                 PROVE  FrameTrue(f)'
      BY DEF WiresTrue
    <2>0. WiresTrue /\ conn[c] \in Link
      BY DEF Typed
    <2> HIDE DEF JInv, append, linkVars, doVars
    <2>1. f \in Frames /\ FrameTrue(f)
      <3>1. conn[c].wire \in Seq(Frames)
        BY <2>0 DEF Link
      <3> QED
        BY <2>0, <3>1 DEF WiresTrue, Elems
    <2> QED
      BY <1>2, <2>1 DEF FrameTrue, Frames
  <1>5. NeverPastEnd' /\ BytesInPlace' /\ DivergesOnlyHoled'
    BY <1>2, Lengths DEF NeverPastEnd, BytesInPlace, DivergesOnlyHoled, Holed, Held, nextOffset
  <1> QED
    BY <1>2, <1>3, <1>4, <1>5 DEF Typed, GensBehind, QuietWires, Quiet, allRunHeads

LEMMA SegmentsKeeps ==
    ASSUME JInv, flush_ready_segments
    PROVE  JInv'
  <1> USE DEF JInv, flush_ready_segments, linkVars, doVars
  <1>1. Typed' /\ stored' <= Len(truth)
    BY Lengths DEF Typed
  <1>2. WiresTrue'
    BY FewerInFlight
  <1>3. NeverPastEnd' /\ BytesInPlace' /\ DivergesOnlyHoled'
    BY SameBytes
  <1> QED
    BY <1>1, <1>2, <1>3 DEF GensBehind, QuietWires, Quiet, allRunHeads

LEMMA ConnectKeeps ==
    ASSUME JInv, connect
    PROVE  JInv'
  <1> USE DEF JInv, connect, maridVars, doVars
  <1> DEFINE l == [unopened EXCEPT !.gen = gen, !.wire = <<Hello>>]
  <1>1. used + 1 \in Conns /\ Hello \in Frames
    BY ConstAssumption DEF Typed, Conns, Hello, Frames
  <1>2. l \in Link /\ l.gen = gen /\ l.back = <<>> /\ Elems(l.wire) = {Hello}
    <2>1. unopened \in Link /\ unopened.back = <<>>
      BY Unopened
    <2>2. gen \in Nat
      BY DEF Typed
    <2>3. <<Hello>> \in Seq(Frames) /\ Elems(<<Hello>>) = {Hello}
      BY <1>1 DEF Elems
    <2>4. l = [unopened EXCEPT !.gen = gen, !.wire = <<Hello>>]
      OBVIOUS
    <2> HIDE DEF l
    <2> QED
      BY <2>1, <2>2, <2>3, <2>4 DEF Link
  <1>3. /\ conn' \in [Conns -> Link] /\ conn'[used + 1] = l
        /\ \A x \in Conns \ {used + 1} : conn'[x] = conn[x]
    <2>1. conn' = [conn EXCEPT ![used + 1] = l]
      OBVIOUS
    <2> HIDE DEF l
    <2> QED
      BY <1>1, <1>2, <2>1, OneLink DEF Typed
  <1>4. Typed'
    BY <1>1, <1>3 DEF Typed, Conns
  <1>5. WiresTrue'
    <2>1. FrameTrue(Hello)'
      BY DEF FrameTrue, Hello
    <2> QED
      BY <1>2, <1>3, <2>1 DEF WiresTrue, FrameTrue
  <1>6. GensBehind' /\ QuietWires'
    BY <1>1, <1>2, <1>3, NoElems DEF GensBehind, QuietWires, Typed, Hello
  <1>7. NeverPastEnd' /\ BytesInPlace' /\ DivergesOnlyHoled'
    BY SameBytes
  <1> QED
    BY <1>4, <1>5, <1>6, <1>7 DEF Quiet

LEMMA StreamKeeps ==
    ASSUME JInv, flush_journals
    PROVE  JInv'
  <1> USE DEF JInv, flush_journals, maridVars, doVars
  <1> DEFINE off == streamFrom
             chunk == read_from(off)
             w == IF chunk = <<>> THEN conn[cur].wire ELSE Append(conn[cur].wire, Frame(off, chunk))
  <1>1. /\ cur \in Conns /\ conn[cur] \in Link /\ conn[cur].gen = gen /\ startup = "done"
        /\ conn[cur].sent \in Nat /\ conn[cur].wire \in Seq(Frames)
    BY Serving, LinkHas DEF GensBehind, Quiet
  <1>2. off \in Nat
    BY <1>1 DEF Typed, streamFrom, Higher, Link
  <1>3. /\ chunk \in Seq(Bytes) /\ Len(chunk) \in Nat
        /\ chunk # <<>> => off + Len(chunk) <= Len(truth)
        /\ \A i \in 1..Len(chunk) : chunk[i] = truth[off + i]
    BY <1>2, Chunk
  <1>4. Frame(off, chunk) \in Frames /\ (chunk # <<>> => FrameTrue(Frame(off, chunk)))
    BY <1>2, <1>3 DEF Frames, Frame, FrameTrue
  <1>5. /\ w \in Seq(Frames)
        /\ Elems(w) \subseteq Elems(conn[cur].wire)
             \cup (IF chunk = <<>> THEN {} ELSE {Frame(off, chunk)})
    <2>1. CASE chunk = <<>>
      BY <1>1, <2>1
    <2>2. CASE chunk # <<>>
      <3>1. w = Append(conn[cur].wire, Frame(off, chunk))
        BY <2>2
      <3> HIDE DEF w
      <3> QED
        BY <1>1, <1>4, <2>2, <3>1, AppendElems
    <2> QED
      BY <2>1, <2>2
  <1>6. off + Len(chunk) \in Nat
    BY <1>2, <1>3
  <1>7. conn' = [conn EXCEPT ![cur] = [conn[cur] EXCEPT !.sent = off + Len(chunk), !.wire = w]]
    OBVIOUS
  <1> HIDE DEF off, chunk, w
  <1>8. /\ conn' \in [Conns -> Link] /\ \A x \in Conns \ {cur} : conn'[x] = conn[x]
        /\ conn'[cur].gen = gen /\ conn'[cur].wire = w /\ conn'[cur].back = conn[cur].back
    <2> DEFINE l == [conn[cur] EXCEPT !.sent = off + Len(chunk), !.wire = w]
    <2>0. l = [conn[cur] EXCEPT !.sent = off + Len(chunk), !.wire = w]
      OBVIOUS
    <2>1. l \in Link /\ l.gen = conn[cur].gen /\ l.wire = w /\ l.back = conn[cur].back
      <3> HIDE DEF l
      <3> QED
        BY <1>1, <1>5, <1>6, <2>0 DEF Link
    <2>2. conn' = [conn EXCEPT ![cur] = l]
      BY <1>7
    <2> HIDE DEF l
    <2> QED
      BY <1>1, <2>1, <2>2, OneLink
  <1>9. Typed'
    BY <1>8 DEF Typed
  <1>10. WiresTrue'
    <2> SUFFICES ASSUME NEW c \in Conns, conn'[c].gen = gen, NEW f \in Elems(conn'[c].wire)
                 PROVE  FrameTrue(f)
      BY DEF WiresTrue, FrameTrue
    <2>1. CASE f \in Elems(conn[c].wire) /\ conn[c].gen = gen
      BY <2>1 DEF WiresTrue
    <2>2. CASE chunk # <<>> /\ f = Frame(off, chunk)
      BY <1>4, <2>2
    <2> QED
      BY <1>1, <1>5, <1>8, <2>1, <2>2
  <1>11. GensBehind' /\ QuietWires' /\ Quiet'
    BY <1>1, <1>8 DEF GensBehind, QuietWires, Quiet
  <1>12. NeverPastEnd' /\ BytesInPlace' /\ DivergesOnlyHoled'
    BY SameBytes
  <1> QED
    BY <1>9, <1>10, <1>11, <1>12

LEMMA ControlKeeps ==
    ASSUME JInv, handle_control
    PROVE  JInv'
  <1> USE DEF JInv, handle_control, doVars
  <1> DEFINE msg == Head(conn[cur].back)
             resets == msg.kind = "hello_ack" /\ msg.offset # Unset
             n == IF resets THEN msg.offset ELSE conn[cur].sent
  <1>1. /\ cur \in Conns /\ conn[cur] \in Link /\ conn[cur].back # <<>>
        /\ conn[cur].sent \in Nat /\ conn[cur].back \in Seq(Acks)
    BY Serving, LinkHas
  <1>2. /\ msg \in Acks /\ msg \in Elems(conn[cur].back)
        /\ Tail(conn[cur].back) \in Seq(Acks)
        /\ Elems(Tail(conn[cur].back)) \subseteq Elems(conn[cur].back)
    BY <1>1, AcksLeft
  <1>3. n \in Nat
    BY <1>1, <1>2 DEF Acks, Link
  <1>4. /\ conn' = [conn EXCEPT ![cur] = [conn[cur] EXCEPT !.back = Tail(conn[cur].back), !.sent = n]]
        /\ acked' = IF msg.offset # Unset THEN msg.offset ELSE acked
        /\ startup' = IF msg.kind = "hello_ack" /\ startup = "waiting" THEN "started" ELSE startup
    OBVIOUS
  <1>5. startup # "done" => msg.offset = allRunHeads
    BY <1>2 DEF QuietWires
  <1>5a. acked' \in Nat
    BY <1>2, <1>4 DEF Acks, Typed
  <1> HIDE DEF msg, n
  <1>6. /\ conn' \in [Conns -> Link] /\ \A x \in Conns \ {cur} : conn'[x] = conn[x]
        /\ conn'[cur].gen = conn[cur].gen /\ conn'[cur].wire = conn[cur].wire
        /\ conn'[cur].back = Tail(conn[cur].back)
    <2> DEFINE l == [conn[cur] EXCEPT !.back = Tail(conn[cur].back), !.sent = n]
    <2>0. l = [conn[cur] EXCEPT !.back = Tail(conn[cur].back), !.sent = n]
      OBVIOUS
    <2>1. /\ l \in Link /\ l.gen = conn[cur].gen /\ l.wire = conn[cur].wire
          /\ l.back = Tail(conn[cur].back)
      <3> HIDE DEF l
      <3> QED
        BY <1>1, <1>2, <1>3, <2>0 DEF Link
    <2>2. conn' = [conn EXCEPT ![cur] = l]
      BY <1>4
    <2> HIDE DEF l
    <2> QED
      BY <1>1, <2>1, <2>2, OneLink DEF Typed
  <1>7. Typed'
    BY <1>5a, <1>6 DEF Typed
  <1>8. WiresTrue'
    BY <1>1, <1>6, FewerInFlight
  <1>9. GensBehind' /\ QuietWires'
    BY <1>1, <1>2, <1>4, <1>6 DEF GensBehind, QuietWires, allRunHeads
  <1>10. Quiet'
    <2>1. durable = <<>> <=> Len(durable) = 0
      BY DEF Typed
    <2>2. Len(durable) # Unset
      BY Lengths DEF NeverPastEnd, Typed, Unset
    <2> QED
      BY <1>4, <1>5, <2>1, <2>2 DEF Quiet, allRunHeads
  <1>11. NeverPastEnd' /\ BytesInPlace' /\ DivergesOnlyHoled'
    BY SameBytes
  <1> QED
    BY <1>7, <1>8, <1>9, <1>10, <1>11

(* Where a continuation goes on: not before a durable byte or a stored     *)
(* segment, and not past the run's end.                                    *)
LEMMA ResumesPastDurable ==
    ASSUME JInv, continue_run
    PROVE  /\ resume_offset \in Nat /\ stored <= resume_offset
           /\ resume_offset <= Len(truth) /\ Len(durable) <= resume_offset
           /\ nextOffset = Len(durable) /\ pending = <<>> /\ durable \in Seq(Bytes)
  <1> USE DEF JInv, continue_run, linkVars, doVars
  <1> DEFINE r == resume_offset
  <1>1. /\ r \in Nat /\ stored <= r /\ r <= Len(truth) /\ Len(durable) <= r
        /\ nextOffset = Len(durable) /\ pending = <<>> /\ durable \in Seq(Bytes)
    <2>1. /\ pending = <<>> /\ acked \in {Unset, Len(durable)}
          /\ durable # <<>> => acked = Len(durable)
      BY DEF Quiet
    <2>2. Len(pending) = 0 /\ (durable = <<>> => Len(durable) = 0)
      BY <2>1
    <2>3. /\ stored \in Nat /\ Len(durable) \in Nat /\ Len(truth) \in Nat
          /\ nextOffset = Len(durable) /\ stored <= Len(truth) /\ Len(durable) <= Len(truth)
      BY <2>2, Lengths DEF Typed, NeverPastEnd, nextOffset
    <2>4. Len(durable) # Unset /\ durable \in Seq(Bytes)
      BY <2>3, ConstAssumption DEF Unset, Typed
    <2>5. /\ stored <= r /\ Len(durable) <= r /\ r \in {0, stored, Len(durable)}
      BY <2>1, <2>2, <2>3, <2>4 DEF resume_offset, Higher
    <2> QED
      BY <2>1, <2>3, <2>4, <2>5
  <1> QED
    BY <1>1

LEMMA ContinueKeeps ==
    ASSUME JInv, continue_run
    PROVE  JInv'
  <1> USE DEF JInv, continue_run, linkVars, doVars
  <1> DEFINE r == resume_offset
  <1>1. /\ r \in Nat /\ stored <= r /\ r <= Len(truth) /\ Len(durable) <= r
        /\ nextOffset = Len(durable) /\ pending = <<>> /\ durable \in Seq(Bytes)
    BY ResumesPastDurable
  <1>2. /\ truth' = SubSeq(truth, 1, r) /\ base' = r /\ truth \in Seq(Bytes)
        /\ Len(truth) <= MaxBytes /\ MaxBytes \in Nat
    BY ConstAssumption DEF Typed
  <1> HIDE DEF r
  <1>3. /\ truth' \in Seq(Bytes) /\ Len(truth') = r
        /\ \A i \in 1..r : truth'[i] = truth[i]
    BY <1>1, <1>2
  <1>4. Typed'
    BY <1>1, <1>2, <1>3 DEF Typed
  <1>5. WiresTrue'
    BY DEF QuietWires, WiresTrue, FrameTrue
  <1>6. NeverPastEnd' /\ BytesInPlace' /\ DivergesOnlyHoled'
    <2>1. Held = durable /\ Len(Held) = Len(durable)
      BY <1>1 DEF Held
    <2>2. Held' = Held /\ nextOffset' = nextOffset /\ Holed' = Holed
      BY DEF Held, nextOffset, Holed
    <2> QED
      BY <1>1, <1>3, <2>1, <2>2 DEF NeverPastEnd, BytesInPlace, DivergesOnlyHoled
  <1> QED
    BY <1>1, <1>3, <1>4, <1>5, <1>6 DEF GensBehind, QuietWires, Quiet

LEMMA DisconnectKeeps ==
    ASSUME JInv, disconnect
    PROVE  JInv'
  <1> USE DEF JInv, disconnect, maridVars, doVars
  <1>1. cur \in Conns /\ conn[cur] \in Link
    BY Serving
  <1> DEFINE l == [conn[cur] EXCEPT !.back = <<>>]
  <1>2. conn' = [conn EXCEPT ![cur] = l] /\ l = [conn[cur] EXCEPT !.back = <<>>]
    OBVIOUS
  <1> HIDE DEF l
  <1>3. l \in Link /\ l.gen = conn[cur].gen /\ l.wire = conn[cur].wire
    BY <1>1, <1>2, NoMessages DEF Link
  <1>4. /\ conn' \in [Conns -> Link]
        /\ \A x \in Conns : conn'[x].gen = conn[x].gen /\ conn'[x].wire = conn[x].wire
    BY <1>1, <1>2, <1>3 DEF Typed
  <1>5. Typed'
    BY <1>4 DEF Typed, Conns
  <1>6. WiresTrue'
    BY <1>4, FewerInFlight
  <1>7. NeverPastEnd' /\ BytesInPlace' /\ DivergesOnlyHoled'
    BY SameBytes
  <1> QED
    BY <1>4, <1>5, <1>6, <1>7 DEF GensBehind, QuietWires, Quiet, allRunHeads

(* An acknowledgement changes no more than what is in flight to marid.     *)
LEMMA Acknowledged ==
    ASSUME Typed, NEW m \in Acks, conn' = SendControl(m)
    PROVE  /\ conn' \in [Conns -> Link]
           /\ \A x \in Conns : conn'[x].gen = conn[x].gen /\ conn'[x].wire = conn[x].wire
  <1>1. CASE active = 0 \/ active # cur
    BY <1>1 DEF SendControl, Typed
  <1>2. CASE ~(active = 0 \/ active # cur)
    <2>1. cur \in Conns /\ conn[cur] \in Link
      BY <1>2, Serving
    <2>2. conn[cur].back \in Seq(Acks)
      BY <2>1, LinkHas
    <2> DEFINE b == Append(conn[cur].back, m)
               l == [conn[cur] EXCEPT !.back = b]
    <2>3. conn' = [conn EXCEPT ![cur] = l] /\ l = [conn[cur] EXCEPT !.back = b]
      BY <1>2 DEF SendControl
    <2>4. b \in Seq(Acks)
      BY <2>2
    <2> HIDE DEF b, l
    <2>5. l \in Link /\ l.gen = conn[cur].gen /\ l.wire = conn[cur].wire
      BY <2>1, <2>3, <2>4 DEF Link
    <2> QED
      BY <2>1, <2>3, <2>5 DEF Typed
  <1> QED
    BY <1>1, <1>2

LEMMA FlushKeeps ==
    ASSUME JInv, flushRun
    PROVE  JInv'
  <1> USE DEF JInv, flushRun, maridVars
  <1>1. startup = "done" /\ startup' = "done"
    BY DEF Quiet
  <1>2. JournalAck(nextOffset) \in Acks
    BY Lengths DEF JournalAck, Acks
  <1>3. /\ conn' \in [Conns -> Link]
        /\ \A x \in Conns : conn'[x].gen = conn[x].gen /\ conn'[x].wire = conn[x].wire
    BY <1>2, Acknowledged
  <1>4. durable' = Held /\ pending' = <<>> /\ Held \in Seq(Bytes)
    BY Lengths DEF Held
  <1>5. Held' = Held /\ nextOffset' = Len(Held) /\ nextOffset = Len(Held)
    <2>1. Held' = Held \o <<>> /\ nextOffset' = Len(Held) + 0
      BY <1>4 DEF Held, nextOffset
    <2> QED
      BY <1>4, <2>1, Lengths
  <1>6. Typed'
    BY <1>3, <1>4 DEF Typed
  <1>7. WiresTrue'
    BY <1>3, FewerInFlight
  <1>8. NeverPastEnd' /\ BytesInPlace' /\ DivergesOnlyHoled'
    BY <1>5 DEF NeverPastEnd, BytesInPlace, DivergesOnlyHoled, Holed
  <1> QED
    BY <1>1, <1>3, <1>6, <1>7, <1>8, Serving DEF GensBehind, QuietWires, Quiet

LEMMA FlushFailsKeeps ==
    ASSUME JInv, flushFails
    PROVE  JInv'
  <1> USE DEF JInv, flushFails, maridVars, linkVars
  <1>1. Typed'
    BY DEF Typed
  <1>2. WiresTrue'
    BY FewerInFlight
  <1>3. NeverPastEnd' /\ BytesInPlace' /\ DivergesOnlyHoled'
    BY BufferLost
  <1> QED
    BY <1>1, <1>2, <1>3 DEF GensBehind, QuietWires, Quiet, allRunHeads

LEMMA RestartKeeps ==
    ASSUME JInv, restart
    PROVE  JInv'
  <1> USE DEF JInv, restart, maridVars
  <1>1. /\ conn' \in [Conns -> Link]
        /\ \A x \in Conns : conn'[x].gen = conn[x].gen /\ conn'[x].wire = <<>>
    <2> SUFFICES ASSUME NEW x \in Conns
                 PROVE  /\ conn'[x] \in Link /\ conn'[x].gen = conn[x].gen
                        /\ conn'[x].wire = <<>>
      OBVIOUS
    <2>1. conn[x] \in Link /\ conn'[x] = [conn[x] EXCEPT !.wire = <<>>, !.back = <<>>]
      BY DEF Typed
    <2> QED
      BY <2>1, NoMessages DEF Link
  <1>2. Typed'
    BY <1>1, AtRest DEF Typed
  <1>3. WiresTrue'
    BY <1>1, NoElems, FewerInFlight
  <1>4. NeverPastEnd' /\ BytesInPlace' /\ DivergesOnlyHoled'
    BY BufferLost
  <1> QED
    BY <1>1, <1>2, <1>3, <1>4, NoElems DEF GensBehind, QuietWires, Quiet

LEMMA GenerationKeeps ==
    ASSUME JInv, nextGeneration
    PROVE  JInv'
  <1> USE DEF JInv, nextGeneration, doVars
  <1>0. Typed
    OBVIOUS
  <1>1. /\ conn' \in [Conns -> Link]
        /\ \A x \in Conns : conn'[x].gen = conn[x].gen
    <2>1. CASE cur = 0
      BY <2>1 DEF Typed
    <2>2. CASE cur # 0
      <3>1. cur \in Conns /\ conn[cur] \in Link
        BY <2>2, Serving
      <3> DEFINE l == [conn[cur] EXCEPT !.back = <<>>]
      <3>2. conn' = [conn EXCEPT ![cur] = l] /\ l = [conn[cur] EXCEPT !.back = <<>>]
        BY <2>2
      <3> HIDE DEF l
      <3>3. l \in Link /\ l.gen = conn[cur].gen
        BY <3>1, <3>2, NoMessages DEF Link
      <3> QED
        BY <3>1, <3>2, <3>3 DEF Typed
    <2> QED
      BY <2>1, <2>2
  <1>2. gen' = gen + 1 /\ gen \in Nat /\ \A x \in Conns : conn[x].gen \in Nat
    <2>1. \A x \in Conns : conn[x] \in Link
      BY DEF Typed
    <2> QED
      BY <2>1, LinkHas DEF Typed
  <1>3. \A x \in Conns : conn'[x].gen # gen' /\ conn'[x].gen <= gen'
    BY <1>1, <1>2 DEF GensBehind
  <1>4. Typed'
    <2>1. gen' = gen + 1 /\ gen < MaxGens /\ acked' = Unset /\ cur' = 0 /\ used' = used
      OBVIOUS
    <2>2. UNCHANGED <<truth, durable, pending, base, stored, used>>
      OBVIOUS
    <2> HIDE DEF JInv, nextGeneration, doVars
    <2>3. gen' \in 1..MaxGens /\ acked' \in Nat /\ cur' \in 0..used'
      BY <1>0, <2>1, Lengths, ConstAssumption DEF Typed, Conns
    <2> QED
      BY <1>0, <1>1, <2>1, <2>2, <2>3 DEF Typed
  <1>5. NeverPastEnd' /\ BytesInPlace' /\ DivergesOnlyHoled'
    BY SameBytes
  <1> QED
    BY <1>3, <1>4, <1>5 DEF WiresTrue, GensBehind, QuietWires, Quiet

LEMMA HelloKeeps ==
    ASSUME JInv, NEW c \in Conns, onHello(c)
    PROVE  JInv'
  <1> USE DEF JInv, maridVars
  <1>1. /\ conn[c] \in Link /\ conn[c].wire \in Seq(Frames) /\ conn[c].wire # <<>>
        /\ conn[c].back \in Seq(Acks)
    BY LinkHas DEF Typed, onHello
  <1>2. /\ Tail(conn[c].wire) \in Seq(Frames) /\ <<>> \in Seq(Frames)
        /\ Elems(Tail(conn[c].wire)) \subseteq Elems(conn[c].wire) /\ Elems(<<>>) = {}
    BY <1>1, FramesLeft, NoElems
  <1>3. /\ UNCHANGED <<gen, maridVars, used, cur, durable, pending, anomalies>>
        /\ allRunHeads' = allRunHeads
    BY DEF onHello, allRunHeads
  <1> DEFINE ack == HelloAck(allRunHeads)
             b == IF c = cur THEN Append(conn[c].back, ack) ELSE conn[c].back
  <1>4. ack \in Acks /\ ack.kind = "hello_ack" /\ ack.offset = allRunHeads
    BY Lengths DEF Acks, HelloAck, allRunHeads
  <1>5. b \in Seq(Acks) /\ Elems(b) \subseteq Elems(conn[c].back) \cup {ack}
    <2>1. /\ Append(conn[c].back, ack) \in Seq(Acks)
          /\ Elems(Append(conn[c].back, ack)) = Elems(conn[c].back) \cup {ack}
      <3> HIDE DEF ack
      <3> QED
        BY <1>1, <1>4, AppendElems
    <2> QED
      BY <1>1, <2>1
  <1>6. PICK w \in Seq(Frames), d \in Seq(Acks) :
          /\ conn' = [conn EXCEPT ![c] = [conn[c] EXCEPT !.wire = w, !.back = d]]
          /\ Elems(w) \subseteq Elems(conn[c].wire)
          /\ Elems(d) \subseteq Elems(conn[c].back) \cup {ack}
    <2>1. CASE conn[c].gen = gen
      <3>1. conn' = [conn EXCEPT ![c] = [conn[c] EXCEPT !.wire = Tail(conn[c].wire), !.back = b]]
        BY <2>1 DEF onHello
      <3> HIDE DEF b, ack
      <3> QED
        BY <1>2, <1>5, <3>1
    <2>2. CASE conn[c].gen # gen
      <3>1. conn' = [conn EXCEPT ![c].wire = <<>>]
        BY <2>2 DEF onHello
      <3>2. [conn[c] EXCEPT !.wire = <<>>]
              = [conn[c] EXCEPT !.wire = <<>>, !.back = conn[c].back]
        BY <1>1 DEF Link
      <3>3. conn' = [conn EXCEPT ![c] = [conn[c] EXCEPT !.wire = <<>>, !.back = conn[c].back]]
        BY <3>1, <3>2
      <3> HIDE DEF b, ack
      <3> QED
        BY <1>1, <1>2, <3>3
    <2> QED
      BY <2>1, <2>2
  <1> HIDE DEF b, ack
  <1> DEFINE l == [conn[c] EXCEPT !.wire = w, !.back = d]
  <1>7. conn' = [conn EXCEPT ![c] = l] /\ l = [conn[c] EXCEPT !.wire = w, !.back = d]
    BY <1>6
  <1> HIDE DEF l
  <1>8. l \in Link /\ l.gen = conn[c].gen /\ l.wire = w /\ l.back = d
    BY <1>1, <1>7 DEF Link
  <1>9. /\ conn' \in [Conns -> Link] /\ conn'[c] = l
        /\ \A x \in Conns \ {c} : conn'[x] = conn[x]
    BY <1>7, <1>8, OneLink DEF Typed
  <1>10. Typed'
    BY <1>3, <1>9 DEF Typed
  <1>11. WiresTrue'
    BY <1>3, <1>6, <1>8, <1>9, FewerInFlight
  <1>12. GensBehind'
    BY <1>3, <1>8, <1>9, Serving DEF GensBehind
  <1>13. QuietWires'
    <2> SUFFICES ASSUME startup # "done"
                 PROVE  /\ \A x \in Conns : conn'[x].gen = gen =>
                              \A f \in Elems(conn'[x].wire) : f.kind = "hello"
                        /\ cur # 0 => \A k \in Elems(conn'[cur].back) :
                                         k.kind = "hello_ack" /\ k.offset = allRunHeads
      BY <1>3 DEF QuietWires
    <2>1. \A x \in Conns : conn'[x].gen = gen =>
            \A f \in Elems(conn'[x].wire) : f.kind = "hello"
      BY <1>6, <1>8, <1>9 DEF QuietWires
    <2>2. cur # 0 => \A k \in Elems(conn'[cur].back) :
                       k.kind = "hello_ack" /\ k.offset = allRunHeads
      BY <1>4, <1>6, <1>8, <1>9, Serving DEF QuietWires
    <2> QED
      BY <2>1, <2>2
  <1>14. Quiet'
    BY <1>3 DEF Quiet
  <1>15. NeverPastEnd' /\ BytesInPlace' /\ DivergesOnlyHoled'
    BY <1>3, SameBytes
  <1> QED
    BY <1>3, <1>10, <1>11, <1>12, <1>13, <1>14, <1>15

(* The part of `b' past the first `n' elements of `t', when `b' says what  *)
(* `t' holds from `at' on.                                                 *)
LEMMA Beyond ==
    ASSUME NEW S, NEW t \in Seq(S), NEW b \in Seq(S), NEW at \in Nat, NEW n \in Nat,
           at + Len(b) <= Len(t), n <= Len(t), \A i \in 1..Len(b) : b[i] = t[at + i],
           NEW new, new = IF at >= n THEN b ELSE SubSeq(b, n - at + 1, Len(b))
    PROVE  /\ new \in Seq(S) /\ Len(new) \in Nat /\ n + Len(new) <= Len(t)
           /\ at <= n => \A i \in 1..Len(new) : new[i] = t[n + i]
  <1>0. Len(b) \in Nat /\ Len(t) \in Nat
    OBVIOUS
  <1>1. CASE at >= n
    <2>1. new = b
      BY <1>1
    <2>2. n + Len(b) <= Len(t)
      BY <1>0, <1>1
    <2>3. at <= n => at = n
      BY <1>1
    <2>4. ASSUME at <= n, NEW i \in 1..Len(b)
          PROVE  b[i] = t[n + i]
      BY <2>3, <2>4
    <2> QED
      BY <1>0, <2>1, <2>2, <2>4
  <1>2. CASE at < n /\ n - at + 1 <= Len(b)
    <2>1. new = SubSeq(b, n - at + 1, Len(b))
      BY <1>2
    <2>2. /\ new \in Seq(S) /\ Len(new) = Len(b) - (n - at)
          /\ \A i \in 1..(Len(b) - (n - at)) : new[i] = b[n - at + i]
      BY <1>0, <1>2, <2>1
    <2>3. \A i \in 1..Len(new) : new[i] = t[n + i]
      <3> SUFFICES ASSUME NEW i \in 1..Len(new) PROVE new[i] = t[n + i]
        OBVIOUS
      <3>1. n - at + i \in 1..Len(b) /\ at + (n - at + i) = n + i
        BY <1>0, <1>2, <2>2
      <3> QED
        BY <2>2, <3>1
    <2>4. Len(new) \in Nat /\ n + Len(new) <= Len(t)
      BY <1>0, <1>2, <2>2
    <2> QED
      BY <2>2, <2>3, <2>4
  <1>3. CASE at < n /\ ~(n - at + 1 <= Len(b))
    <2>1. new = <<>>
      BY <1>0, <1>3
    <2> QED
      BY <2>1
  <1> QED
    BY <1>0, <1>1, <1>2, <1>3

(* What a true frame adds keeps the journal in place, unless it shows a    *)
(* gap; and it replays what is held, unless a gap was shown before.        *)
LEMMA TrueFrameKeeps ==
    ASSUME JInv, NEW f \in Frames, f.kind = "frame", FrameTrue(f),
           UNCHANGED <<truth, durable>>,
           anomalies' = anomalies \cup Anomaly(f.at, f.bytes),
           pending' = pending \o NewPart(f.at, f.bytes)
    PROVE  pending' \in Seq(Bytes) /\ NeverPastEnd' /\ BytesInPlace' /\ DivergesOnlyHoled'
  <1> DEFINE n == nextOffset
             at == f.at
             bytes == f.bytes
             new == NewPart(at, bytes)
  <1>1. /\ at \in Nat /\ bytes \in Seq(Bytes) /\ at + Len(bytes) <= Len(truth)
        /\ \A i \in 1..Len(bytes) : bytes[i] = truth[at + i]
    BY DEF Frames, FrameTrue
  <1>2. /\ Held \in Seq(Bytes) /\ n = Len(Held) /\ n \in Nat /\ n <= Len(truth)
        /\ truth \in Seq(Bytes)
    BY Lengths DEF JInv, Typed, NeverPastEnd
  <1>3. /\ pending' = pending \o new
        /\ new = IF at >= n THEN bytes ELSE SubSeq(bytes, n - at + 1, Len(bytes))
        /\ anomalies' = anomalies \cup Anomaly(at, bytes)
    BY DEF NewPart
  <1>3a. at > n => "gap" \in Anomaly(at, bytes)
    BY <1>1, <1>2 DEF Anomaly
  <1>3b. "divergent" \in Anomaly(at, bytes) => at < n /\ ~Replays(at, bytes)
    BY DEF Anomaly
  <1>3c. durable \in Seq(Bytes) /\ pending \in Seq(Bytes) /\ n = Len(durable) + Len(pending)
    BY Lengths DEF JInv, Typed, nextOffset
  <1>3d. Replays(at, bytes) <=>
           SubSeq(Held, at + 1, at + Lower(Len(bytes), n - at))
             = SubSeq(bytes, 1, Lower(Len(bytes), n - at))
    BY DEF Replays, Held
  <1>3e. ~Holed => /\ \A i \in 1..Len(Held) : Held[i] = truth[i]
                   /\ "divergent" \notin anomalies
    BY DEF JInv, BytesInPlace, DivergesOnlyHoled
  <1>3f. /\ Held' = durable \o pending' /\ Held = durable \o pending
         /\ nextOffset' = Len(durable) + Len(pending')
         /\ Holed <=> "gap" \in anomalies
         /\ Holed' <=> "gap" \in anomalies'
    BY DEF Held, nextOffset, Holed
  <1> HIDE DEF n, at, bytes, new
  <1>4. /\ new \in Seq(Bytes) /\ Len(new) \in Nat /\ n + Len(new) <= Len(truth)
        /\ at <= n => \A i \in 1..Len(new) : new[i] = truth[n + i]
    <2>1. /\ truth \in Seq(Bytes) /\ bytes \in Seq(Bytes) /\ at \in Nat /\ n \in Nat
          /\ at + Len(bytes) <= Len(truth) /\ n <= Len(truth)
          /\ \A i \in 1..Len(bytes) : bytes[i] = truth[at + i]
      BY <1>1, <1>2
    <2>2. new = IF at >= n THEN bytes ELSE SubSeq(bytes, n - at + 1, Len(bytes))
      BY <1>3
    <2> QED
      BY <2>1, <2>2, Beyond
  <1>5. /\ pending' \in Seq(Bytes) /\ Held' = Held \o new
        /\ nextOffset' = n + Len(new)
    <2>1. pending' = pending \o new /\ new \in Seq(Bytes) /\ Len(new) \in Nat
      BY <1>3, <1>4
    <2>2. pending' \in Seq(Bytes) /\ Len(pending') = Len(pending) + Len(new)
      BY <1>3c, <2>1
    <2>3. (durable \o pending) \o new = durable \o (pending \o new)
      BY <1>3c, <2>1, ConcatAssociative
    <2>4. Len(durable) \in Nat /\ Len(pending) \in Nat
      BY <1>3c
    <2> QED
      BY <1>3c, <1>3f, <2>1, <2>2, <2>3, <2>4
  <1>6. NeverPastEnd'
    BY <1>4, <1>5 DEF NeverPastEnd
  <1>7. ~Holed' => at <= n /\ ~Holed
    BY <1>1, <1>2, <1>3, <1>3a, <1>3f
  <1>8. BytesInPlace'
    <2> SUFFICES ASSUME ~Holed', NEW i \in 1..Len(Held')
                 PROVE  Held'[i] = truth[i]
      BY DEF BytesInPlace
    <2>1. /\ \A j \in 1..n : Held[j] = truth[j]
          /\ \A j \in 1..Len(new) : new[j] = truth[n + j]
      BY <1>2, <1>3e, <1>4, <1>7
    <2>2. /\ Len(Held') = n + Len(new)
          /\ \A j \in 1..n : Held'[j] = Held[j]
          /\ \A j \in 1..Len(new) : Held'[n + j] = new[j]
      BY <1>2, <1>4, <1>5
    <2>3. n \in Nat /\ Len(new) \in Nat /\ i \in 1..(n + Len(new))
      BY <1>2, <1>4, <2>2
    <2>4. CASE i <= n
      BY <2>1, <2>2, <2>3, <2>4
    <2>5. CASE i > n
      <3>1. PICK j \in 1..Len(new) : i = n + j
        <4>1. i - n \in 1..Len(new) /\ i = n + (i - n)
          BY <2>3, <2>5
        <4> QED
          BY <4>1
      <3> QED
        BY <2>1, <2>2, <3>1
    <2> QED
      BY <2>3, <2>4, <2>5
  <1>9. DivergesOnlyHoled'
    <2> SUFFICES ASSUME ~Holed', at < n
                 PROVE  Replays(at, bytes)
      BY <1>3, <1>3b, <1>3e, <1>7 DEF DivergesOnlyHoled
    <2> DEFINE k == Lower(Len(bytes), n - at)
               mine == SubSeq(Held, at + 1, at + k)
               theirs == SubSeq(bytes, 1, k)
    <2>1. k \in Nat /\ k <= Len(bytes) /\ at + k <= Len(Held)
      BY <1>1, <1>2 DEF Lower
    <2>2. \A i \in 1..Len(Held) : Held[i] = truth[i]
      BY <1>3e, <1>7
    <2>3. Replays(at, bytes) <=> mine = theirs
      BY <1>3d
    <2>4. mine = SubSeq(Held, at + 1, at + k) /\ theirs = SubSeq(bytes, 1, k)
      OBVIOUS
    <2> HIDE DEF k, mine, theirs
    <2>5. truth \in Seq(Bytes) /\ Held \in Seq(Bytes) /\ bytes \in Seq(Bytes) /\ at \in Nat
      BY <1>1, <1>2
    <2>6. \A i \in 1..Len(bytes) : bytes[i] = truth[at + i]
      BY <1>1
    <2>7. CASE k = 0
      BY <2>3, <2>4, <2>5, <2>7
    <2>8. CASE k > 0
      <3>1. /\ mine \in Seq(Bytes) /\ Len(mine) = k
            /\ \A i \in 1..k : mine[i] = Held[at + i]
        <4>1. at + 1 <= at + k /\ \A i \in (at + 1)..(at + k) : Held[i] \in Bytes
          BY <2>1, <2>5, <2>8
        <4>2. /\ mine \in Seq(Bytes)
              /\ Len(mine) = IF at + 1 <= at + k THEN (at + k) - (at + 1) + 1 ELSE 0
              /\ \A i \in 1..((at + k) - (at + 1) + 1) : mine[i] = Held[(at + 1) + i - 1]
          BY <2>1, <2>4, <2>5, <4>1, SubSeqProperties
        <4>3. (at + k) - (at + 1) + 1 = k /\ \A i \in 1..k : (at + 1) + i - 1 = at + i
          BY <2>1, <2>5
        <4> QED
          BY <4>1, <4>2, <4>3
      <3>2. /\ theirs \in Seq(Bytes) /\ Len(theirs) = k
            /\ \A i \in 1..k : theirs[i] = bytes[i]
        BY <2>1, <2>4, <2>5, <2>8
      <3>3. \A i \in 1..k : mine[i] = theirs[i]
        <4> SUFFICES ASSUME NEW i \in 1..k PROVE mine[i] = theirs[i]
          OBVIOUS
        <4>1. Len(Held) \in Nat /\ Len(bytes) \in Nat
          BY <2>5
        <4>2. at + i \in 1..Len(Held) /\ i \in 1..Len(bytes)
          BY <2>1, <2>5, <4>1
        <4> QED
          BY <2>2, <2>6, <3>1, <3>2, <4>2
      <3>4. mine = theirs
        BY <3>1, <3>2, <3>3
      <3> QED
        BY <2>3, <3>4
    <2> QED
      BY <2>1, <2>7, <2>8
  <1> QED
    BY <1>5, <1>6, <1>8, <1>9

LEMMA IngestKeeps ==
    ASSUME JInv, NEW c \in Conns, onJournalFrame(c)
    PROVE  JInv'
  <1> USE DEF JInv, maridVars
  <1> DEFINE w == conn[c].wire
             f == Head(w)
             l == [conn[c] EXCEPT !.wire = Tail(w)]
  <1>1. /\ conn[c] \in Link /\ w \in Seq(Frames) /\ w # <<>> /\ f.kind = "frame"
    BY LinkHas DEF Typed, onJournalFrame
  <1>2. /\ f \in Elems(w) /\ f \in Frames /\ Tail(w) \in Seq(Frames)
        /\ Elems(Tail(w)) \subseteq Elems(w)
    <2> HIDE DEF w
    <2> QED
      BY <1>1, FramesLeft
  <1>3. /\ UNCHANGED <<gen, maridVars, used, cur, durable>> /\ allRunHeads' = allRunHeads
        /\ conn' = [conn EXCEPT ![c] = l] /\ l = [conn[c] EXCEPT !.wire = Tail(w)]
    BY DEF onJournalFrame, allRunHeads
  <1>4. isCurrentSupervisor(c) =>
          /\ conn[c].gen = gen
          /\ anomalies' = anomalies \cup Anomaly(f.at, f.bytes)
          /\ pending' = pending \o NewPart(f.at, f.bytes)
    BY DEF onJournalFrame, isCurrentSupervisor
  <1>5. ~isCurrentSupervisor(c) => UNCHANGED <<anomalies, pending>>
    BY DEF onJournalFrame
  <1>6. conn[c].gen = gen => FrameTrue(f) /\ startup = "done"
    BY <1>1, <1>2 DEF WiresTrue, QuietWires
  <1> HIDE DEF w, f, l
  <1>7. l \in Link /\ l.gen = conn[c].gen /\ l.wire = Tail(w) /\ l.back = conn[c].back
    BY <1>1, <1>2, <1>3 DEF Link
  <1>8. /\ conn' \in [Conns -> Link] /\ conn'[c] = l
        /\ \A x \in Conns \ {c} : conn'[x] = conn[x]
    BY <1>3, <1>7, OneLink DEF Typed
  <1>9. pending' \in Seq(Bytes) /\ NeverPastEnd' /\ BytesInPlace' /\ DivergesOnlyHoled'
    <2>1. CASE isCurrentSupervisor(c)
      BY <1>1, <1>2, <1>3, <1>4, <1>6, <2>1, TrueFrameKeeps
    <2>2. CASE ~isCurrentSupervisor(c)
      BY <1>3, <1>5, <2>2, SameBytes DEF Typed
    <2> QED
      BY <2>1, <2>2
  <1>10. Typed'
    BY <1>3, <1>8, <1>9 DEF Typed
  <1>11. WiresTrue'
    BY <1>2, <1>3, <1>7, <1>8, FewerInFlight DEF w
  <1>12. GensBehind'
    BY <1>3, <1>7, <1>8, Serving DEF GensBehind
  <1>13. QuietWires'
    BY <1>2, <1>3, <1>7, <1>8, Serving DEF QuietWires, w
  <1>14. Quiet'
    BY <1>3, <1>4, <1>5, <1>6 DEF Quiet
  <1> QED
    BY <1>3, <1>9, <1>10, <1>11, <1>12, <1>13, <1>14

LEMMA CloseKeeps ==
    ASSUME JInv, NEW c \in Conns, onClose(c)
    PROVE  JInv'
  <1> USE DEF JInv, onClose, maridVars
  <1>1. conn[c] \in Link
    BY DEF Typed
  <1> DEFINE l == [conn[c] EXCEPT !.wire = <<>>]
  <1>2. conn' = [conn EXCEPT ![c] = l] /\ l = [conn[c] EXCEPT !.wire = <<>>]
    OBVIOUS
  <1> HIDE DEF l
  <1>3. l \in Link /\ l.gen = conn[c].gen /\ l.wire = <<>> /\ l.back = conn[c].back
    BY <1>1, <1>2, NoMessages DEF Link
  <1>4. /\ conn' \in [Conns -> Link] /\ conn'[c] = l
        /\ \A x \in Conns \ {c} : conn'[x] = conn[x]
    BY <1>2, <1>3, OneLink DEF Typed
  <1>5. Typed'
    BY <1>4 DEF Typed
  <1>6. WiresTrue'
    BY <1>3, <1>4, NoElems, FewerInFlight
  <1>7. GensBehind' /\ QuietWires'
    BY <1>3, <1>4, NoElems, Serving DEF GensBehind, QuietWires, allRunHeads
  <1>8. NeverPastEnd' /\ BytesInPlace' /\ DivergesOnlyHoled'
    BY SameBytes
  <1> QED
    BY <1>5, <1>6, <1>7, <1>8 DEF Quiet


-----------------------------------------------------------------------------
(* Every step keeps the invariant.                                         *)
LEMMA StepJInv == JInv /\ [Next]_vars => JInv'
  <1> SUFFICES ASSUME JInv, [Next]_vars PROVE JInv'
    OBVIOUS
  <1>1. CASE append
    BY <1>1, AppendKeeps
  <1>2. CASE flush_ready_segments
    BY <1>2, SegmentsKeeps
  <1>3. CASE connect
    BY <1>3, ConnectKeeps
  <1>4. CASE flush_journals
    BY <1>4, StreamKeeps
  <1>5. CASE handle_control
    BY <1>5, ControlKeeps
  <1>6. CASE continue_run
    BY <1>6, ContinueKeeps
  <1>7. CASE flushRun
    BY <1>7, FlushKeeps
  <1>8. ASSUME NEW c \in Conns, onHello(c) PROVE JInv'
    BY <1>8, HelloKeeps
  <1>9. ASSUME NEW c \in Conns, onJournalFrame(c) PROVE JInv'
    BY <1>9, IngestKeeps
  <1>10. ASSUME NEW c \in Conns, onClose(c) PROVE JInv'
    BY <1>10, CloseKeeps
  <1>11. CASE disconnect
    BY <1>11, DisconnectKeeps
  <1>12. CASE restart
    BY <1>12, RestartKeeps
  <1>13. CASE nextGeneration
    BY <1>13, GenerationKeeps
  <1>14. CASE flushFails
    BY <1>14, FlushFailsKeeps
  <1>15. CASE UNCHANGED vars
    <2>1. Typed' /\ WiresTrue' /\ GensBehind' /\ QuietWires' /\ Quiet' /\ (stored <= Len(truth))'
      BY <1>15 DEF JInv, vars, maridVars, linkVars, doVars, Typed, WiresTrue, FrameTrue,
                   GensBehind, QuietWires, Quiet, allRunHeads
    <2>2. NeverPastEnd' /\ BytesInPlace' /\ DivergesOnlyHoled'
      BY <1>15, SameBytes DEF JInv, vars, maridVars, linkVars, doVars
    <2> QED
      BY <2>1, <2>2 DEF JInv
  <1> QED
    BY <1>1, <1>2, <1>3, <1>4, <1>5, <1>6, <1>7, <1>8, <1>9, <1>10, <1>11, <1>12, <1>13,
       <1>14, <1>15
    DEF Next, Marid, DurableObject, Environment


(* The invariant holds throughout.                                         *)
THEOREM JInvAlways == Spec => []JInv
  BY InitJInv, StepJInv, PTL DEF Spec

-----------------------------------------------------------------------------
LEMMA PrefixByByte ==
    ASSUME NEW s \in Seq(Bytes), NEW t \in Seq(Bytes), Len(s) <= Len(t),
           \A i \in 1..Len(s) : s[i] = t[i]
    PROVE  IsPrefix(s, t)
  <1> DEFINE a == SubSeq(s, 1, Len(s))
             b == SubSeq(t, 1, Len(s))
  <1>1. a \in Seq(Bytes) /\ Len(a) = Len(s) /\ \A i \in 1..Len(s) : a[i] = s[i]
    OBVIOUS
  <1>2. b \in Seq(Bytes) /\ Len(b) = Len(s) /\ \A i \in 1..Len(s) : b[i] = t[i]
    OBVIOUS
  <1>3. a = b
    <2> HIDE DEF a, b
    <2> QED
      BY <1>1, <1>2
  <1> QED
    BY <1>3 DEF IsPrefix

LEMMA HeldIsPrefix == JInv /\ ~Holed => IsPrefix(Held, truth)
  <1> SUFFICES ASSUME JInv, ~Holed PROVE IsPrefix(Held, truth)
    OBVIOUS
  <1>1. /\ Held \in Seq(Bytes) /\ truth \in Seq(Bytes) /\ Len(Held) <= Len(truth)
        /\ \A i \in 1..Len(Held) : Held[i] = truth[i]
    BY Lengths DEF JInv, Typed, NeverPastEnd, BytesInPlace
  <1> QED
    BY <1>1, PrefixByByte

(* What the Durable Object holds of a run is a prefix of the run's output, *)
(* for as long as it has recorded no gap.                                  *)
THEOREM InPlaceAlways == Spec => []InPlace
  <1>1. JInv => InPlace
    BY HeldIsPrefix DEF InPlace, Held
  <1> QED
    BY <1>1, JInvAlways, PTL

(* The Durable Object never holds more bytes than the run has printed.     *)
THEOREM NeverPastEndAlways == Spec => []NeverPastEnd
  <1>1. JInv => NeverPastEnd
    BY DEF JInv
  <1> QED
    BY <1>1, JInvAlways, PTL

(* A divergence is only recorded after a gap was.                          *)
THEOREM DivergesOnlyHoledAlways == Spec => []DivergesOnlyHoled
  <1>1. JInv => DivergesOnlyHoled
    BY DEF JInv
  <1> QED
    BY <1>1, JInvAlways, PTL

-----------------------------------------------------------------------------
(* Refinement of JournalPromise.                                           *)
LEMMA RefinesInit == Init => Promise!Init
  <1> SUFFICES ASSUME Init PROVE Promise!Init
    OBVIOUS
  <1>1. truth = <<>> /\ durable = <<>>
    BY DEF Init
  <1>2. Holed = FALSE
    BY DEF Init, Holed
  <1> QED
    BY <1>1, <1>2 DEF Promise!Init

LEMMA RefinesAppend == JInv /\ append => Promise!Produce
  <1> SUFFICES ASSUME JInv, append PROVE Promise!Produce
    OBVIOUS
  <1>1. <<gen, Len(truth)>> \in Bytes
    BY ConstAssumption DEF JInv, Typed, Bytes, Gens, Offsets, append
  <1>2. truth' = Append(truth, <<gen, Len(truth)>>) /\ durable' = durable
    BY DEF append, doVars
  <1>3. Holed' = Holed
    BY DEF append, doVars, Holed
  <1> QED
    BY <1>1, <1>2, <1>3 DEF Promise!Produce

LEMMA RefinesFlush == JInv /\ flushRun => Promise!Persist
  <1> SUFFICES ASSUME JInv, flushRun PROVE Promise!Persist
    OBVIOUS
  <1>1. durable' = Held /\ truth' = truth /\ pending # <<>>
    BY DEF flushRun, Held, maridVars
  <1>2. Holed' = Holed
    BY DEF flushRun, Holed
  <1>3. /\ durable \in Seq(Bytes) /\ pending \in Seq(Bytes) /\ Held \in Seq(Bytes)
        /\ Len(Held) = Len(durable) + Len(pending)
        /\ \A i \in 1..Len(durable) : Held[i] = durable[i]
    BY Lengths DEF JInv, Typed
  <1>4. Len(durable) \in Nat /\ Len(pending) \in Nat /\ Len(pending) # 0
    BY <1>1, <1>3
  <1>5. IsPrefix(durable, Held)
    BY <1>3, <1>4, PrefixByByte
  <1>6. durable # Held
    BY <1>3, <1>4
  <1>7. IsStrictPrefix(durable, durable')
    BY <1>1, <1>5, <1>6 DEF IsStrictPrefix
  <1>8. ~Holed => IsPrefix(durable', truth)
    BY <1>1, HeldIsPrefix
  <1> QED
    <2>1. UNCHANGED <<truth, Holed>>
      BY <1>1, <1>2
    <2>2. Promise!IsStrictPrefix(durable, durable')
      BY <1>7 DEF IsStrictPrefix, IsPrefix, Promise!IsStrictPrefix, Promise!IsPrefix
    <2>3. ~Holed => Promise!IsPrefix(durable', truth)
      BY <1>8 DEF IsPrefix, Promise!IsPrefix
    <2> QED
      BY <2>1, <2>2, <2>3 DEF Promise!Persist

LEMMA RefinesContinue == JInv /\ continue_run => Promise!Resume
  <1> SUFFICES ASSUME JInv, continue_run PROVE Promise!Resume
    OBVIOUS
  <1>1. resume_offset \in 0..Len(truth) /\ resume_offset >= Len(durable)
    BY ResumesPastDurable DEF JInv, Typed
  <1>2. truth' = SubSeq(truth, 1, resume_offset) /\ durable' = durable
    BY DEF continue_run, doVars
  <1>3. Holed' = Holed
    BY DEF continue_run, doVars, Holed
  <1> QED
    BY <1>1, <1>2, <1>3 DEF Promise!Resume

LEMMA RefinesIngest ==
    ASSUME NEW c \in Conns, onJournalFrame(c)
    PROVE  Promise!RecordHole \/ UNCHANGED <<truth, durable, Holed>>
  <1>1. truth' = truth /\ durable' = durable
    BY DEF onJournalFrame, maridVars
  <1>2. Holed => Holed'
    BY DEF onJournalFrame, Holed
  <1>3. CASE Holed \/ ~Holed'
    <2>1. Holed' = Holed
      BY <1>2, <1>3 DEF Holed
    <2> QED
      BY <1>1, <2>1
  <1>4. CASE ~Holed /\ Holed'
    BY <1>1, <1>4 DEF Promise!RecordHole
  <1> QED
    BY <1>2, <1>3, <1>4

LEMMA RefinesStep == JInv /\ [Next]_vars => [Promise!Next]_(Promise!vars)
  <1> SUFFICES ASSUME JInv, [Next]_vars
               PROVE  Promise!Next \/ UNCHANGED <<truth, durable, Holed>>
    BY DEF Promise!vars
  <1> DEFINE Idle == UNCHANGED <<truth, durable, anomalies>>
  <1>1. Idle => UNCHANGED <<truth, durable, Holed>>
    BY DEF Holed
  <1>2. CASE append
    BY <1>2, RefinesAppend DEF Promise!Next
  <1>3. CASE flushRun
    BY <1>3, RefinesFlush DEF Promise!Next
  <1>4. CASE continue_run
    BY <1>4, RefinesContinue DEF Promise!Next
  <1>5. ASSUME NEW c \in Conns, onJournalFrame(c)
        PROVE  Promise!Next \/ UNCHANGED <<truth, durable, Holed>>
    BY <1>5, RefinesIngest DEF Promise!Next
  <1>6. CASE flush_ready_segments \/ connect \/ flush_journals \/ handle_control
    BY <1>1, <1>6 DEF flush_ready_segments, connect, flush_journals, handle_control,
                      maridVars, doVars
  <1>7. ASSUME NEW c \in Conns, onHello(c) \/ onClose(c) PROVE Idle
    BY <1>7 DEF onHello, onClose, maridVars
  <1>8. CASE disconnect \/ restart \/ nextGeneration \/ flushFails
    BY <1>1, <1>8 DEF disconnect, restart, nextGeneration, flushFails, maridVars, doVars
  <1>9. CASE UNCHANGED vars
    BY <1>1, <1>9 DEF vars, maridVars, doVars
  <1> QED
    BY <1>1, <1>2, <1>3, <1>4, <1>5, <1>6, <1>7, <1>8, <1>9
    DEF Next, Marid, DurableObject, Environment

(* The journal keeps JournalPromise: output becomes durable in place and   *)
(* whole, durable output is never taken back, and a continuation forgets   *)
(* none of it.                                                             *)
THEOREM PromiseKeptAlways == Spec => PromiseKept
  BY JInvAlways, RefinesInit, RefinesStep, PTL DEF Spec, PromiseKept, Promise!Spec

=============================================================================
