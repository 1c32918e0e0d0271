------------------------------ MODULE Terminal ------------------------------
(***************************************************************************)
(* One terminal pane and the Durable Object behind it: the pane's attach    *)
(* client (web ws/attach.ts) and the Durable Object's client channel        *)
(* (computer-do.ts).  The client attaches again on every socket, keeps the  *)
(* input typed while there is none, and applies what it is sent by journal  *)
(* offset.  An output byte is its offset, an input byte its turn.           *)
(***************************************************************************)
EXTENDS Integers, FiniteSets, Sequences

CONSTANTS MaxBytes,   \* bound: bytes the run writes
          MaxTyped,   \* bound: bytes the user types
          MaxQueued,  \* maxQueuedInputBytes
          MaxDrops    \* bound: sockets lost

VARIABLES ws,       \* the client's socket: "none", "connecting" or "open"
          closed,   \* the pane was closed for good
          sawGrid, applied,
          queued,   \* the inputs kept for the next socket, each a sequence of bytes
          shown,    \* the offsets the terminal was given, in order
          up,       \* client -> Durable Object, in flight
          down,     \* Durable Object -> client, in flight
          watched,  \* the Durable Object's entry for this socket holds the run
          journal,  \* the bytes the Durable Object holds
          attached, \* a supervisor holds the other end
          typed,    \* history: bytes typed
          given,    \* history: the input the supervisor was handed
          drops

vars == <<ws, closed, sawGrid, applied, queued, shown, up, down, watched, journal,
          attached, typed, given, drops>>

Open == ws = "open"
bytesFrom(first, n) == [i \in 1..n |-> first + i - 1]

Init == /\ ws = "none" /\ closed = FALSE /\ sawGrid = FALSE /\ applied = 0
        /\ queued = <<>> /\ shown = <<>> /\ up = <<>> /\ down = <<>>
        /\ watched = FALSE /\ journal = 0 /\ attached = TRUE
        /\ typed = 0 /\ given = <<>> /\ drops = 0

--------------------------------------------------------------------------------
(* The client. *)

connect == /\ ~closed /\ ws = "none"
           /\ ws' = "connecting"
           /\ UNCHANGED <<closed, sawGrid, applied, queued, shown, up, down, watched,
                          journal, attached, typed, given, drops>>

(* Mutant: the kept input stays in the queue once it was sent. *)
flushedQueueKept == [sent |-> [i \in DOMAIN queued |-> [t |-> "input", bytes |-> queued[i]]],
                     left |-> queued]

flushQueuedInput == [sent |-> [i \in DOMAIN queued |-> [t |-> "input", bytes |-> queued[i]]],
                     left |-> <<>>]

onopen == /\ ws = "connecting"
          /\ ws' = "open"
          /\ up' = <<[t |-> "attach"]>> \o flushQueuedInput.sent
          /\ queued' = flushQueuedInput.left
          /\ UNCHANGED <<closed, sawGrid, applied, shown, down, watched, journal, attached,
                         typed, given, drops>>

(* The socket is refused or lost, with all it carried; the Durable Object
   forgets what it watched. *)
onclose == /\ ws # "none" /\ drops < MaxDrops
           /\ ws' = "none" /\ up' = <<>> /\ down' = <<>> /\ watched' = FALSE
           /\ drops' = drops + 1
           /\ UNCHANGED <<closed, sawGrid, applied, queued, shown, journal, attached,
                          typed, given>>

(* The bytes, by their places, of the first inputs of a queue. *)
placesTo(q, i) == UNION {{j} \X DOMAIN q[j] : j \in 1..i}
lengthTo(q, i) == Cardinality(placesTo(q, i))

(* #queueInput: over the cap, the oldest bytes go. *)
trimmed(q) ==
  LET over == lengthTo(q, Len(q)) - MaxQueued
      gone == Cardinality({i \in 1..Len(q) : lengthTo(q, i) <= over})
  IN IF over <= 0 THEN q
     ELSE [i \in 1..(Len(q) - gone) |->
             IF i = 1 THEN SubSeq(q[gone + 1], over - lengthTo(q, gone) + 1, Len(q[gone + 1]))
             ELSE q[gone + i]]

queueInput(bytes) ==
  IF MaxQueued = 0 THEN queued
  ELSE trimmed(Append(queued, IF Len(bytes) > MaxQueued
                              THEN SubSeq(bytes, Len(bytes) - MaxQueued + 1, Len(bytes))
                              ELSE bytes))

input(n) ==
  LET bytes == bytesFrom(typed, n)
  IN /\ ~closed /\ typed + n <= MaxTyped
     /\ typed' = typed + n
     /\ \/ Open /\ up' = Append(up, [t |-> "input", bytes |-> bytes]) /\ UNCHANGED queued
        \/ ~Open /\ queued' = queueInput(bytes) /\ UNCHANGED up
     /\ UNCHANGED <<ws, closed, sawGrid, applied, shown, down, watched, journal, attached,
                    given, drops>>

(* The pane goes: detach, and no socket from here on. *)
close == /\ ~closed
         /\ closed' = TRUE /\ ws' = "none" /\ up' = <<>> /\ down' = <<>> /\ watched' = FALSE
         /\ queued' = <<>>
         /\ UNCHANGED <<sawGrid, applied, shown, journal, attached, typed, given, drops>>

(* A grid the client has no need of is dropped, and so is a frame that starts
   before what was applied. *)
skipGrid(m) == m.t = "grid" /\ sawGrid /\ m.offset <= applied

(* Mutant: a frame is never recognised. *)
skipFrameNever(m) == FALSE

skipFrame(m) == m.t = "frame" /\ m.offset < applied

(* What the pane's terminal holds once the frame is written to it. *)
onFrame(m) == shown \o bytesFrom(m.offset, m.len)

onMessage ==
  /\ Open /\ down # <<>>
  /\ down' = Tail(down)
  /\ LET m == Head(down)
     IN \/ /\ skipGrid(m) \/ skipFrame(m)
           /\ UNCHANGED <<sawGrid, applied, shown>>
        \/ /\ m.t = "grid" /\ ~skipGrid(m)
           /\ sawGrid' = TRUE /\ applied' = m.offset /\ UNCHANGED shown
        \/ /\ m.t = "frame" /\ ~skipFrame(m)
           /\ applied' = m.offset + m.len
           /\ shown' = onFrame(m)
           /\ UNCHANGED sawGrid
  /\ UNCHANGED <<ws, closed, queued, up, watched, journal, attached, typed, given, drops>>

--------------------------------------------------------------------------------
(* The Durable Object. *)

(* The answer to an attach: an empty grid at offset 0, then the journal whole. *)
replay == <<[t |-> "grid", offset |-> 0]>>
          \o (IF journal = 0 THEN <<>> ELSE <<[t |-> "frame", offset |-> 0, len |-> journal]>>)

onClientMessage ==
  /\ up # <<>>
  /\ up' = Tail(up)
  /\ LET m == Head(up)
     IN \/ m.t = "attach" /\ watched' = TRUE /\ down' = down \o replay /\ UNCHANGED given
        \/ /\ m.t = "input"
           /\ given' = IF attached THEN given \o m.bytes ELSE given
           /\ UNCHANGED <<watched, down>>
  /\ UNCHANGED <<ws, closed, sawGrid, applied, queued, shown, journal, attached, typed, drops>>

(* The run's output is journalled and broadcast to the sockets that watch it. *)
broadcastFrame(n) ==
  /\ attached /\ journal + n <= MaxBytes
  /\ journal' = journal + n
  /\ down' = IF watched THEN Append(down, [t |-> "frame", offset |-> journal, len |-> n])
             ELSE down
  /\ UNCHANGED <<ws, closed, sawGrid, applied, queued, shown, up, watched, attached, typed,
                 given, drops>>

(* The supervisor's socket comes and goes; it is modelled in ComputerDO. *)
supervisor == /\ attached' = ~attached
              /\ UNCHANGED <<ws, closed, sawGrid, applied, queued, shown, up, down, watched,
                             journal, typed, given, drops>>

Next == \/ connect \/ onopen \/ onclose \/ close \/ onMessage \/ onClientMessage \/ supervisor
        \/ \E n \in 1..2 : input(n) \/ broadcastFrame(n)

Spec == Init /\ [][Next]_vars

--------------------------------------------------------------------------------
Rises(s) == \A i, j \in DOMAIN s : i < j => s[i] < s[j]

(* However often the socket is lost and attached again, the terminal is given
   every output byte at most once and in the journal's order, and the
   supervisor every typed byte at most once and in the order it was typed:
   the offsets, the kept input and the attach-first flush of ws/attach.ts. *)
OnceInOrder == Rises(shown) /\ Rises(given)

(* "missed output replays when the connection returns" (terminal/status.ts):
   the terminal is never given a byte while one before it is missing. *)
MissedOutputReplays == \A i \in DOMAIN shown : shown[i] = i - 1
================================================================================
