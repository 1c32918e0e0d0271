-------------------------------- MODULE Wire --------------------------------
(***************************************************************************)
(* packages/shared: the frames, the CBOR numbers and the validated shapes    *)
(* between the supervisor, the Durable Object and the browser.  A behaviour  *)
(* sends one message with one field of any value, and an ordinary one after *)
(* it, through a stream cut anywhere.  The widths of the wire's integers are *)
(* constants, in their order.                                               *)
(***************************************************************************)
EXTENDS Integers, SequencesExt

CONSTANTS U16_MAX, U32_MAX, MAX_SAFE, \* 2^16-1, 2^32-1, 2^53-1
          HeaderLen,                 \* the length prefix's bytes
          BodyLens                   \* the bodies' lengths

(* The widths in their order; a frame has a header, and a message a body. *)
WidthsAreOrdered == /\ U16_MAX \in Nat /\ U32_MAX \in Nat /\ MAX_SAFE \in Nat
                    /\ U16_MAX <= U32_MAX /\ U32_MAX <= MAX_SAFE
                    /\ HeaderLen \in Nat \ {0} /\ BodyLens \subseteq Nat \ {0}

VARIABLES route,  \* "up": marid to the Durable Object; "down": to marid;
                  \* "client": the browser's, re-framed to marid; "view": to it
          sent,   \* the two messages
          lens,   \* their bodies' lengths
          wire,   \* bytes on their way, each its message and place
          buf,    \* the reader's buffer
          heard   \* what the far end took, in order

vars == <<route, sent, lens, wire, buf, heard>>

--------------------------------------------------------------------------------
(* The shapes: every field of every variant, and its type.  A nested record's
   field is named by its path. *)
Shape(tag, types) == {[tag |-> tag, field |-> f, type |-> types[f]] : f \in DOMAIN types}

diffSummary(tag) == Shape(tag, [added |-> "u32", modified |-> "u32", removed |-> "u32"])

supervisorMessage == UNION {
  Shape("journal_frame", [run |-> "str", offset |-> "u64", bytes |-> "bytes"]),
  Shape("run_heartbeat", [run |-> "str"]),
  Shape("hello", [computer |-> "str", epoch |-> "u64", token |-> "str",
                  proto_version |-> "u32"]),
  Shape("run_started", [run |-> "str", pre_run_manifest |-> "str"]),
  Shape("run_completed", [run |-> "str", exit |-> "enum", code |-> "i32", signal |-> "i32",
                          post_run_manifest |-> "str"]),
  diffSummary("run_completed"),
  Shape("snapshot_written", [manifest |-> "str", epoch |-> "u64", reason |-> "enum"]),
  Shape("head_advance_request", [manifest |-> "str", epoch |-> "u64"]),
  Shape("attention", [run |-> "str", kind |-> "enum"]),
  Shape("rollback_detected", [disk_manifest |-> "str", recorded_manifest |-> "str?",
                              run |-> "str", control_offset |-> "u64",
                              disk_offset |-> "u64", replayed |-> "bool"]),
  diffSummary("rollback_detected")}

controlMessage == UNION {
  Shape("journal_ack", [run |-> "str", offset |-> "u64"]),
  Shape("input", [run |-> "str", bytes |-> "bytes"]),
  Shape("resize", [run |-> "str", cols |-> "u16", rows |-> "u16"]),
  Shape("hello_ack", [run |-> "str", offset |-> "u64"]),
  Shape("start_run", [run |-> "str", argv |-> "str", env_names |-> "str", cwd |-> "str"]),
  Shape("stop_run", [run |-> "str"]),
  Shape("snapshot_now", [reason |-> "enum"]),
  Shape("head_advance_result", [accepted |-> "bool", current_epoch |-> "u64"]),
  Shape("restore_to_manifest", [manifest |-> "str"])}

clientToDo == UNION {
  Shape("input", [run |-> "str", bytes |-> "bytes"]),
  Shape("attach", [run |-> "str", cols |-> "u16", rows |-> "u16"]),
  Shape("resize", [run |-> "str", cols |-> "u16", rows |-> "u16"]),
  Shape("detach", [run |-> "str"])}

doToClient == UNION {
  Shape("frame", [run |-> "str", offset |-> "u64", bytes |-> "bytes"]),
  Shape("grid", [run |-> "str", baseOffset |-> "u64", cols |-> "u16", rows |-> "u16",
                 cursorCol |-> "u16", cursorRow |-> "u16", cursorVisible |-> "bool",
                 ch |-> "str", attrs |-> "u32"]),
  Shape("run_status", [run |-> "str", alive |-> "bool", exitCode |-> "i32?"])}

shapes == [up |-> supervisorMessage, down |-> controlMessage, client |-> clientToDo,
           view |-> doToClient]

Edges == {-U32_MAX, -1, 0, 1, U16_MAX, U16_MAX + 1, U32_MAX, U32_MAX + 1, MAX_SAFE,
          MAX_SAFE + 1, MAX_SAFE + 2}
ints == {[t |-> "int", n |-> n] : n \in Edges}
others == {[t |-> t, n |-> 0] : t \in {"str", "known", "bytes", "bool", "null", "absent",
                                        "fraction"}}

--------------------------------------------------------------------------------
(* CBOR.  An integer past 2^53 is decoded to the nearest number. *)
decodeCbor(v) == IF v.t = "int" /\ v.n > MAX_SAFE
                 THEN [v EXCEPT !.n = v.n - ((v.n - MAX_SAFE - 1) % 2)] ELSE v

(* Mutant: numbers go to the encoder as they are, which floats the wide ones. *)
encodePlain(v) == IF v.t = "int" /\ v.n > U32_MAX THEN [v EXCEPT !.t = "float"] ELSE v

(* toCborIntegers: a wide number becomes an integer on the wire, and one past
   2^53 is refused. *)
encodeCbor(v) == IF v.t = "int" /\ v.n > MAX_SAFE THEN [v EXCEPT !.t = "refused"] ELSE v

(* The guards: u53, boundedUint, boundedInt, byteString, enumField and theirs. *)
within(v, low, high) == v.t = "int" /\ low <= v.n /\ v.n <= high

guard(type, v) ==
  CASE type = "u64" -> within(v, 0, MAX_SAFE)
    [] type = "u32" -> within(v, 0, U32_MAX)
    [] type = "u16" -> within(v, 0, U16_MAX)
    [] type = "i32" -> within(v, -(U32_MAX \div 2) - 1, U32_MAX \div 2)
    [] type = "i32?" -> within(v, -(U32_MAX \div 2) - 1, U32_MAX \div 2) \/ v.t = "null"
    [] type = "str" -> v.t \in {"str", "known"}
    [] type = "str?" -> v.t \in {"str", "known", "null"}
    [] type = "enum" -> v.t = "known"
    [] OTHER -> v.t = type

validate(m) == guard(m.type, m.value)

(* What ciborium takes for the type in mari-proto: the whole of u64. *)
rustTakes(m) == IF m.type = "u64" THEN m.value.t = "int" /\ m.value.n >= 0
                ELSE guard(m.type, m.value)

--------------------------------------------------------------------------------
Message(s, v) == [tag |-> s.tag, field |-> s.field, type |-> s.type, value |-> v]
ordinary(r) == [tag |-> "input", field |-> "run", type |-> "str",
                value |-> [t |-> "str", n |-> 0]]

(* marid sends what its types hold; the Durable Object sends offsets, epochs and
   names of its own; the browser sends anything. *)
sends(r, m) == CASE r = "up" -> rustTakes(m)
                 [] r \in {"down", "view"} -> validate(m)
                 [] r = "client" -> TRUE

frame(i, n) == [p \in 1..(HeaderLen + n) |-> [msg |-> i, at |-> p]]

Init == /\ route \in DOMAIN shapes
        /\ sent \in {<<m, ordinary(route)>> :
                       m \in {n \in {Message(s, v) : s \in shapes[route], v \in ints \cup others} :
                                sends(route, n)}}
        /\ lens \in [1..2 -> BodyLens]
        /\ wire = frame(1, lens[1]) \o frame(2, lens[2])
        /\ buf = <<>> /\ heard = <<>>

(* push: any number of bytes arrives. *)
push(n) == /\ n <= Len(wire)
           /\ buf' = buf \o SubSeq(wire, 1, n)
           /\ wire' = SubSeq(wire, n + 1, Len(wire))
           /\ UNCHANGED <<route, sent, lens, heard>>

(* The length the reader finds at the start of its buffer; bytes that are not
   a header read as some other length. *)
prefix == LET h == SubSeq(buf, 1, HeaderLen)
          IN IF \A p \in 1..HeaderLen : h[p].at = p THEN lens[h[1].msg] ELSE 0

(* What the far end makes of a whole message: the Durable Object and the
   browser decode and validate, marid decodes; what the browser sends is
   validated, then framed again for marid. *)
outcome(m) ==
  LET decoded == [m EXCEPT !.value = decodeCbor(@)]
      encoded == [m EXCEPT !.value = encodeCbor(@)]
  IN CASE route = "up" -> IF validate(decoded) THEN <<decoded>> ELSE <<>>
       [] route = "down" -> IF rustTakes(encoded) THEN <<encoded>> ELSE <<>>
       [] route = "client" -> IF validate(decoded) /\ rustTakes([decoded EXCEPT
                                                          !.value = encodeCbor(@)])
                              THEN <<decoded>> ELSE <<>>
       [] route = "view" -> IF validate(encoded) THEN <<encoded>> ELSE <<>>

incomplete == Len(buf) < HeaderLen \/ Len(buf) < HeaderLen + prefix

(* nextBody: a whole frame is taken from the buffer, and its body decoded if it
   is one. *)
nextBody == /\ ~incomplete
            /\ LET body == SubSeq(buf, HeaderLen + 1, HeaderLen + prefix)
                   whole == /\ body # <<>> /\ Len(body) = lens[body[1].msg]
                            /\ \A p \in DOMAIN body : body[p].at = HeaderLen + p
               IN heard' = heard \o IF whole THEN outcome(sent[body[1].msg]) ELSE <<>>
            /\ buf' = SubSeq(buf, HeaderLen + prefix + 1, Len(buf))
            /\ UNCHANGED <<route, sent, lens, wire>>

Next == nextBody \/ \E n \in 1..(HeaderLen + 1) : push(n)

Spec == Init /\ [][Next]_vars

--------------------------------------------------------------------------------
(* What should be heard of a message. *)
accepted(m) == IF validate(m) THEN <<m>> ELSE <<>>

(* However the stream is cut, the far end hears the messages sent, whole, once
   and in order; it hears every message inside the contract with the value that
   was sent, and of a message outside it, an integer past 2^53 or past its
   field's width, it hears nothing rather than another value ("silently
   ROUNDED", shared/validate.ts; "decodes to a bigint", shared/cbor.ts). *)
HeardAsSent ==
  LET contract == accepted(sent[1]) \o accepted(sent[2])
  IN /\ IsPrefix(heard, contract)
     /\ wire = <<>> /\ incomplete => heard = contract
================================================================================
