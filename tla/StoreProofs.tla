----------------------------- MODULE StoreProofs -----------------------------
(***************************************************************************)
(* What the stores keep, for every value of the constants: no manifest      *)
(* before its chunks, a credential that reaches its own computer's keys and *)
(* outlasts its rotation, heads that a sweep leaves whole, a revert that    *)
(* makes the tree the manifest's, and ledgers that hold each AWAKE tick.    *)
(***************************************************************************)
EXTENDS ServicesProofs

-----------------------------------------------------------------------------
(* The bootstrap of an account's root.                                     *)

(* What one bootstrap has behind it is in the account's root.               *)
Carried(t) == task[t].at = "copying" =>
               \A c \in Manifest!ChunksOf(base) \ task[t].left : bodies["account"][c] # "absent"

BootShape == /\ bodies = [place \in Manifest!Roots |->
                           [c \in Manifest!AllChunks |-> bodies[place][c]]]
         /\ task = [t \in Tasks |-> [at |-> task[t].at, left |-> task[t].left]]
         /\ Manifest!ChunksOf(base) \subseteq Manifest!AllChunks

BootInv == BootShape /\ Manifest!PublishedWhole /\ \A t \in Tasks : Carried(t)

(* No step takes a chunk out of the account's root.                         *)
Kept == \A c \in Manifest!AllChunks :
          bodies["account"][c] # "absent" => bodies'["account"][c] # "absent"

LEMMA InitBootInv == Manifest!Init => BootInv
  <1> SUFFICES ASSUME Manifest!Init PROVE BootInv
    OBVIOUS
  <1>1. "account" \notin held
    BY DEF Manifest!Init
  <1>2. Manifest!ChunksOf(base) \subseteq Manifest!AllChunks
    BY DEF Manifest!Init, Manifest!AllChunks
  <1>3. \A t \in Tasks : task[t] = Manifest!Idle
    BY DEF Manifest!Init
  <1>4. BootShape
    BY <1>2 DEF Manifest!Init, BootShape, Manifest!Idle
  <1> QED
    BY <1>1, <1>3, <1>4 DEF BootInv, Manifest!PublishedWhole, Carried, Manifest!Idle

LEMMA CopyKeeps ==
    ASSUME BootInv, NEW t \in Tasks, NEW c \in Manifest!AllChunks, Manifest!copy(t, c)
    PROVE  BootInv'
  <1>1. /\ UNCHANGED <<base, held>>
        /\ bodies' = bodies \/ bodies' = [bodies EXCEPT !["account"][c] = bodies["fleet"][c]]
        /\ bodies' # bodies => bodies["fleet"][c] # "absent"
    BY DEF Manifest!copy
  <1>2. Kept
    BY <1>1 DEF BootInv, BootShape, Manifest!Roots, Kept
  <1>3. \/ task' = [task EXCEPT ![t] = Manifest!Idle]
        \/ task' = [task EXCEPT ![t].left = @ \ {c}] /\ bodies'["account"][c] # "absent"
    BY DEF Manifest!copy, BootInv, BootShape, Manifest!Roots
  <1>4. BootShape'
    <2>1. bodies' = [place \in Manifest!Roots |-> [x \in Manifest!AllChunks |-> bodies'[place][x]]]
      BY <1>1 DEF BootInv, BootShape, Manifest!Roots
    <2>2. task' = [x \in Tasks |-> [at |-> task'[x].at, left |-> task'[x].left]]
      BY <1>3 DEF BootInv, BootShape, Manifest!Idle
    <2> QED
      BY <1>1, <2>1, <2>2 DEF BootInv, BootShape, Manifest!ChunksOf
  <1>5. Manifest!PublishedWhole'
    BY <1>1, <1>2 DEF BootInv, BootShape, Manifest!PublishedWhole, Kept, Manifest!ChunksOf
  <1>6. ASSUME NEW x \in Tasks
        PROVE  Carried(x)'
    <2>1. /\ Carried(x) /\ Manifest!ChunksOf(base)' = Manifest!ChunksOf(base)
          /\ Manifest!ChunksOf(base) \subseteq Manifest!AllChunks
      BY <1>1 DEF BootInv, BootShape, Manifest!ChunksOf
    <2>2. CASE x # t
      <3>1. task'[x] = task[x]
        BY <1>3, <2>2 DEF BootInv, BootShape
      <3> QED
        BY <1>1, <1>2, <2>1, <3>1 DEF Carried, Kept
    <2>3. CASE x = t /\ task' = [task EXCEPT ![t] = Manifest!Idle]
      BY <2>3 DEF BootInv, BootShape, Carried, Manifest!Idle
    <2>4. CASE x = t /\ task' = [task EXCEPT ![t].left = @ \ {c}] /\ bodies'["account"][c] # "absent"
      <3>1. task'[t].left = task[t].left \ {c} /\ task'[t].at = task[t].at
        BY <2>4 DEF BootInv, BootShape
      <3> QED
        BY <1>1, <1>2, <2>1, <2>4, <3>1 DEF Carried, Kept
    <2> QED
      BY <1>3, <2>2, <2>3, <2>4
  <1> QED
    BY <1>4, <1>5, <1>6 DEF BootInv

LEMMA StepBootInv ==
    ASSUME BootInv, Manifest!Next
    PROVE  BootInv'
  <1>1. CASE Manifest!browse
    BY <1>1 DEF BootInv, BootShape, Manifest!PublishedWhole, Carried, Manifest!ChunksOf,
                Manifest!browse
  <1>2. ASSUME NEW t \in Tasks, NEW c \in Manifest!AllChunks, Manifest!copy(t, c)
        PROVE  BootInv'
    BY <1>2, CopyKeeps
  <1>3. ASSUME NEW t \in Tasks, Manifest!ensureManifestNamespace(t)
        PROVE  BootInv'
    BY <1>3 DEF BootInv, BootShape, Manifest!PublishedWhole, Carried, Manifest!ChunksOf,
       Manifest!ensureManifestNamespace
  <1>4. ASSUME NEW t \in Tasks, Manifest!publish(t)
        PROVE  BootInv'
    BY <1>4 DEF BootInv, BootShape, Manifest!PublishedWhole, Carried, Manifest!ChunksOf,
       Manifest!publish, Manifest!Idle
  <1>5. ASSUME NEW t \in Tasks, Manifest!cutOff(t)
        PROVE  BootInv'
    BY <1>5 DEF BootInv, BootShape, Manifest!PublishedWhole, Carried, Manifest!ChunksOf,
       Manifest!cutOff, Manifest!Idle
  <1> QED
    BY <1>1, <1>2, <1>3, <1>4, <1>5 DEF Manifest!Next

(* However many bootstraps copy at once and however they are cut, no root   *)
(* is marked as holding the manifest before it holds its chunks             *)
(* (ensureManifestNamespace puts the manifest last).                        *)
THEOREM PublishedWholeAlways == Spec => []PublishedWhole
  <1> DEFINE Inv == focus = "manifests" => BootInv
  <1>1. Init => Inv
    BY InitBootInv DEF Init
  <1>2. Inv /\ [Next]_vars => Inv'
    <2>1. BootInv /\ UNCHANGED manifests => BootInv'
      BY DEF BootInv, BootShape, Manifest!PublishedWhole, Carried, Manifest!ChunksOf,
         manifests
    <2> QED
      BY <2>1, FocusStays, StepBootInv
  <1>3. Inv => PublishedWhole
    BY DEF BootInv, PublishedWhole
  <1> QED
    BY <1>1, <1>2, <1>3, PTL DEF Spec

-----------------------------------------------------------------------------
(* The credential of a generation.                                         *)

(* Times are whole seconds, and None is none of them.                       *)
TimesAreNatural == /\ Ttls \subseteq Nat /\ Delays \subseteq Nat
                   /\ WakeTimeout \in Nat /\ ColdFinalize \in Nat /\ None \notin Int

(* Until the substrate answered, no time passes; then the deadline is what  *)
(* RotatedInTime says.                                                      *)
TimeInv == /\ env.ttl \in Nat /\ mintClock \in Nat
           /\ mintedAt = None \/ mintedAt \in Nat
           /\ due = None \/ due \in Int
           /\ mintedAt # None /\ due = None => mintedAt = mintClock
           /\ due # None => generation.kind \notin {"absent", "error"}
           /\ Credentials!RotatedInTime

LEMMA TtlIsNatural ==
    ASSUME env.ttl \in Nat
    PROVE  Credentials!tempCredentialTtlSeconds \in Nat /\ Credentials!lead \in Nat
  BY DEF Credentials!tempCredentialTtlSeconds, Credentials!Clamp, Credentials!lead

LEMMA InitTimeInv ==
    ASSUME TimesAreNatural
    PROVE  Credentials!Init => TimeInv
  <1> SUFFICES ASSUME Credentials!Init PROVE TimeInv
    OBVIOUS
  <1>1. env.ttl \in Ttls
    BY DEF Credentials!Init
  <1>2. env.ttl \in Nat
    BY <1>1, TimesAreNatural DEF TimesAreNatural
  <1>3. due = None /\ mintedAt = None /\ mintClock = 0
    BY DEF Credentials!Init
  <1> QED
    BY <1>2, <1>3 DEF TimeInv, Credentials!RotatedInTime

LEMMA StepTimeInv ==
    ASSUME TimesAreNatural, TimeInv, Credentials!Next
    PROVE  TimeInv'
  <1> USE DEF Credentials!Never
  <1>1. /\ Credentials!tempCredentialTtlSeconds \in Nat /\ Credentials!lead \in Nat
        /\ UNCHANGED env => /\ Credentials!tempCredentialTtlSeconds' = Credentials!tempCredentialTtlSeconds
                            /\ Credentials!lead' = Credentials!lead
    BY TtlIsNatural DEF TimeInv, Credentials!tempCredentialTtlSeconds, Credentials!Clamp,
       Credentials!lead
  <1>3. CASE Credentials!maridEnv
    <2>1. due = None /\ due' = None
      BY <1>3 DEF Credentials!maridEnv, TimeInv
    <2> QED
      BY <1>3, <2>1, TimesAreNatural DEF Credentials!maridEnv, TimeInv,
         Credentials!RotatedInTime
  <1>4. CASE Credentials!awake
    <2>1. PICK d \in Delays : d <= WakeTimeout /\ mintClock' = mintClock + d
      BY <1>4 DEF Credentials!awake
    <2>2. d \in Nat /\ mintClock' \in Nat
      BY <2>1, TimesAreNatural DEF TimesAreNatural, TimeInv
    <2>3. Credentials!RotatedInTime'
      <3> SUFFICES ASSUME due' = mintClock' + Credentials!tempCredentialTtlSeconds - Credentials!lead,
                          mintedAt # None,
                          Credentials!lead >= WakeTimeout + ColdFinalize
                   PROVE  due' + ColdFinalize <= mintedAt + Credentials!tempCredentialTtlSeconds
        BY <1>1, <1>4 DEF Credentials!awake, Credentials!RotatedInTime
      <3>1. mintedAt = mintClock /\ mintClock \in Nat
        BY <1>4 DEF Credentials!awake, TimeInv
      <3> QED
        BY <1>1, <2>1, <2>2, <3>1, TimesAreNatural DEF TimesAreNatural
    <2>4. due' \in Int /\ due' # None
      BY <1>1, <1>4, <2>2, TimesAreNatural DEF Credentials!awake, TimesAreNatural
    <2> QED
      BY <1>4, <2>2, <2>3, <2>4 DEF Credentials!awake, TimeInv
  <1>5. CASE Credentials!resume
    <2>1. mintClock' \in Nat /\ due' \in Int /\ due' # None
      BY <1>1, <1>5, TimesAreNatural DEF Credentials!resume, TimesAreNatural, TimeInv
    <2> QED
      BY <1>5, <2>1 DEF Credentials!resume, TimeInv, Credentials!RotatedInTime
  <1>6. CASE Credentials!onCredentialDeadline
    BY <1>6, TimesAreNatural DEF Credentials!onCredentialDeadline, TimeInv,
       Credentials!RotatedInTime
  <1> QED
    BY <1>3, <1>4, <1>5, <1>6 DEF Credentials!Next

(* Accounts and computers are named by single key segments: no name holds   *)
(* a separator (checkComputerId refuses one that does, and an account's name *)
(* is a digest).                                                            *)
NamesAreSegments == /\ Owners \cup Ids \subseteq Seq(STRING)
                    /\ \A name \in Owners \cup Ids : \A i \in 1..Len(name) : name[i] # "/"

(* What keys are made of.                                                   *)
Parts == STRING \cup {"/", "x", ".cbor", "tenants", "chunks", "manifests", "journal",
                      "runs", "state", "heat"}

LEMMA NamesAreParts ==
    ASSUME NamesAreSegments
    PROVE  \A name \in Owners \cup Ids : name \in Seq(Parts)
  <1>1. Seq(STRING) \subseteq Seq(Parts)
    BY DEF Parts
  <1> QED
    BY <1>1 DEF NamesAreSegments

(* One piece of a key after another, and what that is element by element.   *)
Join(s, t) == s \o t
Joined(k, s, t) == /\ Len(k) = Len(s) + Len(t)
                   /\ \A i \in 1..Len(s) : k[i] = s[i]
                   /\ \A i \in 1..Len(t) : k[Len(s) + i] = t[i]
Begins(s, t) == Len(s) <= Len(t) /\ \A i \in 1..Len(s) : s[i] = t[i]

LEMMA Concat ==
    ASSUME NEW S, NEW s \in Seq(S), NEW t \in Seq(S)
    PROVE  Join(s, t) \in Seq(S) /\ Joined(Join(s, t), s, t)
  BY DEF Join, Joined

LEMMA PrefixBegins ==
    ASSUME NEW S, NEW s \in Seq(S), NEW t \in Seq(S)
    PROVE  IsPrefix(s, t) <=> Begins(s, t)
  <1>1. ASSUME IsPrefix(s, t), NEW i \in 1..Len(s)
        PROVE  s[i] = t[i]
    <2>1. SubSeq(s, 1, Len(s))[i] = SubSeq(t, 1, Len(s))[i]
      BY <1>1 DEF IsPrefix
    <2>2. Len(s) <= Len(t)
      BY <1>1 DEF IsPrefix
    <2> QED
      BY <2>1, <2>2
  <1>2. ASSUME Len(s) <= Len(t), \A i \in 1..Len(s) : s[i] = t[i]
        PROVE  IsPrefix(s, t)
    <2>1. /\ SubSeq(s, 1, Len(s)) \in Seq(S) /\ Len(SubSeq(s, 1, Len(s))) = Len(s)
          /\ SubSeq(t, 1, Len(s)) \in Seq(S) /\ Len(SubSeq(t, 1, Len(s))) = Len(s)
      BY <1>2
    <2>2. \A i \in 1..Len(s) : SubSeq(s, 1, Len(s))[i] = SubSeq(t, 1, Len(s))[i]
      BY <1>2
    <2>3. SubSeq(s, 1, Len(s)) = SubSeq(t, 1, Len(s))
      BY <2>1, <2>2, SeqEqual
    <2> QED
      BY <1>2, <2>3 DEF IsPrefix
  <1> QED
    BY <1>1, <1>2 DEF IsPrefix, Begins

(* Beginnings of one length are the same where what they begin agrees.      *)
LEMMA BeginningsAgree ==
    ASSUME NEW S, NEW u \in Seq(S), NEW v \in Seq(S), Len(u) = Len(v),
           NEW s \in Seq(S), NEW t \in Seq(S), IsPrefix(Join(u, s), Join(v, t))
    PROVE  u = v /\ IsPrefix(s, t)
  <1> DEFINE us == Join(u, s)
             vt == Join(v, t)
  <1>1. us \in Seq(S) /\ vt \in Seq(S) /\ Joined(us, u, s) /\ Joined(vt, v, t)
    BY Concat
  <1>2. Begins(us, vt)
    BY <1>1, PrefixBegins
  <1> HIDE DEF us, vt
  <1>3. Len(u) \in Nat /\ Len(s) \in Nat /\ Len(t) \in Nat
    OBVIOUS
  <1>4. \A i \in 1..Len(u) : u[i] = v[i]
    <2> TAKE i \in 1..Len(u)
    <2>1. i \in 1..Len(us) /\ i \in 1..Len(v)
      BY <1>1, <1>3 DEF Joined
    <2>2. us[i] = u[i] /\ vt[i] = v[i]
      BY <1>1, <2>1 DEF Joined
    <2> QED
      BY <1>2, <2>1, <2>2 DEF Begins
  <1>5. Len(s) <= Len(t)
    BY <1>1, <1>2, <1>3 DEF Joined, Begins
  <1>6. \A i \in 1..Len(s) : s[i] = t[i]
    <2> TAKE i \in 1..Len(s)
    <2>1. Len(u) + i \in 1..Len(us) /\ i \in 1..Len(t)
      BY <1>1, <1>3, <1>5 DEF Joined
    <2>2. us[Len(u) + i] = s[i] /\ vt[Len(u) + i] = t[i]
      BY <1>1, <2>1 DEF Joined
    <2> QED
      BY <1>2, <2>1, <2>2 DEF Begins
  <1>7. Begins(s, t)
    BY <1>5, <1>6 DEF Begins
  <1> QED
    BY <1>4, <1>7, PrefixBegins, SeqEqual

(* Where two keys agree past a segment that a separator ends, the segments  *)
(* are the same, and so is what is before and after them.                   *)
Key(h, a, r) == Join(Join(h, a), r)
IsSegment(a) == \A i \in 1..Len(a) : a[i] # "/"

LEMMA SegmentLength ==
    ASSUME NEW S, NEW h \in Seq(S), NEW k \in Seq(S), Len(h) = Len(k),
           NEW a \in Seq(S), NEW b \in Seq(S), IsSegment(b),
           NEW r \in Seq(S), NEW s \in Seq(S), Len(r) > 0, r[1] = "/",
           NEW A \in Seq(S), NEW B \in Seq(S),
           NEW ha, NEW kb, Joined(ha, h, a), Joined(kb, k, b),
           Joined(A, ha, r), Joined(B, kb, s),
           \A i \in 1..Len(A) : i \in 1..Len(B) => A[i] = B[i]
    PROVE  ~(Len(a) < Len(b))
  <1> SUFFICES ASSUME Len(a) < Len(b) PROVE FALSE
    OBVIOUS
  <1>1. /\ Len(h) \in Nat /\ Len(a) \in Nat /\ Len(b) \in Nat /\ Len(r) \in Nat
        /\ Len(s) \in Nat
    OBVIOUS
  <1>2. /\ Len(ha) = Len(h) + Len(a) /\ Len(kb) = Len(h) + Len(b)
        /\ Len(A) = Len(h) + Len(a) + Len(r) /\ Len(B) = Len(h) + Len(b) + Len(s)
    BY <1>1 DEF Joined
  <1> DEFINE at == Len(ha) + 1
  <1>3. 1 \in 1..Len(r) /\ A[at] = "/"
    BY <1>1 DEF Joined
  <1>4. Len(a) + 1 \in 1..Len(b) /\ Len(h) + (Len(a) + 1) \in 1..Len(kb)
        /\ Len(h) + (Len(a) + 1) = at
    BY <1>1, <1>2
  <1>5. kb[Len(h) + (Len(a) + 1)] = b[Len(a) + 1]
    BY <1>4 DEF Joined
  <1>6. B[at] = b[Len(a) + 1]
    BY <1>4, <1>5 DEF Joined
  <1>7. at \in 1..Len(A) /\ at \in 1..Len(B)
    BY <1>1, <1>2
  <1> QED
    BY <1>3, <1>4, <1>6, <1>7 DEF IsSegment

LEMMA SegmentsAgree ==
    ASSUME NEW S, NEW h \in Seq(S), NEW k \in Seq(S), Len(h) = Len(k),
           NEW a \in Seq(S), NEW b \in Seq(S), IsSegment(a), IsSegment(b),
           NEW r \in Seq(S), NEW s \in Seq(S),
           Len(r) > 0, r[1] = "/", Len(s) > 0, s[1] = "/",
           IsPrefix(Key(h, a, r), Key(k, b, s))
    PROVE  h = k /\ a = b /\ IsPrefix(r, s)
  <1> DEFINE ha == Join(h, a)
             kb == Join(k, b)
             A == Join(ha, r)
             B == Join(kb, s)
  <1>1. ha \in Seq(S) /\ kb \in Seq(S) /\ Joined(ha, h, a) /\ Joined(kb, k, b)
    BY Concat
  <1>2. A \in Seq(S) /\ B \in Seq(S) /\ Joined(A, ha, r) /\ Joined(B, kb, s)
    BY <1>1, Concat
  <1>3. IsPrefix(A, B)
    BY DEF Key
  <1>4. Begins(A, B)
    BY <1>2, <1>3, PrefixBegins
  <1> HIDE DEF ha, kb, A, B
  <1>5. \A i \in 1..Len(A) : i \in 1..Len(B) => A[i] = B[i]
    BY <1>4 DEF Begins
  <1>6. \A i \in 1..Len(B) : i \in 1..Len(A) => B[i] = A[i]
    BY <1>4 DEF Begins
  <1>7. ~(Len(a) < Len(b))
    BY <1>1, <1>2, <1>5, SegmentLength
  <1>8. ~(Len(b) < Len(a))
    BY <1>1, <1>2, <1>6, SegmentLength
  <1>9. Len(a) = Len(b) /\ Len(ha) = Len(kb)
    BY <1>1, <1>7, <1>8 DEF Joined
  <1>10. ha = kb /\ IsPrefix(r, s)
    BY <1>1, <1>3, <1>9, BeginningsAgree DEF A, B
  <1>11. IsPrefix(Join(h, a), Join(k, b))
    BY <1>1, <1>10, PrefixBegins DEF Begins, ha, kb
  <1>12. h = k /\ IsPrefix(a, b)
    BY <1>11, BeginningsAgree
  <1>13. a = b
    BY <1>9, <1>12, PrefixBegins, SeqEqual DEF Begins
  <1> QED
    BY <1>10, <1>12, <1>13

LEMMA JoinKeepsPrefix ==
    ASSUME NEW S, NEW u \in Seq(S), NEW s \in Seq(S), NEW t \in Seq(S), IsPrefix(s, t)
    PROVE  IsPrefix(Join(u, s), Join(u, t))
  <1> DEFINE us == Join(u, s)
             ut == Join(u, t)
  <1>1. us \in Seq(S) /\ ut \in Seq(S) /\ Joined(us, u, s) /\ Joined(ut, u, t)
    BY Concat
  <1> HIDE DEF us, ut
  <1>2. Begins(s, t)
    BY PrefixBegins
  <1>3. Len(u) \in Nat /\ Len(s) \in Nat /\ Len(t) \in Nat
    OBVIOUS
  <1>4. Len(us) <= Len(ut)
    BY <1>1, <1>2, <1>3 DEF Joined, Begins
  <1>5. \A i \in 1..Len(us) : us[i] = ut[i]
    <2> TAKE i \in 1..Len(us)
    <2>1. CASE i <= Len(u)
      BY <1>1, <1>3, <2>1 DEF Joined
    <2>2. CASE ~(i <= Len(u))
      <3>1. i - Len(u) \in 1..Len(s) /\ i - Len(u) \in 1..Len(t) /\ Len(u) + (i - Len(u)) = i
        BY <1>1, <1>2, <1>3, <2>2 DEF Joined, Begins
      <3>2. us[Len(u) + (i - Len(u))] = s[i - Len(u)] /\ ut[Len(u) + (i - Len(u))] = t[i - Len(u)]
        BY <1>1, <3>1 DEF Joined
      <3> QED
        BY <1>2, <3>1, <3>2 DEF Begins
    <2> QED
      BY <2>1, <2>2
  <1>6. Begins(us, ut)
    BY <1>4, <1>5 DEF Begins
  <1> QED
    BY <1>1, <1>6, PrefixBegins DEF us, ut

LEMMA PrefixOfItself ==
    ASSUME NEW S, NEW s \in Seq(S)
    PROVE  IsPrefix(s, s)
  BY PrefixBegins DEF Begins

(* A key in a directory.                                                    *)
LEMMA DirectoryKey ==
    ASSUME NEW dir \in Parts, NEW c \in Seq(Parts), NEW r \in Seq(Parts)
    PROVE  /\ Key(<<dir, "/">>, c, r) \in Seq(Parts)
           /\ Len(Key(<<dir, "/">>, c, r)) > 0 /\ Key(<<dir, "/">>, c, r)[1] = dir
           /\ Key(<<dir, "/">>, c, r) = <<dir, "/">> \o c \o r
           /\ <<dir, "/">> \in Seq(Parts)
  <1> DEFINE h == <<dir, "/">>
             hc == Join(h, c)
             key == Join(hc, r)
  <1>1. h \in Seq(Parts) /\ Len(h) = 2 /\ h[1] = dir
    BY DEF Parts
  <1>2. key = <<dir, "/">> \o c \o r
    BY DEF Join
  <1> HIDE DEF h
  <1>3. hc \in Seq(Parts) /\ Joined(hc, h, c)
    BY <1>1, Concat
  <1>4. key \in Seq(Parts) /\ Joined(key, hc, r)
    BY <1>3, Concat
  <1> HIDE DEF hc
  <1> HIDE DEF key
  <1>5. Len(c) \in Nat /\ Len(r) \in Nat
    OBVIOUS
  <1>6. Len(hc) = Len(c) + 2 /\ Len(key) = Len(c) + 2 + Len(r) /\ hc[1] = dir
    BY <1>1, <1>3, <1>4, <1>5 DEF Joined
  <1>7. key[1] = dir
    BY <1>4, <1>5, <1>6 DEF Joined
  <1>8. Key(<<dir, "/">>, c, r) = key /\ <<dir, "/">> = h
    BY DEF Key, h, hc, key
  <1>9. key \in Seq(Parts) /\ Len(key) > 0 /\ key[1] = dir
    BY <1>4, <1>5, <1>6, <1>7
  <1>10. Key(<<dir, "/">>, c, r) = <<dir, "/">> \o c \o r
    BY DEF Key, Join
  <1> QED
    BY <1>1, <1>8, <1>9, <1>10, Zenon

LEMMA FirstAgrees ==
    ASSUME NEW S, NEW s \in Seq(S), NEW t \in Seq(S), IsPrefix(s, t), Len(s) > 0
    PROVE  s[1] = t[1]
  <1>1. Begins(s, t)
    BY PrefixBegins
  <1>2. 1 \in 1..Len(s)
    OBVIOUS
  <1> QED
    BY <1>1, <1>2 DEF Begins

LEMMA SameEnding ==
    ASSUME NEW S, NEW h \in Seq(S), NEW c \in Seq(S), NEW d \in Seq(S), NEW r \in Seq(S),
           Key(h, c, r) = Key(h, d, r)
    PROVE  c = d
  <1> DEFINE hc == Join(h, c)
             hd == Join(h, d)
             k == Join(hc, r)
             l == Join(hd, r)
  <1>1. hc \in Seq(S) /\ hd \in Seq(S) /\ Joined(hc, h, c) /\ Joined(hd, h, d)
    BY Concat
  <1>2. k \in Seq(S) /\ l \in Seq(S) /\ Joined(k, hc, r) /\ Joined(l, hd, r)
    BY <1>1, Concat
  <1>3. k = l
    BY DEF Key
  <1> HIDE DEF hc, hd, k, l
  <1>4. Len(hc) = Len(hd) /\ Len(c) = Len(d)
    <2>1. Len(h) \in Nat /\ Len(r) \in Nat /\ Len(c) \in Nat /\ Len(d) \in Nat
      OBVIOUS
    <2>2. /\ Len(hc) = Len(h) + Len(c) /\ Len(hd) = Len(h) + Len(d)
          /\ Len(hc) \in Nat /\ Len(hd) \in Nat
      BY <1>1 DEF Joined
    <2>3. Len(k) = Len(hc) + Len(r) /\ Len(k) = Len(hd) + Len(r)
      BY <1>2, <1>3 DEF Joined
    <2>4. \A a, b, x \in Nat : a + x = b + x => a = b
      OBVIOUS
    <2>5. Len(hc) = Len(hd)
      <3>1. Len(hc) + Len(r) = Len(hd) + Len(r)
        BY <2>3, Zenon
      <3> QED
        BY <2>1, <2>2, <2>4, <3>1, Zenon
    <2>6. Len(c) = Len(d)
      <3>1. Len(h) + Len(c) = Len(h) + Len(d)
        BY <2>2, <2>5
      <3> QED
        BY <2>1, <3>1
    <2> QED
      BY <2>5, <2>6
  <1>5. IsPrefix(k, l)
    BY <1>2, <1>3, PrefixOfItself
  <1>6. hc = hd
    BY <1>1, <1>4, <1>5, BeginningsAgree DEF k, l
  <1>7. IsPrefix(hc, hd)
    BY <1>1, <1>6, PrefixOfItself
  <1>8. IsPrefix(c, d)
    BY <1>7, BeginningsAgree DEF hc, hd
  <1> QED
    BY <1>4, <1>8, PrefixBegins, SeqEqual DEF Begins

(* In a store whose accounts have roots of their own, a key names its       *)
(* account.                                                                 *)
LEMMA RootedKey ==
    ASSUME NamesAreSegments, env.uri = "s3", NEW o \in Owners, NEW k \in Seq(Parts)
    PROVE  Credentials!InRoot(Credentials!tenantStoreRoot(o), k)
             = Key(<<"tenants", "/">>, o, Join(<<"/">>, k))
  <1> DEFINE h == <<"tenants", "/">>
             slash == <<"/">>
  <1>1. o \in Seq(Parts) /\ h \in Seq(Parts) /\ slash \in Seq(Parts) /\ Len(h) = 2
    BY NamesAreParts DEF Parts
  <1>2. Credentials!tenantStoreRoot(o) = h \o o
    BY DEF Credentials!tenantStoreRoot
  <1> HIDE DEF h, slash
  <1>3. h \o o \in Seq(Parts) /\ h \o o # <<>>
    <2>1. h \o o \in Seq(Parts)
      BY <1>1
    <2>2. Joined(Join(h, o), h, o)
      BY <1>1, Concat
    <2>3. Len(Join(h, o)) = 2 + Len(o) /\ Len(o) \in Nat
      BY <1>1, <2>2 DEF Joined
    <2>4. Join(h, o) # <<>>
      BY <2>3
    <2> QED
      BY <2>1, <2>4 DEF Join
  <1>4. ((h \o o) \o slash) \o k = (h \o o) \o (slash \o k)
    BY <1>1, <1>3
  <1> QED
    BY <1>2, <1>3, <1>4 DEF Credentials!InRoot, Key, Join, h, slash

LEMMA RootsApart ==
    ASSUME NamesAreSegments, env.uri = "s3", NEW o \in Owners, NEW p \in Owners,
           NEW k \in Seq(Parts), NEW l \in Seq(Parts),
           IsPrefix(Credentials!InRoot(Credentials!tenantStoreRoot(o), k),
                    Credentials!InRoot(Credentials!tenantStoreRoot(p), l))
    PROVE  o = p /\ IsPrefix(k, l)
  <1> DEFINE h == <<"tenants", "/">>
             slash == <<"/">>
             r == Join(slash, k)
             s == Join(slash, l)
  <1>1. /\ h \in Seq(Parts) /\ slash \in Seq(Parts) /\ Len(slash) = 1 /\ slash[1] = "/"
    BY DEF Parts
  <1>2. o \in Seq(Parts) /\ p \in Seq(Parts) /\ IsSegment(o) /\ IsSegment(p)
    BY NamesAreParts DEF NamesAreSegments, IsSegment
  <1>3. IsPrefix(Key(h, o, r), Key(h, p, s))
    BY RootedKey
  <1> HIDE DEF h, slash
  <1>4. r \in Seq(Parts) /\ s \in Seq(Parts) /\ Joined(r, slash, k) /\ Joined(s, slash, l)
    BY <1>1, Concat
  <1> HIDE DEF r, s
  <1>5. Len(r) > 0 /\ r[1] = "/" /\ Len(s) > 0 /\ s[1] = "/"
    <2>1. Len(k) \in Nat /\ Len(l) \in Nat
      OBVIOUS
    <2> QED
      BY <1>1, <1>4, <2>1 DEF Joined
  <1>6. o = p /\ IsPrefix(r, s)
    BY <1>1, <1>2, <1>3, <1>4, <1>5, SegmentsAgree
  <1>7. IsPrefix(k, l)
    BY <1>1, <1>6, BeginningsAgree DEF r, s
  <1> QED
    BY <1>6, <1>7

LEMMA RootKeepsPrefix ==
    ASSUME NamesAreSegments, env.uri = "s3", NEW o \in Owners,
           NEW k \in Seq(Parts), NEW l \in Seq(Parts), IsPrefix(k, l)
    PROVE  IsPrefix(Credentials!InRoot(Credentials!tenantStoreRoot(o), k),
                    Credentials!InRoot(Credentials!tenantStoreRoot(o), l))
  <1> DEFINE h == <<"tenants", "/">>
             slash == <<"/">>
             r == Join(slash, k)
             s == Join(slash, l)
             ho == Join(h, o)
  <1>1. h \in Seq(Parts) /\ slash \in Seq(Parts) /\ o \in Seq(Parts)
    BY NamesAreParts DEF Parts
  <1>2. /\ Credentials!InRoot(Credentials!tenantStoreRoot(o), k) = Join(ho, r)
        /\ Credentials!InRoot(Credentials!tenantStoreRoot(o), l) = Join(ho, s)
    BY RootedKey DEF Key
  <1> HIDE DEF h, slash
  <1>3. r \in Seq(Parts) /\ s \in Seq(Parts) /\ ho \in Seq(Parts) /\ IsPrefix(r, s)
    BY <1>1, Concat, JoinKeepsPrefix
  <1> HIDE DEF r, s, ho
  <1> QED
    BY <1>2, <1>3, JoinKeepsPrefix

(* What a minted generation was given is what its account and computer      *)
(* scope it to.                                                             *)
Scope == /\ computer \in Ids /\ owner \in Owners /\ env.uri \in {"fs", "s3"}
         /\ generation.kind = "minted" =>
              generation = Credentials!composeStoreEnv(computer, owner)

Directories == {"journal", "runs", "state"}
Journal(dir, c) == Key(<<dir, "/">>, c, <<"/", "x">>)
JournalPrefix(dir, c) == Key(<<dir, "/">>, c, <<"/">>)
Heat(c) == Key(<<"heat", "/">>, c, <<".cbor">>)
At(o, k) == Credentials!InRoot(Credentials!tenantStoreRoot(o), k)

LEMMA TheKeys ==
    ASSUME NamesAreSegments, NEW c \in Ids
    PROVE  /\ \A dir \in Directories :
                /\ Journal(dir, c) \in Seq(Parts) /\ JournalPrefix(dir, c) \in Seq(Parts)
                /\ Len(JournalPrefix(dir, c)) > 0 /\ Len(Journal(dir, c)) > 0
                /\ Journal(dir, c)[1] = dir /\ JournalPrefix(dir, c)[1] = dir
                /\ Journal(dir, c) = <<dir, "/">> \o c \o <<"/", "x">>
                /\ JournalPrefix(dir, c) = <<dir, "/">> \o c \o <<"/">>
                /\ IsPrefix(JournalPrefix(dir, c), Journal(dir, c))
           /\ Heat(c) \in Seq(Parts) /\ Len(Heat(c)) > 0 /\ Heat(c)[1] = "heat"
           /\ Heat(c) = <<"heat", "/">> \o c \o <<".cbor">>
  <1>1. /\ c \in Seq(Parts) /\ Directories \subseteq Parts /\ "heat" \in Parts
        /\ <<"/">> \in Seq(Parts) /\ <<"/", "x">> \in Seq(Parts) /\ <<".cbor">> \in Seq(Parts)
    BY NamesAreParts DEF Parts, Directories
  <1>2. ASSUME NEW dir \in Directories
        PROVE  /\ Journal(dir, c) \in Seq(Parts) /\ Len(Journal(dir, c)) > 0
               /\ Journal(dir, c)[1] = dir
               /\ Journal(dir, c) = <<dir, "/">> \o c \o <<"/", "x">>
    BY <1>1, DirectoryKey, Zenon DEF Journal
  <1>3. ASSUME NEW dir \in Directories
        PROVE  /\ JournalPrefix(dir, c) \in Seq(Parts) /\ Len(JournalPrefix(dir, c)) > 0
               /\ JournalPrefix(dir, c)[1] = dir
               /\ JournalPrefix(dir, c) = <<dir, "/">> \o c \o <<"/">>
    BY <1>1, DirectoryKey, Zenon DEF JournalPrefix
  <1>4. ASSUME NEW dir \in Directories
        PROVE  IsPrefix(JournalPrefix(dir, c), Journal(dir, c))
    <2>1. IsPrefix(<<"/">>, <<"/", "x">>)
      <3>1. Begins(<<"/">>, <<"/", "x">>)
        BY DEF Begins
      <3> QED
        BY <1>1, <3>1, PrefixBegins
    <2>2. <<dir, "/">> \in Seq(Parts)
      BY <1>1, DirectoryKey
    <2>3. Join(<<dir, "/">>, c) \in Seq(Parts)
      BY <1>1, <2>2, Concat
    <2> QED
      BY <1>1, <2>1, <2>3, JoinKeepsPrefix, Zenon DEF Journal, JournalPrefix, Key
  <1>5. /\ Heat(c) \in Seq(Parts) /\ Len(Heat(c)) > 0 /\ Heat(c)[1] = "heat"
        /\ Heat(c) = <<"heat", "/">> \o c \o <<".cbor">>
    BY <1>1, DirectoryKey, Zenon DEF Heat
  <1> QED
    BY <1>2, <1>3, <1>4, <1>5

LEMMA SharedKeys ==
    ASSUME NEW dir \in {"chunks", "manifests"}
    PROVE  /\ <<dir, "/">> \in Seq(Parts) /\ <<dir, "/", "x">> \in Seq(Parts)
           /\ Len(<<dir, "/">>) > 0 /\ <<dir, "/">>[1] = dir
           /\ IsPrefix(<<dir, "/">>, <<dir, "/", "x">>)
  <1>1. <<dir, "/">> \in Seq(Parts) /\ <<dir, "/", "x">> \in Seq(Parts)
    BY DEF Parts
  <1>2. Begins(<<dir, "/">>, <<dir, "/", "x">>)
    <2>1. Len(<<dir, "/">>) = 2 /\ Len(<<dir, "/", "x">>) = 3
      OBVIOUS
    <2>2. <<dir, "/">>[1] = <<dir, "/", "x">>[1] /\ <<dir, "/">>[2] = <<dir, "/", "x">>[2]
      OBVIOUS
    <2>3. 1..2 = {1, 2}
      OBVIOUS
    <2> QED
      BY <2>1, <2>2, <2>3 DEF Begins
  <1>3. IsPrefix(<<dir, "/">>, <<dir, "/", "x">>)
    BY <1>1, <1>2, PrefixBegins, Zenon
  <1>4. Len(<<dir, "/">>) > 0 /\ <<dir, "/">>[1] = dir
    OBVIOUS
  <1> QED
    BY <1>1, <1>3, <1>4, Zenon

LEMMA OpensByPrefix ==
    ASSUME NEW key
    PROVE  Credentials!Opens(key) <=> \/ key \in generation.objects
                                      \/ \E p \in generation.prefixes : IsPrefix(p, key)
  BY DEF Credentials!Opens, Credentials!IsPrefix, IsPrefix

(* What a minted generation opens.                                          *)
LEMMA MintedScope ==
    ASSUME NamesAreSegments, Scope, generation.kind = "minted"
    PROVE  /\ env.uri = "s3"
           /\ generation.prefixes =
                {At(owner, k) : k \in {<<"chunks", "/">>, <<"manifests", "/">>}
                                      \cup {JournalPrefix(dir, computer) : dir \in Directories}}
           /\ generation.objects = {At(owner, Heat(computer))}
  <1>1. generation = [kind |-> "minted",
           prefixes |-> Credentials!storeCredentialPrefixes(
                          computer, Credentials!tenantStoreRoot(owner)),
           objects |-> Credentials!storeCredentialObjects(
                         computer, Credentials!tenantStoreRoot(owner))]
        /\ env.uri # "fs"
    BY DEF Scope, Credentials!composeStoreEnv, Credentials!Error
  <1>2. {JournalPrefix(dir, computer) : dir \in Directories}
          = {<<dir, "/">> \o computer \o <<"/">> : dir \in {"journal", "runs", "state"}}
    BY TheKeys DEF Directories, Scope
  <1>3. Heat(computer) = <<"heat", "/">> \o computer \o <<".cbor">>
    BY TheKeys DEF Scope
  <1>4. /\ generation.prefixes = Credentials!storeCredentialPrefixes(
                                   computer, Credentials!tenantStoreRoot(owner))
        /\ generation.objects = Credentials!storeCredentialObjects(
                                  computer, Credentials!tenantStoreRoot(owner))
    BY <1>1
  <1>5. env.uri = "s3"
    BY <1>1 DEF Scope
  <1>6. generation.prefixes =
                {At(owner, k) : k \in {<<"chunks", "/">>, <<"manifests", "/">>}
                                      \cup {JournalPrefix(dir, computer) : dir \in Directories}}
    BY <1>2, <1>4, Zenon DEF Credentials!storeCredentialPrefixes, At
  <1>7. generation.objects = {At(owner, Heat(computer))}
    BY <1>3, <1>4, Zenon DEF Credentials!storeCredentialObjects, At
  <1> QED
    BY <1>5, <1>6, <1>7

LEMMA OwnKeys ==
    ASSUME NamesAreSegments, NEW c \in Ids, NEW o \in Owners
    PROVE  /\ Credentials!Own(c, o) = {At(o, Journal(dir, c)) : dir \in Directories}
                                      \cup {At(o, Heat(c))}
           /\ Credentials!Shared(o) = {At(o, <<dir, "/", "x">>) : dir \in {"chunks", "manifests"}}
  <1>1. /\ Heat(c) = <<"heat", "/">> \o c \o <<".cbor">>
        /\ \A dir \in {"journal", "runs", "state"} :
             Journal(dir, c) = <<dir, "/">> \o c \o <<"/", "x">>
    BY TheKeys DEF Directories
  <1>2. Credentials!Own(c, o) = {At(o, <<dir, "/">> \o c \o <<"/", "x">>) :
                                   dir \in {"journal", "runs", "state"}}
                                \cup {At(o, <<"heat", "/">> \o c \o <<".cbor">>)}
    BY Zenon DEF Credentials!Own, At
  <1>3. {At(o, Journal(dir, c)) : dir \in Directories}
           = {At(o, <<dir, "/">> \o c \o <<"/", "x">>) : dir \in {"journal", "runs", "state"}}
    <2> DEFINE F(dir) == <<dir, "/">> \o c \o <<"/", "x">>
    <2>1. \A dir \in {"journal", "runs", "state"} : Journal(dir, c) = F(dir)
      BY <1>1
    <2> HIDE DEF F
    <2>2. {At(o, Journal(dir, c)) : dir \in Directories}
            = {At(o, F(dir)) : dir \in {"journal", "runs", "state"}}
      BY <2>1 DEF Directories
    <2> QED
      BY <2>2 DEF F
  <1>4. Credentials!Shared(o) = {At(o, <<dir, "/", "x">>) : dir \in {"chunks", "manifests"}}
    BY Zenon DEF Credentials!Shared, At
  <1> QED
    BY <1>1, <1>2, <1>3, <1>4, Zenon

(* A credential opens what its supervisor writes.                           *)
LEMMA OpensItsOwn ==
    ASSUME NamesAreSegments, Scope, generation.kind = "minted",
           NEW key \in Credentials!Own(computer, owner) \cup Credentials!Shared(owner)
    PROVE  Credentials!Opens(key)
  <1>1. computer \in Ids /\ owner \in Owners
    BY DEF Scope
  <1>2. env.uri = "s3"
    BY MintedScope
  <1>3. ASSUME NEW dir \in Directories, key = At(owner, Journal(dir, computer))
        PROVE  Credentials!Opens(key)
    <2>1. At(owner, JournalPrefix(dir, computer)) \in generation.prefixes
      BY MintedScope, Zenon
    <2>2. IsPrefix(At(owner, JournalPrefix(dir, computer)), key)
      <3>1. /\ JournalPrefix(dir, computer) \in Seq(Parts) /\ Journal(dir, computer) \in Seq(Parts)
            /\ IsPrefix(JournalPrefix(dir, computer), Journal(dir, computer))
        BY <1>1, TheKeys
      <3> QED
        BY <1>1, <1>2, <1>3, <3>1, RootKeepsPrefix, Zenon DEF At
    <2> QED
      BY <2>1, <2>2, OpensByPrefix, Zenon
  <1>4. ASSUME NEW dir \in {"chunks", "manifests"}, key = At(owner, <<dir, "/", "x">>)
        PROVE  Credentials!Opens(key)
    <2>1. At(owner, <<dir, "/">>) \in generation.prefixes
      <3>1. <<dir, "/">> \in {<<"chunks", "/">>, <<"manifests", "/">>}
        OBVIOUS
      <3> QED
        BY <3>1, MintedScope, Zenon
    <2>2. IsPrefix(At(owner, <<dir, "/">>), key)
      <3>1. /\ <<dir, "/">> \in Seq(Parts) /\ <<dir, "/", "x">> \in Seq(Parts)
            /\ IsPrefix(<<dir, "/">>, <<dir, "/", "x">>)
        BY SharedKeys
      <3> QED
        BY <1>1, <1>2, <1>4, <3>1, RootKeepsPrefix, Zenon DEF At
    <2> QED
      BY <2>1, <2>2, OpensByPrefix, Zenon
  <1>5. CASE key = At(owner, Heat(computer))
    BY <1>5, MintedScope DEF Credentials!Opens
  <1> QED
    <2>1. \/ \E dir \in Directories : key = At(owner, Journal(dir, computer))
          \/ key = At(owner, Heat(computer))
          \/ \E dir \in {"chunks", "manifests"} : key = At(owner, <<dir, "/", "x">>)
      BY <1>1, OwnKeys, Zenon
    <2> QED
      BY <1>3, <1>4, <1>5, <2>1, Zenon

(* A prefix or the object of a credential in a key, by what the key is      *)
(* within its account's root.                                               *)
LEMMA OpenedBy ==
    ASSUME NamesAreSegments, Scope, generation.kind = "minted", NEW o \in Owners,
           NEW l \in Seq(Parts), Credentials!Opens(At(o, l))
    PROVE  /\ o = owner
           /\ \/ l = Heat(computer)
              \/ \E dir \in {"chunks", "manifests"} : IsPrefix(<<dir, "/">>, l)
              \/ \E dir \in Directories : IsPrefix(JournalPrefix(dir, computer), l)
  <1>1. computer \in Ids /\ owner \in Owners /\ env.uri = "s3"
    BY MintedScope DEF Scope
  <1>2. CASE At(o, l) \in generation.objects
    <2>1. At(o, l) = At(owner, Heat(computer))
      BY <1>2, MintedScope
    <2>2. Heat(computer) \in Seq(Parts)
      BY <1>1, TheKeys
    <2>3. At(o, l) \in Seq(Parts)
      <3> DEFINE r == Join(<<"/">>, l)
                 h == <<"tenants", "/">>
      <3>1. h \in Seq(Parts) /\ o \in Seq(Parts) /\ <<"/">> \in Seq(Parts)
        BY NamesAreParts DEF Parts
      <3>2. r \in Seq(Parts) /\ Join(h, o) \in Seq(Parts)
        BY <3>1, Concat
      <3>3. At(o, l) = Join(Join(h, o), r)
        BY <1>1, RootedKey DEF At, Key
      <3> HIDE DEF r, h
      <3> QED
        BY <3>2, <3>3, Concat
    <2>4. /\ IsPrefix(At(o, l), At(owner, Heat(computer)))
          /\ IsPrefix(At(owner, Heat(computer)), At(o, l))
      BY <2>1, <2>3, PrefixOfItself
    <2>5. o = owner /\ IsPrefix(l, Heat(computer))
      BY <1>1, <2>2, <2>4, RootsApart, Zenon DEF At
    <2>6. IsPrefix(Heat(computer), l)
      BY <1>1, <2>2, <2>4, RootsApart, Zenon DEF At
    <2>7. Begins(l, Heat(computer)) /\ Begins(Heat(computer), l)
      BY <2>2, <2>5, <2>6, PrefixBegins
    <2>8. l = Heat(computer)
      BY <2>2, <2>7, SeqEqual DEF Begins
    <2> QED
      BY <2>5, <2>8
  <1>3. ASSUME NEW dir \in {"chunks", "manifests"}, IsPrefix(At(owner, <<dir, "/">>), At(o, l))
        PROVE  o = owner /\ IsPrefix(<<dir, "/">>, l)
    <2>1. <<dir, "/">> \in Seq(Parts)
      BY SharedKeys
    <2> QED
      BY <1>1, <1>3, <2>1, RootsApart, Zenon DEF At
  <1>4. ASSUME NEW dir \in Directories, IsPrefix(At(owner, JournalPrefix(dir, computer)), At(o, l))
        PROVE  o = owner /\ IsPrefix(JournalPrefix(dir, computer), l)
    <2>1. JournalPrefix(dir, computer) \in Seq(Parts)
      BY <1>1, TheKeys
    <2> QED
      BY <1>1, <1>4, <2>1, RootsApart, Zenon DEF At
  <1>5. ASSUME NEW p \in generation.prefixes, IsPrefix(p, At(o, l))
        PROVE  /\ o = owner
               /\ \/ \E dir \in {"chunks", "manifests"} : IsPrefix(<<dir, "/">>, l)
                  \/ \E dir \in Directories : IsPrefix(JournalPrefix(dir, computer), l)
    <2>1. PICK k \in {<<"chunks", "/">>, <<"manifests", "/">>}
                     \cup {JournalPrefix(dir, computer) : dir \in Directories} : p = At(owner, k)
      BY <1>5, MintedScope, Zenon
    <2>2. CASE k \in {JournalPrefix(dir, computer) : dir \in Directories}
      BY <1>4, <1>5, <2>1, <2>2
    <2>3. CASE k \in {<<"chunks", "/">>, <<"manifests", "/">>}
      <3>1. PICK dir \in {"chunks", "manifests"} : k = <<dir, "/">>
        BY <2>3
      <3> QED
        BY <1>3, <1>5, <2>1, <3>1, Zenon
    <2> QED
      BY <2>2, <2>3
  <1> QED
    BY <1>2, <1>5, OpensByPrefix, Zenon

(* ... and nothing of another computer or another account.                  *)
LEMMA OpensNoOther ==
    ASSUME NamesAreSegments, Scope, generation.kind = "minted",
           NEW c \in Ids, NEW o \in Owners, NEW key
    PROVE  /\ key \in Credentials!Own(c, o) /\ Credentials!Opens(key) => c = computer /\ o = owner
           /\ key \in Credentials!Shared(o) /\ Credentials!Opens(key) => o = owner
  <1>1. computer \in Ids /\ owner \in Owners
    BY DEF Scope
  <1>2. ASSUME NEW dir \in Directories, Credentials!Opens(At(o, Journal(dir, c)))
        PROVE  c = computer /\ o = owner
    <2>1. Journal(dir, c) \in Seq(Parts) /\ Journal(dir, c)[1] = dir
      BY TheKeys
    <2>2. /\ o = owner
          /\ \/ Journal(dir, c) = Heat(computer)
             \/ \E d \in {"chunks", "manifests"} : IsPrefix(<<d, "/">>, Journal(dir, c))
             \/ \E d \in Directories : IsPrefix(JournalPrefix(d, computer), Journal(dir, c))
      BY <1>2, <2>1, OpenedBy, Zenon
    <2>3. Journal(dir, c) # Heat(computer)
      BY <1>1, <2>1, TheKeys DEF Directories
    <2>4. ASSUME NEW d \in {"chunks", "manifests"}, IsPrefix(<<d, "/">>, Journal(dir, c))
          PROVE  FALSE
      <3>1. <<d, "/">>[1] = Journal(dir, c)[1]
        BY <2>1, <2>4, SharedKeys, FirstAgrees, Zenon
      <3> QED
        BY <2>1, <3>1 DEF Directories
    <2>5. ASSUME NEW d \in Directories, IsPrefix(JournalPrefix(d, computer), Journal(dir, c))
          PROVE  c = computer
      <3>1. /\ c \in Seq(Parts) /\ computer \in Seq(Parts) /\ IsSegment(c) /\ IsSegment(computer)
        BY <1>1, NamesAreParts DEF NamesAreSegments, IsSegment
      <3> DEFINE h == <<d, "/">>
                 k == <<dir, "/">>
                 r == <<"/">>
                 s == <<"/", "x">>
      <3>2. h \in Seq(Parts) /\ k \in Seq(Parts) /\ r \in Seq(Parts) /\ s \in Seq(Parts)
        BY DEF Directories, Parts
      <3>3. Len(h) = Len(k) /\ Len(r) > 0 /\ r[1] = "/" /\ Len(s) > 0 /\ s[1] = "/"
        OBVIOUS
      <3>4. IsPrefix(Key(h, computer, r), Key(k, c, s))
        BY <2>5 DEF Journal, JournalPrefix
      <3> HIDE DEF h, k, r, s
      <3> QED
        BY <3>1, <3>2, <3>3, <3>4, SegmentsAgree
    <2> QED
      BY <2>2, <2>3, <2>4, <2>5
  <1>3. ASSUME Credentials!Opens(At(o, Heat(c)))
        PROVE  c = computer /\ o = owner
    <2>1. Heat(c) \in Seq(Parts) /\ Heat(c)[1] = "heat"
      BY TheKeys
    <2>2. /\ o = owner
          /\ \/ Heat(c) = Heat(computer)
             \/ \E d \in {"chunks", "manifests"} : IsPrefix(<<d, "/">>, Heat(c))
             \/ \E d \in Directories : IsPrefix(JournalPrefix(d, computer), Heat(c))
      BY <1>3, <2>1, OpenedBy, Zenon
    <2>3. ASSUME Heat(c) = Heat(computer)
          PROVE  c = computer
      <3>1. c \in Seq(Parts) /\ computer \in Seq(Parts)
        BY <1>1, NamesAreParts
      <3>2. <<"heat", "/">> \in Seq(Parts) /\ <<".cbor">> \in Seq(Parts)
        BY DEF Parts
      <3> QED
        BY <2>3, <3>1, <3>2, SameEnding, Zenon DEF Heat
    <2>4. ASSUME NEW d \in {"chunks", "manifests"}, IsPrefix(<<d, "/">>, Heat(c))
          PROVE  FALSE
      <3>1. <<d, "/">>[1] = Heat(c)[1]
        BY <2>1, <2>4, SharedKeys, FirstAgrees, Zenon
      <3> QED
        BY <2>1, <3>1
    <2>5. ASSUME NEW d \in Directories, IsPrefix(JournalPrefix(d, computer), Heat(c))
          PROVE  FALSE
      <3>1. /\ JournalPrefix(d, computer) \in Seq(Parts) /\ Len(JournalPrefix(d, computer)) > 0
            /\ JournalPrefix(d, computer)[1] = d
        BY <1>1, TheKeys
      <3>2. JournalPrefix(d, computer)[1] = Heat(c)[1]
        BY <2>1, <2>5, <3>1, FirstAgrees, Zenon
      <3> QED
        BY <2>1, <3>1, <3>2 DEF Directories
    <2> QED
      BY <2>2, <2>3, <2>4, <2>5
  <1>4. ASSUME NEW dir \in {"chunks", "manifests"}, Credentials!Opens(At(o, <<dir, "/", "x">>))
        PROVE  o = owner
    <2>1. <<dir, "/", "x">> \in Seq(Parts)
      BY SharedKeys
    <2> QED
      BY <1>4, <2>1, OpenedBy, Zenon
  <1>5. key \in Credentials!Own(c, o) /\ Credentials!Opens(key) => c = computer /\ o = owner
    BY <1>2, <1>3, OwnKeys, Zenon
  <1>6. key \in Credentials!Shared(o) /\ Credentials!Opens(key) => o = owner
    BY <1>4, OwnKeys, Zenon
  <1> QED
    BY <1>5, <1>6

LEMMA ScopeIsScoped ==
    ASSUME NamesAreSegments, Scope
    PROVE  Credentials!ScopedToComputer
  <1> SUFFICES ASSUME generation.kind = "minted"
               PROVE  /\ \A key \in Credentials!Own(computer, owner) \cup Credentials!Shared(owner) :
                           Credentials!Opens(key)
                      /\ \A c \in Ids, o \in Owners : <<c, o>> # <<computer, owner>> =>
                           \A key \in Credentials!Own(c, o) : ~Credentials!Opens(key)
                      /\ \A o \in Owners \ {owner} :
                           \A key \in Credentials!Shared(o) : ~Credentials!Opens(key)
    BY DEF Credentials!ScopedToComputer
  <1>1. \A key \in Credentials!Own(computer, owner) \cup Credentials!Shared(owner) :
          Credentials!Opens(key)
    BY OpensItsOwn
  <1>2. computer \in Ids
    BY DEF Scope
  <1> QED
    BY <1>1, <1>2, OpensNoOther

LEMMA StepScope ==
    ASSUME Scope, Credentials!Next
    PROVE  Scope'
  <1>1. CASE Credentials!maridEnv
    BY <1>1 DEF Scope, Credentials!maridEnv, Credentials!Error,
       Credentials!composeStoreEnv,
                Credentials!tenantStoreRoot
  <1>2. UNCHANGED <<env, owner, computer, generation>> => Scope'
    BY DEF Scope, Credentials!composeStoreEnv, Credentials!tenantStoreRoot,
           Credentials!storeCredentialPrefixes, Credentials!storeCredentialObjects,
           Credentials!InRoot, Credentials!Error
  <1>3. CASE Credentials!awake \/ Credentials!resume
    BY <1>2, <1>3 DEF Credentials!awake, Credentials!resume
  <1>4. CASE Credentials!onCredentialDeadline
    BY <1>4 DEF Scope, Credentials!onCredentialDeadline
  <1> QED
    BY <1>1, <1>3, <1>4 DEF Credentials!Next

(* A minted credential opens every key its supervisor writes and none of    *)
(* another computer or account, however ids are named, and a generation     *)
(* that was never resumed is rotated while its credential still has the     *)
(* whole cold handshake ahead of it, whatever the TTL, where the lead       *)
(* covers the wake's budget and the handshake (storeCredentialPrefixes and  *)
(* wakeInner's credential deadline).                                        *)
THEOREM CredentialStandsAlways ==
    ASSUME TimesAreNatural, NamesAreSegments
    PROVE  Spec => []CredentialStands
  <1> DEFINE Inv == focus = "credentials" => TimeInv /\ Scope
  <1>1. Init => Inv
    <2>1. Credentials!Init => Scope
      BY DEF Credentials!Init, Scope
    <2> QED
      BY <2>1, InitTimeInv DEF Init
  <1>2. Inv /\ [Next]_vars => Inv'
    <2>1. TimeInv /\ Scope /\ UNCHANGED credentials => TimeInv' /\ Scope'
      <3>1. TimeInv /\ UNCHANGED credentials => TimeInv'
        BY DEF TimeInv, Credentials!RotatedInTime, credentials, Credentials!Never,
           Credentials!lead,
               Credentials!tempCredentialTtlSeconds, Credentials!Clamp
      <3>2. Scope /\ UNCHANGED credentials => Scope'
        BY DEF Scope, credentials, Credentials!composeStoreEnv,
           Credentials!tenantStoreRoot,
               Credentials!storeCredentialPrefixes, Credentials!storeCredentialObjects,
               Credentials!InRoot, Credentials!Error
      <3> QED
        BY <3>1, <3>2
    <2> QED
      BY <2>1, FocusStays, StepTimeInv, StepScope
  <1>3. Inv => CredentialStands
    <2>1. TimeInv => Credentials!RotatedInTime
      BY DEF TimeInv
    <2> QED
      BY <2>1, ScopeIsScoped DEF CredentialStands
  <1> QED
    BY <1>1, <1>2, <1>3, PTL DEF Spec

-----------------------------------------------------------------------------
(* The chunks, and their collection.                                       *)

(* Seconds are natural numbers and trees are cut into chunks.              *)
SecondsAreNatural == /\ Window \in Nat /\ None \notin Nat
                     /\ Contents \subseteq SUBSET Chunks

Snaps == [pc : {"none", "probing", "written"}, began : Nat,
          made : Chunk!SnapshotManifests \cup {None},
          probe : SUBSET Chunks, reused : SUBSET Chunks, missing : SUBSET Chunks,
          loose : SUBSET Chunks]

underway(c) == snap[c].pc # "none"

(* What a snapshot has looked up, and of that what the store lacked then.  *)
looked(c) == snap[c].made.chunks \ snap[c].probe
lacked(c) == looked(c) \ snap[c].reused

(* Every variable keeps its type; a snapshot underway has its manifest.    *)
Typed == /\ mtime \in [Chunks -> Nat \cup {None}]
         /\ heads \in [Makers -> Chunk!SnapshotManifests \cup {None}]
         /\ snap \in [Makers -> Snaps]
         /\ exposed \in [Makers -> SUBSET Chunks]
         /\ secs \in Nat /\ gc.now \in Nat
         /\ gc = [pc |-> gc.pc, now |-> gc.now, live |-> gc.live, dead |-> gc.dead]
         /\ \A c \in Makers : underway(c) => snap[c].made \in Chunk!SnapshotManifests

(* A manifest is written when nothing is left to look up or to upload.     *)
DoneIsDone == \A c \in Makers : snap[c].pc = "written" =>
                snap[c].probe = {} /\ snap[c].missing = {}

(* No time is ahead of the clock.                                          *)
Clocked == /\ \A k \in Chunk!stored : mtime[k] <= secs
           /\ \A c \in Makers : snap[c].began <= secs
           /\ gc.now <= secs

(* What a snapshot has found or uploaded is there, or loose.               *)
HeldOrLoose == \A c \in Makers : underway(c) =>
                 \A k \in looked(c) \ snap[c].missing : k \in Chunk!stored \/ k \in snap[c].loose

(* What the store lacked was not written before the snapshot began.        *)
LackedIsLater == \A c \in Makers : underway(c) =>
                   \A k \in lacked(c) \cap Chunk!stored : snap[c].began <= mtime[k]

(* A candidate of a plan is there until the sweep has come to it.          *)
ListedIsThere == gc.pc \in {"planned", "sweeping"} => gc.dead \subseteq Chunk!stored

(* A snapshot that did not find a candidate there is as old as the window. *)
PlannedIsOld == gc.pc = "planned" =>
                  \A c \in Makers : underway(c) =>
                    \A k \in gc.dead \cap lacked(c) : secs - snap[c].began >= Window

(* What a sweep will take is of no head but exposed, of no snapshot but
   loose.                                                                  *)
TakenIsLoose == gc.pc = "sweeping" =>
                  \A c \in Makers, k \in gc.dead \ gc.live :
                    /\ heads[c] # None /\ k \in heads[c].chunks => k \in exposed[c]
                    /\ underway(c) /\ k \in looked(c) => k \in snap[c].loose

(* HeadsRestore is not inductive: the deletion of a chunk is safe for what
   was decided at the execution, and that for what was seen at the plan.   *)
CInv == /\ Typed /\ DoneIsDone /\ Clocked /\ HeldOrLoose /\ LackedIsLater
        /\ ListedIsThere /\ PlannedIsOld /\ TakenIsLoose /\ Chunk!HeadsRestore

LEMMA InitCInv == ASSUME SecondsAreNatural PROVE Chunk!Init => CInv
  BY SecondsAreNatural
  DEF Chunk!Init, CInv, Typed, Snaps, DoneIsDone, Clocked, HeldOrLoose, LackedIsLater,
      ListedIsThere, PlannedIsOld, TakenIsLoose, Chunk!HeadsRestore, Chunk!noSnap,
      Chunk!noGc, underway,
      Chunk!stored, SecondsAreNatural

(* A snapshot begins with nothing looked up.                               *)
LEMMA BeginCInv ==
    ASSUME SecondsAreNatural, CInv, NEW c \in Makers, NEW content \in Contents,
           NEW parent \in Images \cup {None}, Chunk!Begin(c, content, parent)
    PROVE  CInv'
  <1> DEFINE made == [parent |-> parent, chunks |-> content]
             new == [Chunk!noSnap EXCEPT !.pc = "probing", !.began = secs, !.probe = content,
                                   !.made = made]
  <1>1. made \in Chunk!SnapshotManifests /\ made.chunks = content
    BY SecondsAreNatural DEF Chunk!SnapshotManifests, SecondsAreNatural
  <1>2. /\ snap \in [Makers -> Snaps]
        /\ snap' = [snap EXCEPT ![c] = new]
        /\ UNCHANGED <<mtime, heads, gc, secs, exposed>>
    BY DEF Chunk!Begin, CInv, Typed
  <1>3. /\ new \in Snaps /\ new.pc = "probing" /\ new.made = made
        /\ new.probe = content /\ new.began = secs /\ new.missing = {} /\ new.loose = {}
    BY <1>1, SecondsAreNatural DEF Chunk!noSnap, Snaps, CInv, Typed, SecondsAreNatural
  <1> HIDE DEF new, made
  <1>4. /\ snap'[c] = new /\ looked(c)' = {} /\ lacked(c)' = {}
        /\ \A d \in Makers \ {c} : snap'[d] = snap[d]
    BY <1>1, <1>2, <1>3 DEF looked, lacked
  <1>5. Chunk!stored' = Chunk!stored
    BY <1>2 DEF Chunk!stored
  <1> QED
    BY <1>1, <1>2, <1>3, <1>4, <1>5
    DEF CInv, Typed, DoneIsDone, Clocked, HeldOrLoose, LackedIsLater, ListedIsThere,
        PlannedIsOld, TakenIsLoose, Chunk!HeadsRestore, underway, looked, lacked

(* A chunk that is looked up joins what was found, or what is missing: what
   is missing then is no candidate, and what is found in a sweep is loose.  *)
LEMMA ProbeCInv ==
    ASSUME SecondsAreNatural, CInv, NEW c \in Makers, NEW k \in Chunks, Chunk!Probe(c, k)
    PROVE  CInv'
  <1> DEFINE old == snap[c]
             new == [old EXCEPT
               !.probe = @ \ {k},
               !.reused = IF k \in Chunk!stored THEN @ \cup {k} ELSE @,
               !.missing = IF k \in Chunk!stored THEN @ ELSE @ \cup {k},
               !.loose = IF k \in Chunk!stored /\ gc.pc = "sweeping" THEN @ \cup {k} ELSE @]
  <1>1. /\ snap \in [Makers -> Snaps]
        /\ old.pc = "probing"
        /\ snap' = [snap EXCEPT ![c] = new]
        /\ UNCHANGED <<mtime, heads, gc, secs, exposed>>
    BY DEF Chunk!Probe, CInv, Typed
  <1>2. /\ new \in Snaps
        /\ new.pc = "probing" /\ new.made = old.made /\ new.began = old.began
        /\ new.probe = old.probe \ {k}
        /\ old.reused \subseteq new.reused /\ old.loose \subseteq new.loose
        /\ old.missing \subseteq new.missing
        /\ k \in Chunk!stored => /\ k \in new.reused /\ new.missing = old.missing
                                 /\ gc.pc = "sweeping" => k \in new.loose
        /\ k \notin Chunk!stored => k \in new.missing
    BY <1>1 DEF Snaps
  <1> HIDE DEF new
  <1>3. /\ snap'[c] = new
        /\ looked(c)' \subseteq looked(c) \cup {k}
        /\ lacked(c)' \subseteq lacked(c) \cup {k}
        /\ k \in Chunk!stored => k \notin lacked(c)'
        /\ \A d \in Makers \ {c} : snap'[d] = snap[d]
    <2>1. snap'[c] = new /\ \A d \in Makers \ {c} : snap'[d] = snap[d]
      BY <1>1
    <2>2. looked(c)' = old.made.chunks \ (old.probe \ {k})
      BY <1>2, <2>1 DEF looked
    <2>3. lacked(c)' = looked(c)' \ new.reused
      BY <2>1 DEF lacked, looked
    <2>4. looked(c)' \subseteq looked(c) \cup {k}
      BY <2>2 DEF looked
    <2>5. k \in Chunk!stored => k \notin lacked(c)'
      BY <1>2, <2>3
    <2>6. lacked(c)' \subseteq lacked(c) \cup {k}
      <3>1. old.reused \subseteq new.reused
        BY <1>2
      <3> QED
        BY <2>3, <2>4, <3>1 DEF lacked
    <2> QED
      BY <2>1, <2>4, <2>5, <2>6
  <1>4. Chunk!stored' = Chunk!stored
    BY <1>1 DEF Chunk!stored
  <1>5. /\ \A d \in Makers \ {c} : /\ looked(d)' = looked(d)
                                   /\ lacked(d)' = lacked(d)
                                   /\ underway(d)' = underway(d)
        /\ underway(c) /\ underway(c)'
    BY <1>1, <1>2, <1>3 DEF looked, lacked, underway
  <1>6. Typed' /\ DoneIsDone' /\ Clocked'
    BY <1>1, <1>2, <1>3, <1>4 DEF CInv, Typed, DoneIsDone, Clocked, underway
  <1>7. HeldOrLoose'
    BY <1>1, <1>2, <1>3, <1>4, <1>5 DEF CInv, HeldOrLoose
  <1>8. LackedIsLater'
    BY <1>1, <1>2, <1>3, <1>4, <1>5 DEF CInv, LackedIsLater
  <1>9. ListedIsThere' /\ Chunk!HeadsRestore'
    BY <1>1, <1>4 DEF CInv, ListedIsThere, Chunk!HeadsRestore
  <1>10. PlannedIsOld'
    BY <1>1, <1>2, <1>3, <1>5 DEF CInv, PlannedIsOld, ListedIsThere
  <1>11. TakenIsLoose'
    <2> SUFFICES ASSUME gc.pc = "sweeping", NEW d \in Makers, NEW j \in gc.dead \ gc.live
                 PROVE  /\ heads[d] # None /\ j \in heads[d].chunks => j \in exposed[d]
                        /\ underway(d)' /\ j \in looked(d)' => j \in snap'[d].loose
      BY <1>1 DEF TakenIsLoose
    <2>1. /\ heads[d] # None /\ j \in heads[d].chunks => j \in exposed[d]
          /\ underway(d) /\ j \in looked(d) => j \in snap[d].loose
      BY DEF CInv, TakenIsLoose
    <2>2. j \in Chunk!stored
      BY DEF CInv, ListedIsThere
    <2>3. CASE d # c
      BY <1>3, <1>5, <2>1, <2>3
    <2>4. CASE d = c
      <3>1. j \in looked(c)' => j \in looked(c) \/ j = k
        BY <1>3
      <3>2. snap[c].loose \subseteq new.loose /\ (k \in Chunk!stored => k \in new.loose)
        BY <1>2
      <3> QED
        BY <1>3, <1>5, <2>1, <2>2, <2>4, <3>1, <3>2
    <2> QED
      BY <2>3, <2>4
  <1> QED
    BY <1>6, <1>7, <1>8, <1>9, <1>10, <1>11 DEF CInv

(* What is uploaded is there, and as new as the clock.                     *)
LEMMA UploadCInv ==
    ASSUME SecondsAreNatural, CInv, NEW c \in Makers, NEW k \in Chunks, Chunk!Upload(c, k)
    PROVE  CInv'
  <1> DEFINE old == snap[c]
             new == [old EXCEPT !.missing = @ \ {k}]
  <1>1. /\ snap \in [Makers -> Snaps] /\ mtime \in [Chunks -> Nat \cup {None}]
        /\ old.pc = "probing" /\ secs \in Nat /\ secs # None
        /\ mtime' = [mtime EXCEPT ![k] = secs]
        /\ snap' = [snap EXCEPT ![c] = new]
        /\ UNCHANGED <<heads, gc, secs, exposed>>
    BY SecondsAreNatural DEF Chunk!Upload, CInv, Typed, SecondsAreNatural
  <1>2. /\ new \in Snaps
        /\ new.pc = old.pc /\ new.made = old.made /\ new.began = old.began
        /\ new.probe = old.probe /\ new.reused = old.reused /\ new.loose = old.loose
        /\ new.missing = old.missing \ {k}
    BY <1>1 DEF Snaps
  <1> HIDE DEF new
  <1>3. /\ snap'[c] = new
        /\ \A d \in Makers \ {c} : snap'[d] = snap[d]
        /\ mtime'[k] = secs
        /\ \A j \in Chunks \ {k} : mtime'[j] = mtime[j]
        /\ Chunk!stored' = Chunk!stored \cup {k}
    BY <1>1 DEF Chunk!stored
  <1>4. \A d \in Makers : /\ looked(d)' = looked(d)
                          /\ lacked(d)' = lacked(d)
                          /\ underway(d)' = underway(d)
                          /\ snap'[d].loose = snap[d].loose
                          /\ snap'[d].began = snap[d].began
    BY <1>2, <1>3 DEF looked, lacked, underway
  <1>5. Typed' /\ DoneIsDone'
    BY <1>1, <1>2, <1>3 DEF CInv, Typed, DoneIsDone, underway
  <1>6. Clocked'
    BY <1>1, <1>3, <1>4 DEF CInv, Clocked, Chunk!stored
  <1>7. HeldOrLoose'
    BY <1>2, <1>3, <1>4 DEF CInv, HeldOrLoose
  <1>8. LackedIsLater'
    BY <1>1, <1>3, <1>4 DEF CInv, LackedIsLater, Clocked, Chunk!stored
  <1>9. ListedIsThere' /\ PlannedIsOld' /\ TakenIsLoose' /\ Chunk!HeadsRestore'
    BY <1>1, <1>3, <1>4 DEF CInv, ListedIsThere, PlannedIsOld, TakenIsLoose,
       Chunk!HeadsRestore
  <1> QED
    BY <1>5, <1>6, <1>7, <1>8, <1>9 DEF CInv

(* The snapshot steps that write no chunk and look none up.                *)
LEMMA ManifestCInv ==
    ASSUME SecondsAreNatural, CInv, NEW c \in Makers,
           Chunk!PutManifest(c) \/ Chunk!AdvanceHead(c) \/ Chunk!GiveUp(c)
    PROVE  CInv'
  <1>1. /\ snap \in [Makers -> Snaps] /\ Chunk!noSnap \in Snaps /\ Chunk!noSnap.pc = "none"
        /\ Chunk!noSnap.began = 0
    BY DEF CInv, Typed, Snaps, Chunk!noSnap
  <1>2. Chunk!stored' = Chunk!stored
    BY DEF Chunk!PutManifest, Chunk!AdvanceHead, Chunk!GiveUp, Chunk!stored
  <1>3. CASE Chunk!PutManifest(c)
    <2> DEFINE new == [snap[c] EXCEPT !.pc = "written"]
    <2>1. /\ new \in Snaps /\ new.pc = "written"
          /\ new.made = snap[c].made /\ new.began = snap[c].began
          /\ new.probe = snap[c].probe /\ new.reused = snap[c].reused
          /\ new.missing = snap[c].missing /\ new.loose = snap[c].loose
      BY <1>1 DEF Snaps
    <2>2. /\ snap' = [snap EXCEPT ![c] = new] /\ snap[c].pc = "probing"
          /\ snap[c].probe = {} /\ snap[c].missing = {}
          /\ UNCHANGED <<mtime, heads, gc, secs, exposed>>
      BY <1>3 DEF Chunk!PutManifest
    <2> HIDE DEF new
    <2>3. /\ snap'[c] = new
          /\ \A d \in Makers \ {c} : snap'[d] = snap[d]
      BY <1>1, <2>2
    <2> QED
      BY <1>1, <1>2, <2>1, <2>2, <2>3
      DEF CInv, Typed, DoneIsDone, Clocked, HeldOrLoose, LackedIsLater, ListedIsThere,
          PlannedIsOld, TakenIsLoose, Chunk!HeadsRestore, underway, looked, lacked
  <1>4. CASE Chunk!AdvanceHead(c)
    <2>1. /\ snap' = [snap EXCEPT ![c] = Chunk!noSnap] /\ snap[c].pc = "written"
          /\ heads' = [heads EXCEPT ![c] = snap[c].made]
          /\ exposed' = [exposed EXCEPT ![c] = snap[c].loose]
          /\ UNCHANGED <<mtime, gc, secs>>
      BY <1>4 DEF Chunk!AdvanceHead
    <2>2. /\ snap'[c] = Chunk!noSnap
          /\ heads'[c] = snap[c].made /\ exposed'[c] = snap[c].loose
          /\ \A d \in Makers \ {c} : /\ snap'[d] = snap[d] /\ heads'[d] = heads[d]
                                     /\ exposed'[d] = exposed[d]
      BY <1>1, <2>1 DEF CInv, Typed
    <2>3. looked(c) = snap[c].made.chunks /\ snap[c].missing = {} /\ underway(c)
      BY <2>1 DEF CInv, DoneIsDone, looked, underway
    <2>4. Typed'
      BY <1>1, <2>1, <2>2, <2>3 DEF CInv, Typed, Snaps, underway
    <2>5. Chunk!HeadsRestore'
      BY <1>2, <2>1, <2>2, <2>3 DEF CInv, Chunk!HeadsRestore, HeldOrLoose
    <2>6. TakenIsLoose'
      BY <1>1, <2>1, <2>2, <2>3 DEF CInv, TakenIsLoose, underway, looked
    <2> QED
      BY <1>1, <1>2, <2>1, <2>2, <2>4, <2>5, <2>6
      DEF CInv, Typed, DoneIsDone, Clocked, HeldOrLoose, LackedIsLater, ListedIsThere,
          PlannedIsOld, underway, looked, lacked
  <1>5. CASE Chunk!GiveUp(c)
    <2>1. /\ snap' = [snap EXCEPT ![c] = Chunk!noSnap]
          /\ UNCHANGED <<mtime, heads, gc, secs, exposed>>
      BY <1>5 DEF Chunk!GiveUp
    <2>2. snap'[c] = Chunk!noSnap /\ \A d \in Makers \ {c} : snap'[d] = snap[d]
      BY <1>1, <2>1
    <2> QED
      BY <1>1, <1>2, <2>1, <2>2
      DEF CInv, Typed, DoneIsDone, Clocked, HeldOrLoose, LackedIsLater, ListedIsThere,
          PlannedIsOld, TakenIsLoose, Chunk!HeadsRestore, underway, looked, lacked
  <1> QED
    BY <1>3, <1>4, <1>5

(* The plan: a candidate was last written before the window, so a snapshot
   that had not found it there before it was written began before that.    *)
LEMMA PlanCInv ==
    ASSUME SecondsAreNatural, CInv, Chunk!Mark \/ Chunk!List
    PROVE  CInv'
  <1>1. UNCHANGED <<mtime, heads, snap, secs, exposed>>
    BY DEF Chunk!Mark, Chunk!List
  <1>2. /\ Chunk!stored' = Chunk!stored
        /\ \A c \in Makers : /\ looked(c)' = looked(c) /\ lacked(c)' = lacked(c)
                             /\ underway(c)' = underway(c)
    BY <1>1 DEF Chunk!stored, looked, lacked, underway
  <1>3. gc'.pc \in {"marked", "planned"} /\ Typed' /\ Clocked'
    <2>1. /\ gc'.pc \in {"marked", "planned"} /\ gc'.now \in {0, secs}
          /\ gc' = [pc |-> gc'.pc, now |-> gc'.now, live |-> gc'.live, dead |-> gc'.dead]
      <3>1. CASE Chunk!Mark
        <4>1. gc' = [pc |-> "marked", now |-> secs, live |-> Chunk!liveSet, dead |-> gc.dead]
          BY <3>1 DEF Chunk!Mark, CInv, Typed
        <4> QED
          BY <4>1
      <3>2. CASE Chunk!List
        BY <3>2 DEF Chunk!List, Chunk!noGc
      <3> QED
        BY <3>1, <3>2
    <2> QED
      BY <1>1, <1>2, <2>1 DEF CInv, Typed, Clocked, underway
  <1>4. gc'.pc = "planned" => Chunk!List
    BY DEF Chunk!Mark, CInv, Typed
  <1>5. ListedIsThere'
    BY <1>2, <1>3, <1>4 DEF Chunk!List, ListedIsThere, Chunk!noGc
  <1>6. PlannedIsOld'
    <2> SUFFICES ASSUME Chunk!List, NEW c \in Makers, underway(c),
                        NEW k \in gc'.dead \cap lacked(c)
                 PROVE  secs - snap[c].began >= Window
      BY <1>1, <1>2, <1>4 DEF PlannedIsOld
    <2>1. k \in Chunk!stored /\ Chunk!age(k) >= Window
      BY DEF Chunk!List, Chunk!noGc, Chunk!deletable
    <2>2. snap[c].began <= mtime[k] /\ mtime[k] <= secs /\ gc.now <= secs
          /\ snap[c].began <= secs
      BY <2>1 DEF CInv, LackedIsLater, Clocked
    <2>3. /\ mtime[k] \in Nat /\ gc.now \in Nat /\ secs \in Nat /\ snap[c].began \in Nat
          /\ Window \in Nat
      BY <2>1, SecondsAreNatural DEF CInv, Typed, Snaps, Chunk!stored, SecondsAreNatural
    <2> QED
      BY <2>1, <2>2, <2>3 DEF Chunk!age
  <1> QED
    BY <1>1, <1>2, <1>3, <1>5, <1>6
    DEF CInv, DoneIsDone, HeldOrLoose, LackedIsLater, TakenIsLoose, Chunk!HeadsRestore

(* The execution: what it does not spare is of no head, and what a snapshot
   has of it is loose, found before or lacked for as long as the window.   *)
LEMMA ExecuteCInv ==
    ASSUME SecondsAreNatural, CInv, Chunk!Execute
    PROVE  CInv'
  <1> DEFINE took(c) == IF secs - snap[c].began >= Window THEN snap[c].made.chunks
                        ELSE snap[c].reused
             new(c) == [snap[c] EXCEPT !.loose = @ \cup took(c)]
  <1>1. /\ snap \in [Makers -> Snaps]
        /\ gc.pc = "planned" /\ gc'.pc = "sweeping" /\ gc'.live = Chunk!liveSet
        /\ gc'.dead = gc.dead /\ gc'.now = gc.now
        /\ gc' = [pc |-> gc'.pc, now |-> gc'.now, live |-> gc'.live, dead |-> gc'.dead]
        /\ UNCHANGED <<mtime, heads, secs, exposed>>
    BY DEF Chunk!Execute, CInv, Typed, Chunk!spared
  <1>2. \A c \in Makers : underway(c) => took(c) \subseteq Chunks
    BY <1>1 DEF CInv, Typed, Snaps, Chunk!SnapshotManifests, underway
  <1>3. snap' = [c \in Makers |-> IF snap[c].pc = "none" THEN snap[c] ELSE new(c)]
    BY DEF Chunk!Execute
  <1>4. \A c \in Makers : underway(c) =>
          /\ new(c) \in Snaps /\ new(c).loose = snap[c].loose \cup took(c)
          /\ new(c).pc = snap[c].pc /\ new(c).made = snap[c].made
          /\ new(c).began = snap[c].began /\ new(c).probe = snap[c].probe
          /\ new(c).reused = snap[c].reused /\ new(c).missing = snap[c].missing
    BY <1>1, <1>2 DEF Snaps, underway
  <1>5. \A c \in Makers :
          /\ snap'[c] \in Snaps
          /\ snap'[c].pc = snap[c].pc /\ snap'[c].made = snap[c].made
          /\ snap'[c].began = snap[c].began /\ snap'[c].probe = snap[c].probe
          /\ snap'[c].reused = snap[c].reused /\ snap'[c].missing = snap[c].missing
          /\ snap[c].loose \subseteq snap'[c].loose
          /\ underway(c) => took(c) \subseteq snap'[c].loose
    BY <1>1, <1>3, <1>4 DEF underway
  <1>6. snap' \in [Makers -> Snaps]
    BY <1>3, <1>5
  <1> HIDE DEF new
  <1>7. /\ Chunk!stored' = Chunk!stored
        /\ \A c \in Makers : /\ looked(c)' = looked(c) /\ lacked(c)' = lacked(c)
                             /\ underway(c)' = underway(c)
    BY <1>1, <1>5 DEF Chunk!stored, looked, lacked, underway
  <1>8. TakenIsLoose'
    <2> SUFFICES ASSUME NEW c \in Makers, NEW k \in gc.dead \ Chunk!liveSet
                 PROVE  /\ ~(heads[c] # None /\ k \in heads[c].chunks)
                        /\ underway(c) /\ k \in looked(c) => k \in snap'[c].loose
      BY <1>1, <1>7 DEF TakenIsLoose
    <2>1. heads[c] # None => heads[c].chunks \subseteq Chunk!liveSet
      BY DEF Chunk!liveSet, Chunk!reached, Chunk!retained
    <2>2. underway(c) /\ k \in looked(c) => k \in took(c)
      <3>1. underway(c) /\ k \in looked(c) /\ k \notin snap[c].reused =>
              secs - snap[c].began >= Window
        BY <1>1 DEF CInv, PlannedIsOld, lacked
      <3> QED
        BY <3>1 DEF looked
    <2> QED
      BY <1>5, <2>1, <2>2
  <1>9. Typed' /\ ListedIsThere' /\ HeldOrLoose'
    BY <1>1, <1>5, <1>6, <1>7 DEF CInv, Typed, ListedIsThere, HeldOrLoose, underway
  <1> QED
    BY <1>1, <1>5, <1>7, <1>8, <1>9
    DEF CInv, DoneIsDone, Clocked, LackedIsLater, PlannedIsOld, Chunk!HeadsRestore

(* A chunk that is taken was loose for all that need it.                   *)
LEMMA SweepCInv ==
    ASSUME SecondsAreNatural, CInv, NEW k \in Chunks, Chunk!Sweep(k)
    PROVE  CInv'
  <1>1. /\ mtime \in [Chunks -> Nat \cup {None}] /\ gc.pc = "sweeping" /\ gc'.pc = gc.pc
        /\ gc'.live = gc.live /\ gc'.dead = gc.dead \ {k} /\ gc'.now = gc.now
        /\ gc' = [pc |-> gc'.pc, now |-> gc'.now, live |-> gc'.live, dead |-> gc'.dead]
        /\ k \in gc.dead
        /\ UNCHANGED <<heads, snap, secs, exposed>>
    BY DEF Chunk!Sweep, CInv, Typed
  <1>2. \A c \in Makers : /\ looked(c)' = looked(c) /\ lacked(c)' = lacked(c)
                          /\ underway(c)' = underway(c)
    BY <1>1 DEF looked, lacked, underway
  <1>3. CASE k \in gc.live
    <2>1. mtime' = mtime /\ Chunk!stored' = Chunk!stored
      BY <1>3 DEF Chunk!Sweep, Chunk!stored
    <2> QED
      BY <1>1, <1>2, <2>1
      DEF CInv, Typed, DoneIsDone, Clocked, HeldOrLoose, LackedIsLater, ListedIsThere,
          PlannedIsOld, TakenIsLoose, Chunk!HeadsRestore, underway
  <1>4. CASE k \notin gc.live
    <2>1. mtime' = [mtime EXCEPT ![k] = None]
      BY <1>4 DEF Chunk!Sweep
    <2>2. Chunk!stored' = Chunk!stored \ {k} /\ mtime' \in [Chunks -> Nat \cup {None}]
          /\ \A j \in Chunk!stored' : mtime'[j] = mtime[j]
      BY <1>1, <2>1 DEF Chunk!stored
    <2> QED
      BY <1>1, <1>2, <1>4, <2>2
      DEF CInv, Typed, DoneIsDone, Clocked, HeldOrLoose, LackedIsLater, ListedIsThere,
          PlannedIsOld, TakenIsLoose, Chunk!HeadsRestore, underway
  <1> QED
    BY <1>3, <1>4

(* Neither the end of a sweep nor a second takes anything.                 *)
LEMMA EndOrTickCInv ==
    ASSUME SecondsAreNatural, CInv, Chunk!EndSweep \/ Chunk!Tick
    PROVE  CInv'
  <1>1. /\ UNCHANGED <<mtime, heads, snap, exposed>> /\ Chunk!stored' = Chunk!stored
        /\ \A c \in Makers : /\ looked(c)' = looked(c) /\ lacked(c)' = lacked(c)
                             /\ underway(c)' = underway(c)
    BY DEF Chunk!EndSweep, Chunk!Tick, Chunk!stored, looked, lacked, underway
  <1>2. CASE Chunk!EndSweep
    BY <1>1, <1>2
    DEF Chunk!EndSweep, Chunk!noGc, CInv, Typed, DoneIsDone, Clocked, HeldOrLoose,
        LackedIsLater,
        ListedIsThere, PlannedIsOld, TakenIsLoose, Chunk!HeadsRestore, underway
  <1>3. CASE Chunk!Tick
    <2>1. secs' = secs + 1 /\ gc' = gc
      BY <1>3 DEF Chunk!Tick
    <2>2. Typed' /\ Clocked'
      BY <1>1, <2>1, SecondsAreNatural
      DEF CInv, Typed, Clocked, Snaps, Chunk!stored, underway, SecondsAreNatural
    <2>3. PlannedIsOld'
      BY <1>1, <2>1, SecondsAreNatural
      DEF CInv, Typed, Snaps, PlannedIsOld, SecondsAreNatural
    <2> QED
      BY <1>1, <2>1, <2>2, <2>3
      DEF CInv, DoneIsDone, HeldOrLoose, LackedIsLater, ListedIsThere, TakenIsLoose,
          Chunk!HeadsRestore
  <1> QED
    BY <1>2, <1>3

LEMMA StepCInv ==
    ASSUME SecondsAreNatural, CInv, Chunk!Next
    PROVE  CInv'
  BY BeginCInv, ProbeCInv, UploadCInv, ManifestCInv, PlanCInv, ExecuteCInv, SweepCInv,
     EndOrTickCInv DEF Chunk!Next

(* Every head can be restored: a sweep takes a chunk of one only if it was
   executed while the snapshot was underway, and of a chunk the snapshot
   found missing only if it was underway for the window (gc.rs, execute;
   snapshot.rs, the existence checks).                                     *)
THEOREM HeadsRestoreAlways ==
    ASSUME SecondsAreNatural
    PROVE  Spec => []HeadsRestore
  <1> DEFINE Inv == focus = "chunks" => CInv
  <1>1. Init => Inv
    BY InitCInv DEF Init
  <1>2. Inv /\ [Next]_vars => Inv'
    <2>1. CInv /\ UNCHANGED collection => CInv'
      BY DEF collection, CInv, Typed, DoneIsDone, Clocked, HeldOrLoose, LackedIsLater,
             ListedIsThere, PlannedIsOld, TakenIsLoose, Chunk!HeadsRestore, underway,
             looked, lacked, Chunk!stored
    <2> QED
      BY <2>1, FocusStays, StepCInv
  <1>3. Inv => HeadsRestore
    BY DEF CInv, HeadsRestore
  <1> QED
    BY <1>1, <1>2, <1>3, PTL DEF Spec

-----------------------------------------------------------------------------
(* The tree of a computer that is snapshot and reverted.                   *)

Writing == {"live", "reading", "saved"}
Passing == {"dirs", "files", "links", "modes"}
Ended == {"reverted", "partial", "failed"}
Made == [kind : Tree!Kinds, body : Bodies \cup {Tree!NewDirMode}]
Held == Made \cup {None}

(* Every variable keeps its type.                                          *)
TreeTyped == /\ tree \in [Paths -> Held] /\ manifest \in [Paths -> Held]
             /\ todo \subseteq Paths /\ phase \in Writing \cup {"pruning"} \cup Passing \cup Ended
             /\ IsFiniteSet(barred.closed) /\ walkErrors \in Nat

(* A name stands in a directory: on the disk while processes write, in the
   manifest always, whatever changed under the walk.                       *)
Stands(t) == \A p \in Tree!present(t) : Tree!inDirectory(t, p)
Standing == (phase \in Writing => Stands(tree)) /\ Stands(manifest)

(* What a pass has still to visit is of the manifest, and of its kind.     *)
Visits == /\ phase = "reading" => todo \subseteq Tree!entries("file")
          /\ phase = "dirs" => todo \subseteq Tree!entries("dir")
          /\ phase = "files" => todo \subseteq Tree!entries("file")
          /\ phase = "links" => todo \subseteq Tree!entries("symlink")
          /\ phase = "modes" => todo \subseteq Tree!entries("dir")

(* What an exclude matches is not in the manifest, and left as it was.     *)
Untouched == /\ \A p \in Globbed : manifest[p] = None
             /\ phase \in Writing => before = Tree!NoTree
             /\ phase \notin Writing => \A p \in Globbed : tree[p] = before[p]

(* A name the prune is past, and the manifest does not hold, is clear: gone,
   or it stands for something that remains.                                *)
Clear(p) == tree[p] = None \/ Tree!remains(p)
Cleared == phase \notin Writing /\ walkErrors = 0 =>
             \A p \in Paths : manifest[p] = None /\ (phase = "pruning" => p \notin todo)
                                => Clear(p)

(* An entry whose pass is past is as the manifest has it.                  *)
Restored == /\ phase = "files" => \A p \in Tree!entries("file") \ todo : tree[p] = manifest[p]
            /\ phase \in {"links", "modes", "reverted"} =>
                 \A p \in Tree!entries("file") : tree[p] = manifest[p]
            /\ phase = "links" =>
                 \A p \in Tree!entries("symlink") \ todo : tree[p] = manifest[p]
            /\ phase \in {"modes", "reverted"} =>
                 \A p \in Tree!entries("symlink") : tree[p] = manifest[p]
            /\ phase = "modes" => \A p \in Tree!entries("dir") \ todo : tree[p] = manifest[p]
            /\ phase = "reverted" => \A p \in Tree!entries("dir") : tree[p] = manifest[p]
            /\ phase = "reverted" => walkErrors = 0

RInv == TreeTyped /\ Standing /\ Visits /\ Untouched /\ Cleared /\ Restored

(* A name that is there has one of the kinds.                              *)
LEMMA KindsOfNodes ==
    ASSUME Tree!StartsAreTrees, NEW t \in [Paths -> Held], NEW p \in Paths
    PROVE  /\ t[p] = None <=> Tree!kindOf(t, p) = None
           /\ t[p] # None => Tree!kindOf(t, p) \in Tree!Kinds /\ t[p] \in Made
           /\ \A k \in Tree!Kinds : Tree!isA(t, p, k) <=> t[p] # None /\ t[p].kind = k
  BY DEF Tree!StartsAreTrees, Held, Made, Tree!kindOf, Tree!isA

(* Names above: a directory is above what it holds, and above all that its
   names are above of.                                                     *)
LEMMA AboveIsAbove ==
    ASSUME Tree!NamesAreATree, NEW p \in Paths
    PROVE  /\ p \in Tree!below(p)
           /\ \A q \in Tree!children(p) : /\ q \in Paths /\ q # p /\ q \in Tree!below(p)
                                          /\ Tree!below(q) \subseteq Tree!below(p)
                                          /\ Tree!upFrom[p] \subseteq Tree!upFrom[q]
  BY DEF Tree!NamesAreATree, Tree!below, Tree!children, Tree!Root

LEMMA InitRInv ==
    ASSUME Tree!NamesAreATree, Tree!StartsAreTrees, Tree!Init
    PROVE  RInv
  <1>1. /\ tree \in [Paths -> Held] /\ Stands(tree)
        /\ manifest = [p \in Paths |-> None] /\ phase = "live" /\ todo = {}
        /\ before = Tree!NoTree /\ walkErrors = 0
    BY DEF Tree!Init, Tree!StartsAreTrees, Held, Made, Tree!Nodes, Stands, Tree!NoTree
  <1>2. barred.closed = {} \/ \E p \in Paths : barred.closed = {p}
    BY DEF Tree!Init
  <1>3. IsFiniteSet(barred.closed)
    BY <1>2, FS_EmptySet, FS_Singleton
  <1>4. Globbed \subseteq Paths
    BY DEF Tree!NamesAreATree
  <1> QED
    BY <1>1, <1>3, <1>4 DEF RInv, TreeTyped, Standing, Stands, Visits, Untouched, Cleared,
       Restored,
       Writing, Passing, Held, Tree!present

(* A process makes, replaces or removes a node where one may stand.        *)
LEMMA EditRInv ==
    ASSUME Tree!NamesAreATree, Tree!StartsAreTrees, RInv,
           NEW p \in Paths, NEW node \in Tree!Nodes \cup {None}, Tree!Edit(p, node)
    PROVE  RInv'
  <1>1. /\ phase \in Writing /\ tree' = [tree EXCEPT ![p] = node]
        /\ UNCHANGED <<manifest, phase, todo, barred, walkErrors, before>>
        /\ Tree!inDirectory(tree, p)
        /\ \/ ~Tree!isA(tree, p, "dir") \/ Tree!children(p) \cap Tree!present(tree) = {}
           \/ node \in {n \in Tree!Nodes : n.kind = "dir"}
    BY DEF Tree!Edit, Writing
  <1>2. tree \in [Paths -> Held] /\ tree' \in [Paths -> Held]
    BY <1>1 DEF RInv, TreeTyped, Held, Made, Tree!Nodes
  <1>3. Stands(tree')
    <2> SUFFICES ASSUME NEW q \in Tree!present(tree') PROVE Tree!inDirectory(tree', q)
      BY DEF Stands
    <2>1. q \in Paths /\ tree'[q] # None
      BY DEF Tree!present
    <2>2. Tree!inDirectory(tree, q)
      <3>1. CASE q = p
        BY <1>1, <3>1
      <3>2. CASE q # p
        BY <1>1, <1>2, <2>1, <3>2 DEF RInv, Standing, Stands, Tree!present
      <3> QED
        BY <3>1, <3>2
    <2>3. CASE ParentOf[q] # p
      BY <1>1, <1>2, <2>2, <2>3 DEF Tree!inDirectory, Tree!isA, Tree!kindOf
    <2>4. CASE ParentOf[q] = p
      <3>1. q # p /\ q \in Tree!children(p)
        BY <2>1, <2>4 DEF Tree!NamesAreATree, Tree!children, Tree!Root
      <3>2. q \in Tree!present(tree) /\ Tree!isA(tree, p, "dir")
        BY <1>1, <1>2, <2>1, <2>2, <2>4, <3>1
        DEF Tree!present, Tree!inDirectory, Tree!NamesAreATree, Tree!Root
      <3>3. node \in {n \in Tree!Nodes : n.kind = "dir"}
        BY <1>1, <3>1, <3>2
      <3>4. Tree!isA(tree', p, "dir")
        BY <1>1, <1>2, <3>3 DEF Tree!isA, Tree!kindOf, Tree!StartsAreTrees, Tree!Nodes
      <3> QED
        BY <2>4, <3>4 DEF Tree!inDirectory
    <2> QED
      BY <2>3, <2>4
  <1> QED
    BY <1>1, <1>2, <1>3 DEF RInv, TreeTyped, Standing, Visits, Untouched, Cleared,
       Restored,
       Writing, Passing, Tree!entries

(* The walk hands out a name with the directories above it.                *)
LEMMA WalkRInv ==
    ASSUME Tree!NamesAreATree, Tree!StartsAreTrees, RInv, Tree!Walk
    PROVE  RInv'
  <1>1. /\ phase = "live" /\ phase' = "reading"
        /\ manifest' = [p \in Paths |-> IF p \in Tree!walked(tree) THEN tree[p] ELSE None]
        /\ todo' = {p \in Tree!walked(tree) : tree[p].kind = "file"}
        /\ UNCHANGED <<tree, barred, walkErrors, before>>
    BY DEF Tree!Walk
  <1>2. tree \in [Paths -> Held] /\ manifest' \in [Paths -> Held] /\ Stands(tree)
    BY <1>1 DEF RInv, TreeTyped, Standing, Held, Writing
  <1>3. Tree!walked(tree) \subseteq Paths /\ todo' \subseteq Paths
    BY <1>1 DEF Tree!walked, Tree!present
  <1>4. todo' \subseteq Tree!entries("file")'
    <2> SUFFICES ASSUME NEW p \in todo' PROVE p \in Tree!entries("file")'
      OBVIOUS
    <2>1. p \in Paths /\ manifest'[p] = tree[p] /\ tree[p].kind = "file" /\ tree[p] # None
      BY <1>1, <1>3 DEF Tree!walked, Tree!present
    <2> QED
      BY <2>1 DEF Tree!entries, Tree!isA, Tree!kindOf
  <1>5. Stands(manifest')
    <2> SUFFICES ASSUME NEW p \in Tree!present(manifest') PROVE Tree!inDirectory(manifest', p)
      BY DEF Stands
    <2>1. p \in Paths /\ p \in Tree!walked(tree) /\ p \in Tree!present(tree)
      BY <1>1 DEF Tree!present, Tree!walked
    <2>2. CASE ParentOf[p] = Tree!Root
      BY <2>2 DEF Tree!inDirectory
    <2>3. CASE ParentOf[p] # Tree!Root
      <3>1. ParentOf[p] \in Paths /\ Tree!isA(tree, ParentOf[p], "dir")
        BY <1>2, <2>1, <2>3 DEF Stands, Tree!inDirectory
      <3>2. p \in Tree!children(ParentOf[p])
        BY <2>1 DEF Tree!children
      <3>3. ParentOf[p] \in Tree!present(tree)
        BY <1>2, <3>1, KindsOfNodes DEF Tree!Kinds, Tree!present
      <3>4. Tree!upFrom[ParentOf[p]] \subseteq Tree!upFrom[p]
        BY <3>1, <3>2, AboveIsAbove
      <3>5. ParentOf[p] \in Tree!walked(tree)
        BY <2>1, <3>3, <3>4 DEF Tree!walked
      <3>6. manifest'[ParentOf[p]] = tree[ParentOf[p]]
        BY <1>1, <3>1, <3>5
      <3> QED
        BY <3>1, <3>6 DEF Tree!inDirectory, Tree!isA, Tree!kindOf
    <2> QED
      BY <2>2, <2>3
  <1>6. \A p \in Globbed : manifest'[p] = None
    <2> SUFFICES ASSUME NEW p \in Globbed PROVE manifest'[p] = None
      OBVIOUS
    <2>1. p \in Paths /\ p \in Tree!upFrom[p]
      BY DEF Tree!NamesAreATree
    <2>2. p \notin Tree!walked(tree)
      BY <2>1 DEF Tree!walked
    <2> QED
      BY <1>1, <2>1, <2>2
  <1> QED
    BY <1>1, <1>2, <1>3, <1>4, <1>5, <1>6
    DEF RInv, TreeTyped, Standing, Visits, Untouched, Cleared, Restored, Writing, Passing,
        Ended

(* What the read pass drops is no directory of another entry.              *)
LEMMA ReadRInv ==
    ASSUME Tree!NamesAreATree, Tree!StartsAreTrees, RInv, NEW p \in Paths, Tree!ReadFile(p)
    PROVE  RInv'
  <1>1. /\ phase = "reading" /\ p \in todo
        /\ UNCHANGED <<tree, barred, walkErrors, before>>
        /\ tree \in [Paths -> Held] /\ manifest \in [Paths -> Held] /\ todo \subseteq Paths
        /\ Stands(tree) /\ Stands(manifest) /\ todo \subseteq Tree!entries("file")
        /\ \A q \in Globbed : manifest[q] = None
    BY DEF Tree!ReadFile, RInv, TreeTyped, Standing, Visits, Writing, Untouched
  <1>2. Tree!isA(manifest, p, "file") /\ ~Tree!isA(manifest, p, "dir") /\ manifest[p] # None
    <2>1. Tree!isA(manifest, p, "file")
      BY <1>1 DEF Tree!entries
    <2> QED
      BY <1>1, <2>1, KindsOfNodes DEF Tree!Kinds, Tree!isA
  <1>3. CASE /\ manifest' = Tree!NoTree /\ todo' = {} /\ phase' = "live"
    <2>1. /\ manifest' \in [Paths -> Held] /\ Stands(manifest')
          /\ \A q \in Globbed : manifest'[q] = None
      BY <1>3 DEF Tree!NoTree, Held, Stands, Tree!present, Tree!NamesAreATree
    <2> QED
      BY <1>1, <1>3, <2>1
      DEF RInv, TreeTyped, Standing, Visits, Untouched, Cleared, Restored, Writing,
          Passing, Ended
  <1>4. CASE /\ todo' = todo \ {p} /\ phase' = phase
             /\ \/ Tree!isA(tree, p, "file") /\ manifest' = [manifest EXCEPT ![p] = tree[p]]
                \/ manifest' = [manifest EXCEPT ![p] = None]
    <2>1. manifest' \in [Paths -> Held]
      BY <1>1, <1>4 DEF Held
    <2>2. \A q \in Paths : Tree!isA(manifest, q, "dir") => Tree!isA(manifest', q, "dir")
      <3> SUFFICES ASSUME NEW q \in Paths, Tree!isA(manifest, q, "dir")
                   PROVE  Tree!isA(manifest', q, "dir")
        OBVIOUS
      <3>1. q # p
        BY <1>2
      <3> QED
        BY <1>1, <1>4, <3>1 DEF Tree!isA, Tree!kindOf
    <2>3. Tree!present(manifest') \subseteq Tree!present(manifest)
      BY <1>1, <1>2, <1>4 DEF Tree!present
    <2>4. Stands(manifest')
      BY <1>1, <2>2, <2>3 DEF Stands, Tree!inDirectory
    <2>5. todo' \subseteq Tree!entries("file")'
      <3> SUFFICES ASSUME NEW q \in todo' PROVE q \in Tree!entries("file")'
        OBVIOUS
      <3>1. q # p /\ q \in Paths /\ Tree!isA(manifest, q, "file")
        BY <1>1, <1>4 DEF Tree!entries
      <3> QED
        BY <1>1, <1>4, <3>1 DEF Tree!entries, Tree!isA, Tree!kindOf
    <2>6. \A q \in Globbed : manifest'[q] = None
      BY <1>1, <1>2, <1>4 DEF Tree!NamesAreATree
    <2> QED
      BY <1>1, <1>4, <2>1, <2>4, <2>5, <2>6
      DEF RInv, TreeTyped, Standing, Visits, Untouched, Cleared, Restored, Writing,
          Passing, Ended
  <1> QED
    BY <1>3, <1>4 DEF Tree!ReadFile

(* A revert has every name before it, unless a directory does not open.    *)
LEMMA BeginRevertRInv ==
    ASSUME Tree!NamesAreATree, Tree!StartsAreTrees, RInv, Tree!PutManifest \/ Tree!Revert
    PROVE  RInv'
  <1>1. CASE Tree!PutManifest
    BY <1>1 DEF Tree!PutManifest, RInv, TreeTyped, Standing, Visits, Untouched, Cleared,
       Restored,
                Writing, Passing, Ended, Tree!entries
  <1>2. CASE Tree!Revert
    <2> DEFINE shut == {d \in barred.closed : Tree!isA(tree, d, "dir")}
    <2>1. /\ phase = "saved" /\ phase' = "pruning" /\ before' = tree
          /\ walkErrors' = Tree!Cardinality(shut)
          /\ todo' = Tree!present(tree) \ UNION {Tree!below(d) \ {d} : d \in shut}
          /\ UNCHANGED <<tree, manifest, barred>>
      BY <1>2 DEF Tree!Revert
    <2>2. walkErrors' \in Nat /\ (walkErrors' = 0 => shut = {})
      <3>1. IsFiniteSet(shut)
        BY FS_Subset DEF RInv, TreeTyped
      <3>2. Tree!Cardinality(shut) = Cardinality(shut)
        BY DEF Tree!Cardinality, Cardinality
      <3> QED
        BY <2>1, <3>1, <3>2, FS_EmptySet, FS_CardinalityType
    <2>3. walkErrors' = 0 => todo' = Tree!present(tree)
      BY <2>1, <2>2
    <2>4. Cleared'
      BY <2>1, <2>3 DEF Cleared, Clear, Tree!present, Writing
    <2>5. todo' \subseteq Paths
      BY <2>1 DEF Tree!present
    <2> QED
      BY <2>1, <2>2, <2>4, <2>5
      DEF RInv, TreeTyped, Standing, Visits, Untouched, Restored, Writing, Passing, Ended
  <1> QED
    BY <1>1, <1>2

(* What remains below a name remains while what is there stays there.      *)
LEMMA RemainsRemains ==
    ASSUME NEW p \in Paths, Clear(p), Tree!StartsAreTrees,
           UNCHANGED barred, tree[p] = None => tree'[p] = None,
           \A q \in Globbed \cup barred.stuck : q \in Paths /\ tree[q] # None => tree'[q] # None
    PROVE  Clear(p)'
  BY DEF Clear, Tree!remains, Tree!below

(* What the prune leaves of a name the manifest does not hold is clear: the
   name is one that remains, or it is the directory of one.                *)
LEMMA PruneRInv ==
    ASSUME Tree!NamesAreATree, Tree!StartsAreTrees, RInv, NEW p \in Paths, Tree!PruneEntry(p)
    PROVE  RInv'
  <1>1. /\ phase = "pruning" /\ p \in todo /\ Tree!contentsFirst(p) /\ todo' = todo \ {p}
        /\ UNCHANGED <<manifest, phase, barred, walkErrors, before>>
        /\ tree' = IF p \in Globbed \/ Tree!kept(p) \/ ~Tree!removable(tree, p) THEN tree
                   ELSE [tree EXCEPT ![p] = None]
    BY DEF Tree!PruneEntry
  <1>2. tree \in [Paths -> Held] /\ manifest \in [Paths -> Held] /\ Stands(manifest)
    BY DEF RInv, TreeTyped, Standing
  <1>3. tree' \in [Paths -> Held]
    BY <1>1, <1>2 DEF Held
  <1>4. \A q \in Globbed \cup barred.stuck : q \in Paths /\ tree[q] # None => tree'[q] # None
    BY <1>1, <1>2 DEF Tree!removable
  <1>5. \A q \in Paths : tree[q] = None => tree'[q] = None
    BY <1>1, <1>2
  <1>6. ASSUME walkErrors = 0, NEW q \in Paths, manifest[q] = None, q \notin todo'
        PROVE  Clear(q)'
    <2>1. CASE q \notin todo
      <3>1. Clear(q)
        BY <1>1, <1>6, <2>1 DEF RInv, Cleared, Writing
      <3> QED
        BY <1>1, <1>4, <1>5, <3>1, RemainsRemains
    <2>2. CASE q = p
      <3>1. CASE tree'[p] = None
        BY <2>2, <3>1 DEF Clear
      <3>2. CASE p \in Globbed \cup barred.stuck
        BY <1>1, <2>2, <3>2, AboveIsAbove DEF Clear, Tree!remains
      <3>3. CASE tree'[p] # None /\ p \notin Globbed \cup barred.stuck
        <4>1. tree[p] # None /\ ~Tree!kept(p)
          BY <1>2, <1>5, <1>6, <2>2, <3>3, KindsOfNodes DEF Tree!kept
        <4>2. ~Tree!removable(tree, p) /\ tree' = tree
          BY <1>1, <1>2, <3>3, <4>1
        <4>3. PICK c \in Tree!children(p) : tree[c] # None
          BY <3>3, <4>2 DEF Tree!removable, Tree!present
        <4>4. /\ c \in Paths /\ c # p /\ c \in Tree!below(p) /\ ParentOf[c] = p
              /\ Tree!below(c) \subseteq Tree!below(p)
          BY AboveIsAbove DEF Tree!children
        <4>5. c \notin todo
          BY <1>1, <4>4 DEF Tree!contentsFirst
        <4>6. manifest[c] = None
          <5>1. ASSUME manifest[c] # None PROVE FALSE
            <6>1. Tree!inDirectory(manifest, c)
              BY <1>2, <4>4, <5>1 DEF Stands, Tree!present
            <6>2. Tree!isA(manifest, p, "dir")
              BY <4>4, <6>1 DEF Tree!inDirectory, Tree!NamesAreATree, Tree!Root
            <6> QED
              BY <1>2, <1>6, <2>2, <6>2, KindsOfNodes DEF Tree!Kinds
          <5> QED
            BY <5>1
        <4>7. Clear(c)
          BY <1>1, <1>6, <4>4, <4>5, <4>6 DEF RInv, Cleared, Writing
        <4>8. Tree!remains(c)
          BY <4>3, <4>7 DEF Clear
        <4> QED
          BY <1>1, <2>2, <4>2, <4>4, <4>8 DEF Clear, Tree!remains
      <3> QED
        BY <3>1, <3>2, <3>3
    <2> QED
      BY <1>1, <1>6, <2>1, <2>2
  <1>7. Cleared'
    BY <1>1, <1>6 DEF Cleared
  <1>8. \A q \in Globbed : tree'[q] = tree[q]
    BY <1>1, <1>2 DEF Tree!NamesAreATree
  <1> QED
    BY <1>1, <1>3, <1>7, <1>8
    DEF RInv, TreeTyped, Standing, Visits, Untouched, Restored, Writing, Passing, Ended

(* The passes take their turns, and the revert answers or fails.           *)
LEMMA TurnRInv ==
    ASSUME Tree!NamesAreATree, Tree!StartsAreTrees, RInv,
           Tree!NextPass \/ Tree!RestoreFails \/ Tree!Answer
    PROVE  RInv'
  <1>1. CASE Tree!NextPass
    <2>1. /\ UNCHANGED <<tree, manifest, barred, walkErrors, before>> /\ todo = {}
          /\ \/ phase = "pruning" /\ phase' = "dirs" /\ todo' = Tree!entries("dir")
             \/ phase = "dirs" /\ phase' = "files" /\ todo' = Tree!entries("file")
             \/ phase = "files" /\ phase' = "links" /\ todo' = Tree!entries("symlink")
             \/ phase = "links" /\ phase' = "modes" /\ todo' = Tree!entries("dir")
      BY <1>1 DEF Tree!NextPass, Tree!Passes, Tree!After
    <2>2. \A k : Tree!entries(k)' = Tree!entries(k) /\ Tree!entries(k) \subseteq Paths
      BY <2>1 DEF Tree!entries
    <2>3. Cleared'
      BY <2>1 DEF RInv, Cleared, Clear, Tree!remains, Writing
    <2> QED
      BY <2>1, <2>2, <2>3
      DEF RInv, TreeTyped, Standing, Visits, Untouched, Restored, Writing, Passing, Ended
  <1>2. CASE Tree!RestoreFails \/ Tree!Answer
    <2>1. /\ UNCHANGED <<tree, manifest, barred, walkErrors, before>>
          /\ todo' \in {todo, {}} /\ phase \in Passing
          /\ \/ phase' \in {"failed", "partial"}
             \/ phase = "modes" /\ todo = {} /\ phase' = "reverted" /\ ~(walkErrors > 0)
      BY <1>2 DEF Tree!RestoreFails, Tree!Fail, Tree!Answer, Passing
    <2>2. \A k : Tree!entries(k)' = Tree!entries(k) /\ Tree!entries(k) \subseteq Paths
      BY <2>1 DEF Tree!entries
    <2>3. Cleared'
      BY <2>1 DEF RInv, Cleared, Clear, Tree!remains, Writing, Passing
    <2> QED
      BY <2>1, <2>2, <2>3
      DEF RInv, TreeTyped, Standing, Visits, Untouched, Restored, Writing, Passing, Ended
  <1> QED
    BY <1>1, <1>2

(* A pass makes an entry of its own kind, and nothing else.                *)
LEMMA PassRInv ==
    ASSUME Tree!NamesAreATree, Tree!StartsAreTrees, RInv, NEW p \in Paths,
           Tree!CreateDir(p) \/ Tree!CreateNode(p) \/ Tree!ChmodDir(p)
    PROVE  RInv'
  <1>1. /\ phase \in Passing /\ p \in todo /\ todo' = todo \ {p}
        /\ UNCHANGED <<manifest, phase, barred, walkErrors, before>>
        /\ tree \in [Paths -> Held] /\ manifest \in [Paths -> Held]
        /\ \/ tree' = tree /\ Tree!isA(tree, p, "dir")
           \/ tree' = [tree EXCEPT ![p] = [kind |-> "dir", body |-> Tree!NewDirMode]]
           \/ tree' = [tree EXCEPT ![p] = manifest[p]]
        /\ phase # "dirs" => tree' = [tree EXCEPT ![p] = manifest[p]]
    BY DEF Tree!CreateDir, Tree!CreateNode, Tree!ChmodDir, Tree!withMode, Passing, RInv,
       TreeTyped
  <1>2. tree' \in [Paths -> Held]
    <2>1. [kind |-> "dir", body |-> Tree!NewDirMode] \in Held /\ manifest[p] \in Held
      BY <1>1 DEF Held, Made, Tree!Kinds
    <2> QED
      BY <1>1, <2>1
  <1>3. manifest[p] # None /\ \A q \in Paths \ {p} : tree'[q] = tree[q]
    <2>1. p \in UNION {Tree!entries(k) : k \in Tree!Kinds}
      BY <1>1 DEF RInv, Visits, Passing, Tree!Kinds
    <2>2. PICK k \in Tree!Kinds : p \in Tree!entries(k)
      BY <2>1
    <2> QED
      BY <1>1, <2>2, KindsOfNodes DEF Tree!entries
  <1>4. tree'[p] # None
    <2>1. [kind |-> "dir", body |-> Tree!NewDirMode] # None
      BY DEF Tree!StartsAreTrees, Tree!Kinds
    <2>2. Tree!isA(tree, p, "dir") => tree[p] # None
      BY <1>1, KindsOfNodes DEF Tree!Kinds
    <2> QED
      BY <1>1, <1>3, <2>1, <2>2
  <1>5. Cleared'
    <2> SUFFICES ASSUME walkErrors = 0, NEW q \in Paths, manifest[q] = None PROVE Clear(q)'
      BY <1>1 DEF Cleared
    <2>1. Clear(q) /\ q # p
      BY <1>1, <1>3 DEF RInv, Cleared, Passing, Writing
    <2> QED
      BY <1>1, <1>3, <1>4, <2>1, RemainsRemains
  <1>6. Untouched'
    <2>1. \A q \in Globbed : tree'[q] = tree[q]
      BY <1>3 DEF RInv, Untouched, Tree!NamesAreATree
    <2> QED
      BY <1>1, <2>1 DEF RInv, Untouched
  <1>7. \A k : Tree!entries(k)' = Tree!entries(k) /\ Tree!entries(k) \subseteq Paths
    BY <1>1 DEF Tree!entries
  <1>8. Restored'
    <2>1. ASSUME phase # "dirs", NEW q \in Paths
          PROVE  tree'[q] = IF q = p THEN manifest[p] ELSE tree[q]
      BY <1>1, <2>1
    <2> QED
      BY <1>1, <1>7, <2>1 DEF RInv, Restored, Passing
  <1> QED
    BY <1>1, <1>2, <1>5, <1>6, <1>7, <1>8
    DEF RInv, TreeTyped, Standing, Visits, Writing, Passing, Ended

LEMMA StepRInv ==
    ASSUME Tree!NamesAreATree, Tree!StartsAreTrees, RInv, Tree!Next
    PROVE  RInv'
  BY EditRInv, WalkRInv, ReadRInv, BeginRevertRInv, PruneRInv, TurnRInv, PassRInv
     DEF Tree!Next

LEMMA RevertedIsExact ==
    ASSUME Tree!NamesAreATree, Tree!StartsAreTrees, RInv
    PROVE  Tree!RevertIsExact
  <1>1. ASSUME phase = "reverted", NEW p \in Paths
        PROVE  \/ manifest[p] # None /\ tree[p] = manifest[p]
               \/ manifest[p] = None /\ (tree[p] = None \/ Tree!remains(p))
    <2>1. CASE manifest[p] = None
      BY <1>1, <2>1 DEF RInv, Cleared, Restored, Clear, Writing
    <2>2. CASE manifest[p] # None
      <3>1. p \in Tree!entries("dir") \cup Tree!entries("file") \cup Tree!entries("symlink")
        BY <2>2, KindsOfNodes DEF RInv, TreeTyped, Tree!entries, Tree!Kinds, Tree!isA
      <3> QED
        BY <1>1, <2>2, <3>1 DEF RInv, Restored
    <2> QED
      BY <2>1, <2>2
  <1>2. before # Tree!NoTree => \A p \in Globbed : tree[p] = before[p]
    BY DEF RInv, Untouched
  <1> QED
    BY <1>1, <1>2 DEF Tree!RevertIsExact

(* A revert that reports no error has made the tree the manifest's, but for
   what an exclude matches, what the kernel would not remove and the
   directories these stand in; and it leaves what an exclude matches alone,
   whatever the trees, however processes wrote during the snapshot
   (supervisor.rs, revert_to_manifest; restore.rs, the passes).            *)
THEOREM RevertIsExactAlways ==
    ASSUME Tree!NamesAreATree, Tree!StartsAreTrees
    PROVE  Spec => []RevertIsExact
  <1> DEFINE Inv == focus = "tree" => RInv
  <1>1. Init => Inv
    BY InitRInv DEF Init
  <1>2. Inv /\ [Next]_vars => Inv'
    <2>1. RInv /\ UNCHANGED root => RInv'
      BY DEF root, RInv, TreeTyped, Standing, Stands, Visits, Untouched, Cleared, Clear,
         Restored,
             Tree!entries, Tree!remains
    <2> QED
      BY <2>1, FocusStays, StepRInv
  <1>3. Inv => RevertIsExact
    BY RevertedIsExact DEF RevertIsExact
  <1> QED
    BY <1>1, <1>2, <1>3, PTL DEF Spec

-----------------------------------------------------------------------------
(* Sums, counted out.                                                       *)

Places(S, f) == UNION {{x} \X (1..f[x]) : x \in S}

LEMMA Column ==
    ASSUME NEW x, NEW n \in Nat
    PROVE  IsFiniteSet({x} \X (1..n)) /\ Cardinality({x} \X (1..n)) = n
  <1> DEFINE A == {x}
             B == 1..n
  <1>1. IsFiniteSet(A) /\ Cardinality(A) = 1
    BY FS_Singleton
  <1>2. 1 \in Int /\ n \in Int
    OBVIOUS
  <1>3. IsFiniteSet(B) /\ Cardinality(B) = n
    BY <1>2, FS_Interval
  <1> HIDE DEF A, B
  <1>4. IsFiniteSet(A \X B) /\ Cardinality(A \X B) = Cardinality(A) * Cardinality(B)
    BY <1>1, <1>3, FS_Product
  <1>5. 1 * n = n
    OBVIOUS
  <1>6. IsFiniteSet(A \X B) /\ Cardinality(A \X B) = n
    BY <1>1, <1>3, <1>4, <1>5
  <1> QED
    BY <1>6 DEF A, B

LEMMA PlacesAreFinite ==
    ASSUME NEW S, IsFiniteSet(S), NEW f, \A x \in S : f[x] \in Nat
    PROVE  IsFiniteSet(Places(S, f))
  <1> DEFINE F == [x \in S |-> {x} \X (1..f[x])]
  <1>1. ASSUME NEW x \in S PROVE IsFiniteSet(F[x])
    BY Column
  <1>2. Places(S, f) = UNION {F[x] : x \in S}
    BY DEF Places
  <1> HIDE DEF F
  <1>3. IsFiniteSet({F[x] : x \in S})
    BY ImageIsFinite
  <1>4. \A T \in {F[x] : x \in S} : IsFiniteSet(T)
    BY <1>1
  <1> QED
    BY <1>2, <1>3, <1>4, FS_UNION

LEMMA PlacesAdded ==
    ASSUME NEW S, IsFiniteSet(S), NEW z, z \notin S, NEW f, \A x \in S \cup {z} : f[x] \in Nat
    PROVE  /\ Cardinality(Places(S, f)) \in Nat
           /\ Cardinality(Places(S \cup {z}, f)) = Cardinality(Places(S, f)) + f[z]
  <1> DEFINE here == {z} \X (1..f[z])
             others == Places(S, f)
             all == Places(S \cup {z}, f)
  <1>1. f[z] \in Nat
    OBVIOUS
  <1>2. IsFiniteSet(here) /\ Cardinality(here) = f[z]
    BY <1>1, Column
  <1>3. IsFiniteSet(others)
    BY PlacesAreFinite
  <1>4. all = others \cup here
    BY DEF Places
  <1>5. others \cap here = {}
    BY DEF Places
  <1> HIDE DEF here, others, all
  <1>6. Cardinality(others \cup here) = Cardinality(others) + Cardinality(here) - Cardinality({})
    BY <1>2, <1>3, <1>5, FS_Union
  <1>7. Cardinality({}) = 0 /\ Cardinality(others) \in Nat
    BY <1>3, FS_EmptySet, FS_CardinalityType
  <1>8. Cardinality(all) = Cardinality(others) + f[z]
    <2>1. Cardinality(all) = Cardinality(others \cup here)
      BY <1>4
    <2> QED
      BY <1>1, <1>2, <1>6, <1>7, <2>1
  <1> QED
    BY <1>7, <1>8 DEF others, all

LEMMA SamePlaces ==
    ASSUME NEW S, NEW f, NEW g, \A x \in S : f[x] = g[x]
    PROVE  Places(S, f) = Places(S, g)
  BY DEF Places

LEMMA CountedInMeter == \A S : Meter!Cardinality(S) = Cardinality(S)
  BY DEF Meter!Cardinality, Cardinality

LEMMA TotalIs ==
    ASSUME NEW S, NEW f, DOMAIN f = S
    PROVE  Meter!Total(f) = Cardinality(Places(S, f))
  BY CountedInMeter DEF Meter!Total, Places

(* One of the values is another.                                            *)
LEMMA TotalChanged ==
    ASSUME NEW S, IsFiniteSet(S), NEW z \in S, NEW f \in [S -> Nat], NEW g \in [S -> Nat],
           \A x \in S \ {z} : g[x] = f[x]
    PROVE  /\ Meter!Total(f) \in Nat
           /\ Meter!Total(g) = Meter!Total(f) + (g[z] - f[z])
  <1> DEFINE T == S \ {z}
  <1>1. IsFiniteSet(T) /\ z \notin T /\ T \cup {z} = S
    BY FS_RemoveElement
  <1>2. /\ \A x \in S : f[x] \in Nat /\ g[x] \in Nat
        /\ DOMAIN f = S /\ DOMAIN g = S
    OBVIOUS
  <1> HIDE DEF T
  <1>3. /\ Cardinality(Places(T, f)) \in Nat
        /\ Cardinality(Places(S, f)) = Cardinality(Places(T, f)) + f[z]
        /\ Cardinality(Places(S, g)) = Cardinality(Places(T, g)) + g[z]
    BY <1>1, <1>2, PlacesAdded
  <1>4. Places(T, f) = Places(T, g)
    BY SamePlaces DEF T
  <1>5. /\ Meter!Total(f) = Cardinality(Places(S, f))
        /\ Meter!Total(g) = Cardinality(Places(S, g))
    BY <1>2, TotalIs
  <1> QED
    BY <1>2, <1>3, <1>4, <1>5

-----------------------------------------------------------------------------
(* The ticks of a month in an interval.                                     *)

TicksOf(m, a, b) == {t \in a..(b - 1) : Meter!currentPeriod(t) = m}

LEMMA TicksAreCountable ==
    ASSUME NEW m, NEW a \in Nat, NEW b \in Nat
    PROVE  /\ IsFiniteSet(TicksOf(m, a, b)) /\ Meter!TicksIn(m, a, b) \in Nat
           /\ Meter!TicksIn(m, a, b) = Cardinality(TicksOf(m, a, b))
  <1>1. IsFiniteSet(a..(b - 1))
    BY FS_Interval
  <1>2. IsFiniteSet(TicksOf(m, a, b))
    BY <1>1, FS_Subset DEF TicksOf
  <1> QED
    BY <1>2, FS_CardinalityType, CountedInMeter DEF Meter!TicksIn, TicksOf

LEMMA TicksAdd ==
    ASSUME NEW m, NEW a \in Nat, NEW b \in Nat, NEW k \in Nat, a <= b, b <= k
    PROVE  Meter!TicksIn(m, a, k) = Meter!TicksIn(m, a, b) + Meter!TicksIn(m, b, k)
  <1>1. TicksOf(m, a, k) = TicksOf(m, a, b) \cup TicksOf(m, b, k)
    BY DEF TicksOf
  <1>2. TicksOf(m, a, b) \cap TicksOf(m, b, k) = {}
    BY DEF TicksOf
  <1>3. Cardinality({}) = 0
    BY FS_EmptySet
  <1>4. Cardinality(TicksOf(m, a, k))
          = Cardinality(TicksOf(m, a, b)) + Cardinality(TicksOf(m, b, k)) - Cardinality({})
    BY <1>1, <1>2, FS_Union, TicksAreCountable
  <1>5. /\ Meter!TicksIn(m, a, k) = Cardinality(TicksOf(m, a, k))
        /\ Meter!TicksIn(m, a, b) = Cardinality(TicksOf(m, a, b))
        /\ Meter!TicksIn(m, b, k) = Cardinality(TicksOf(m, b, k))
        /\ Meter!TicksIn(m, a, b) \in Nat /\ Meter!TicksIn(m, b, k) \in Nat
    BY TicksAreCountable
  <1> QED
    BY <1>3, <1>4, <1>5

LEMMA NoTicks ==
    ASSUME NEW m, NEW a \in Nat, NEW b \in Nat, b <= a
    PROVE  Meter!TicksIn(m, a, b) = 0
  <1>1. TicksOf(m, a, b) = {}
    BY DEF TicksOf
  <1> QED
    BY <1>1, TicksAreCountable, FS_EmptySet

LEMMA OneTick ==
    ASSUME NEW m, NEW a \in Nat
    PROVE  Meter!TicksIn(m, a, a + 1) = IF Meter!currentPeriod(a) = m THEN 1 ELSE 0
  <1>1. TicksOf(m, a, a + 1) = IF Meter!currentPeriod(a) = m THEN {a} ELSE {}
    BY DEF TicksOf
  <1>2. Meter!TicksIn(m, a, a + 1) = Cardinality(TicksOf(m, a, a + 1))
    BY TicksAreCountable
  <1> QED
    BY <1>1, <1>2, FS_EmptySet, FS_Singleton

LEMMA AllInMonth ==
    ASSUME NEW m, NEW k, NEW a \in Nat, NEW b \in Nat, a <= b,
           \A t \in a..(b - 1) : Meter!currentPeriod(t) = k
    PROVE  Meter!TicksIn(m, a, b) = IF m = k THEN b - a ELSE 0
  <1>1. TicksOf(m, a, b) = IF m = k THEN a..(b - 1) ELSE {}
    BY DEF TicksOf
  <1>2. Cardinality(a..(b - 1)) = b - a
    <2>1. a \in Int /\ b - 1 \in Int
      OBVIOUS
    <2>2. Cardinality(a..(b - 1)) = IF a > b - 1 THEN 0 ELSE (b - 1) - a + 1
      BY <2>1, FS_Interval
    <2> QED
      BY <2>2
  <1>3. Meter!TicksIn(m, a, b) = Cardinality(TicksOf(m, a, b))
    BY TicksAreCountable
  <1> QED
    BY <1>1, <1>2, <1>3, FS_EmptySet

(* Months: an interval's first slice is of one.                             *)
LEMMA MonthOf ==
    ASSUME NEW t \in Nat, NEW L \in Nat \ {0}
    PROVE  t \div L \in Nat /\ (t \div L) * L <= t /\ t < (t \div L + 1) * L
  OBVIOUS

LEMMA LaterMonths ==
    ASSUME NEW t \in Nat, NEW u \in Nat, t <= u, NEW L \in Nat \ {0}
    PROVE  t \div L <= u \div L
  OBVIOUS

LEMMA SameMonth ==
    ASSUME NEW t \in Nat, NEW u \in Nat, t <= u, NEW L \in Nat \ {0},
           u < (t \div L + 1) * L
    PROVE  u \div L = t \div L
  <1> DEFINE p == t \div L
             q == u \div L
  <1>1. p \in Nat /\ q \in Nat /\ p <= q /\ q * L <= u /\ u < (p + 1) * L
    BY MonthOf, LaterMonths
  <1> HIDE DEF p, q
  <1>2. ASSUME p < q PROVE (p + 1) * L <= q * L
    <2>1. q = (p + 1) + (q - p - 1) /\ q - p - 1 \in Nat
      BY <1>1, <1>2
    <2> DEFINE d == q - p - 1
    <2>2. q * L = (p + 1) * L + d * L /\ d * L \in Nat /\ (p + 1) * L \in Nat
      BY <1>1, <2>1
    <2> QED
      BY <2>2
  <1>3. (p + 1) * L \in Nat /\ q * L \in Nat
    BY <1>1
  <1> QED
    BY <1>1, <1>2, <1>3 DEF p, q

LEMMA FirstSlice ==
    ASSUME Meter!TicksAreCounted, NEW a \in Nat, NEW b \in Nat, a < b, b <= MaxTime
    PROVE  LET s == Meter!firstSlice(a, b)
           IN  /\ s.month \in Meter!Months /\ s.end \in Nat /\ a < s.end /\ s.end <= b
               /\ \A m : Meter!TicksIn(m, a, s.end) = IF m = s.month THEN s.end - a ELSE 0
  <1> DEFINE L == MonthLen
             k == a \div L
             u == (k + 1) * L
             e == Meter!Min({b, u})
  <1>1. L \in Nat \ {0} /\ MaxTime \in Nat
    BY DEF Meter!TicksAreCounted
  <1>2. k \in Nat /\ a < u
    BY <1>1, MonthOf
  <1>3. u \in Nat
    BY <1>1, <1>2
  <1> HIDE DEF u
  <1>4. e = IF b <= u THEN b ELSE u
    BY <1>3 DEF Meter!Min
  <1> HIDE DEF e
  <1>5. e \in Nat /\ a < e /\ e <= b /\ e <= u
    BY <1>2, <1>3, <1>4
  <1>6. ASSUME NEW t \in a..(e - 1) PROVE Meter!currentPeriod(t) = k
    <2>1. t \in Nat /\ a <= t /\ t < u
      BY <1>3, <1>5
    <2> QED
      BY <1>1, <2>1, SameMonth DEF Meter!currentPeriod, u
  <1>7. k \in Meter!Months
    <2>1. k <= MaxTime \div L /\ MaxTime \div L \in Nat
      BY <1>1, MonthOf, LaterMonths
    <2> QED
      BY <1>2, <2>1 DEF Meter!Months, Meter!currentPeriod
  <1>8. \A m : Meter!TicksIn(m, a, e) = IF m = k THEN e - a ELSE 0
    <2>1. a <= e
      BY <1>5
    <2> HIDE DEF k
    <2> QED
      BY <1>5, <1>6, <2>1, AllInMonth
  <1>9. Meter!firstSlice(a, b) = [month |-> k, end |-> e]
    BY DEF Meter!firstSlice, Meter!currentPeriod, e, u
  <1> HIDE DEF k
  <1> QED
    BY <1>5, <1>7, <1>8, <1>9

-----------------------------------------------------------------------------
(* What is on its way to a table for a computer.                            *)

Chain == [table : Meter!Tables, c : Computers, from : Nat, to : Nat]
ChainsOf(W, t, c) == {w \in W : w.table = t /\ w.c = c}
OnTheWay(W, t, c, m) == Meter!InChains(ChainsOf(W, t, c), m)
Share(w, t, c, m) == IF w.table = t /\ w.c = c THEN Meter!TicksIn(m, w.from, w.to) ELSE 0

LEMMA ChainsCounted ==
    ASSUME NEW W, IsFiniteSet(W), W \subseteq Chain, NEW m
    PROVE  /\ Meter!InChains(W, m)
                = Cardinality(Places(W, [w \in Chain |-> Meter!TicksIn(m, w.from, w.to)]))
           /\ Meter!InChains(W, m) \in Nat
           /\ \A w \in Chain : Meter!TicksIn(m, w.from, w.to) \in Nat
  <1> DEFINE f == [w \in W |-> Meter!TicksIn(m, w.from, w.to)]
             g == [w \in Chain |-> Meter!TicksIn(m, w.from, w.to)]
  <1>1. \A w \in Chain : w.from \in Nat /\ w.to \in Nat
    BY DEF Chain
  <1>2. \A w \in Chain : Meter!TicksIn(m, w.from, w.to) \in Nat
    BY <1>1, TicksAreCountable
  <1>3. \A w \in W : f[w] = g[w] /\ g[w] \in Nat
    BY <1>2
  <1>4. DOMAIN f = W
    OBVIOUS
  <1>5. Meter!InChains(W, m) = Meter!Total(f)
    BY DEF Meter!InChains
  <1> HIDE DEF f, g
  <1>6. Meter!Total(f) = Cardinality(Places(W, f)) /\ Places(W, f) = Places(W, g)
    BY <1>3, <1>4, TotalIs, SamePlaces
  <1>7. Cardinality(Places(W, g)) \in Nat
    BY <1>3, PlacesAreFinite, FS_CardinalityType
  <1> QED
    BY <1>2, <1>5, <1>6, <1>7 DEF g

LEMMA NoChains == \A m : Meter!InChains({}, m) = 0
  <1>1. \A f : Places({}, f) = {}
    BY DEF Places
  <1> SUFFICES ASSUME NEW m PROVE Meter!InChains({}, m) = 0
    OBVIOUS
  <1>2. IsFiniteSet({}) /\ Cardinality({}) = 0 /\ {} \subseteq Chain
    BY FS_EmptySet
  <1>3. Meter!InChains({}, m)
          = Cardinality(Places({}, [w \in Chain |-> Meter!TicksIn(m, w.from, w.to)]))
    BY <1>2, ChainsCounted
  <1> QED
    BY <1>1, <1>2, <1>3

Plus(a, b) == a + b

LEMMA WayIsCounted ==
    ASSUME NEW W, IsFiniteSet(W), W \subseteq Chain, NEW t, NEW c, NEW m
    PROVE  OnTheWay(W, t, c, m) \in Nat
  <1>1. ChainsOf(W, t, c) \subseteq W
    BY DEF ChainsOf
  <1>2. IsFiniteSet(ChainsOf(W, t, c)) /\ ChainsOf(W, t, c) \subseteq Chain
    BY <1>1, FS_Subset
  <1> QED
    BY <1>2, ChainsCounted DEF OnTheWay

LEMMA Added ==
    ASSUME NEW W, IsFiniteSet(W), W \subseteq Chain, NEW w \in Chain, w \notin W,
           NEW t, NEW c, NEW m
    PROVE  OnTheWay(W \cup {w}, t, c, m) = Plus(OnTheWay(W, t, c, m), Share(w, t, c, m))
  <1> DEFINE us == ChainsOf(W, t, c)
             vs == ChainsOf(W \cup {w}, t, c)
             g == [v \in Chain |-> Meter!TicksIn(m, v.from, v.to)]
  <1>1. IsFiniteSet(W \cup {w}) /\ W \cup {w} \subseteq Chain
    BY FS_AddElement
  <1>2. us \subseteq W /\ vs \subseteq W \cup {w} /\ w \notin us
    BY DEF ChainsOf
  <1>3. IsFiniteSet(us) /\ IsFiniteSet(vs) /\ us \subseteq Chain /\ vs \subseteq Chain
    BY <1>1, <1>2, FS_Subset
  <1>4. vs = IF w.table = t /\ w.c = c THEN us \cup {w} ELSE us
    BY DEF ChainsOf
  <1> HIDE DEF us, vs
  <1>5. /\ Meter!InChains(us, m) = Cardinality(Places(us, g)) /\ Meter!InChains(us, m) \in Nat
        /\ Meter!InChains(vs, m) = Cardinality(Places(vs, g))
    BY <1>3, ChainsCounted
  <1>6. \A v \in Chain : g[v] \in Nat /\ g[v] = Meter!TicksIn(m, v.from, v.to)
    BY <1>3, ChainsCounted
  <1> HIDE DEF g
  <1>7. Cardinality(Places(us \cup {w}, g)) = Cardinality(Places(us, g)) + g[w]
    BY <1>2, <1>3, <1>6, PlacesAdded
  <1>8. Meter!InChains(vs, m)
          = Meter!InChains(us, m) + Share(w, t, c, m)
    <2>1. CASE w.table = t /\ w.c = c
      BY <1>4, <1>5, <1>6, <1>7, <2>1 DEF Share
    <2>2. CASE ~(w.table = t /\ w.c = c)
      BY <1>4, <1>5, <2>2 DEF Share
    <2> QED
      BY <2>1, <2>2
  <1> QED
    BY <1>8 DEF OnTheWay, Plus, us, vs

LEMMA FinitelyMore ==
    ASSUME NEW W, IsFiniteSet(W), W \subseteq Chain, NEW w \in Chain
    PROVE  IsFiniteSet(W \cup {w}) /\ W \cup {w} \subseteq Chain
  BY FS_AddElement

LEMMA ChainDropped ==
    ASSUME NEW W, IsFiniteSet(W), W \subseteq Chain, NEW w \in W, NEW t, NEW c, NEW m
    PROVE  /\ IsFiniteSet(W \ {w}) /\ W \ {w} \subseteq Chain
           /\ OnTheWay(W, t, c, m) \in Nat /\ OnTheWay(W \ {w}, t, c, m) \in Nat
           /\ Share(w, t, c, m) \in Nat
           /\ OnTheWay(W, t, c, m) = Plus(OnTheWay(W \ {w}, t, c, m), Share(w, t, c, m))
  <1> DEFINE vs == W \ {w}
  <1>1. IsFiniteSet(vs) /\ vs \subseteq Chain /\ w \notin vs /\ w \in Chain /\ vs \cup {w} = W
    BY FS_RemoveElement
  <1> HIDE DEF vs
  <1>2. /\ OnTheWay(vs, t, c, m) \in Nat
        /\ OnTheWay(vs \cup {w}, t, c, m) = Plus(OnTheWay(vs, t, c, m), Share(w, t, c, m))
    <2>1. OnTheWay(vs, t, c, m) \in Nat
      BY <1>1, WayIsCounted
    <2>2. OnTheWay(vs \cup {w}, t, c, m) = Plus(OnTheWay(vs, t, c, m), Share(w, t, c, m))
      BY <1>1, Added
    <2> QED
      BY <2>1, <2>2
  <1>3. Share(w, t, c, m) \in Nat
    BY <1>1, ChainsCounted DEF Share
  <1>4. OnTheWay(W, t, c, m) = Plus(OnTheWay(vs, t, c, m), Share(w, t, c, m))
    BY <1>1, <1>2
  <1>5. OnTheWay(W, t, c, m) \in Nat
    BY <1>2, <1>3, <1>4 DEF Plus
  <1> QED
    BY <1>1, <1>2, <1>3, <1>4, <1>5 DEF vs

(* The same, one fact each.                                                 *)
LEMMA Dropped ==
    ASSUME NEW W, IsFiniteSet(W), W \subseteq Chain, NEW w \in W, NEW t, NEW c, NEW m
    PROVE  OnTheWay(W, t, c, m) = Plus(OnTheWay(W \ {w}, t, c, m), Share(w, t, c, m))
  BY ChainDropped

-----------------------------------------------------------------------------
(* The AWAKE stretches.  A stretch was persisted before it was left open,   *)
(* and what is on its way was AWAKE before it and at no time twice.         *)

MTypes == /\ now \in 0..MaxTime
          /\ since \in [Computers -> Nat \cup {None}] /\ stored \in [Computers -> Nat \cup {None}]
          /\ IsFiniteSet(chains) /\ chains \subseteq Chain
          /\ owed \in [Meter!Tables -> [Computers -> [Meter!Months -> Int]]]
          /\ period \in [Meter!Months -> Nat]
          /\ ledger \in [Computers -> [Meter!Months -> Nat]]

Stretches == \A c \in Computers : /\ stored[c] # None => stored[c] <= now
                                  /\ since[c] # None => /\ stored[c] # None
                                                        /\ stored[c] <= since[c]
                                                        /\ since[c] <= now

Apart(w, v) == w.table = v.table /\ w.c = v.c => w.to <= v.from \/ v.to <= w.from

Intervals == /\ \A w \in chains : /\ w.from < w.to /\ w.to <= now
                                  /\ since[w.c] # None => w.to <= since[w.c]
             /\ \A w, v \in chains : w # v => Apart(w, v)

LEMMA StepStretches ==
    ASSUME Meter!TicksAreCounted, MTypes, Stretches, Meter!Next \/ UNCHANGED metering
    PROVE  Stretches'
  <1>1. now \in Nat /\ None \notin Nat /\ \A c \in Computers : /\ since[c] \in Nat \cup {None}
                                                              /\ stored[c] \in Nat \cup {None}
    BY DEF MTypes, Meter!TicksAreCounted
  <1>2. CASE UNCHANGED <<now, since, stored>>
    BY <1>2 DEF Stretches
  <1>3. CASE Meter!Tick
    <2>1. now' = now + 1 /\ UNCHANGED <<since, stored>>
      BY <1>3 DEF Meter!Tick
    <2> QED
      BY <1>1, <2>1 DEF Stretches
  <1>4. ASSUME NEW c \in Computers, Meter!awake(c) PROVE Stretches'
    <2>1. /\ now' = now
          /\ since' = [since EXCEPT ![c] = IF @ = None THEN now ELSE @]
          /\ stored' = [stored EXCEPT ![c] = since'[c]]
      BY <1>4 DEF Meter!awake
    <2>2. \A d \in Computers : /\ since'[d] = IF d = c /\ since[d] = None THEN now ELSE since[d]
                               /\ stored'[d] = IF d = c THEN since'[d] ELSE stored[d]
      BY <2>1 DEF MTypes
    <2> QED
      BY <1>1, <2>1, <2>2 DEF Stretches
  <1>5. ASSUME NEW c \in Computers, Meter!persist(c) PROVE Stretches'
    <2>1. now' = now /\ since' = since /\ stored' = [stored EXCEPT ![c] = since[c]]
      BY <1>5 DEF Meter!persist
    <2>2. \A d \in Computers : stored'[d] = IF d = c THEN since[d] ELSE stored[d]
      BY <2>1 DEF MTypes
    <2> QED
      BY <1>1, <2>1, <2>2 DEF Stretches
  <1>6. ASSUME NEW c \in Computers, Meter!restart(c) PROVE Stretches'
    <2>1. now' = now /\ stored' = stored /\ since' = [since EXCEPT ![c] = stored[c]]
      BY <1>6 DEF Meter!restart
    <2>2. \A d \in Computers : since'[d] = IF d = c THEN stored[d] ELSE since[d]
      BY <2>1 DEF MTypes
    <2> QED
      BY <1>1, <2>1, <2>2 DEF Stretches
  <1>7. ASSUME NEW c \in Computers, NEW reopen \in BOOLEAN, Meter!closeAwakeStretch(c, reopen)
        PROVE  Stretches'
    <2>1. /\ now' = now /\ stored' = stored /\ since[c] # None
          /\ since' = [since EXCEPT ![c] = IF reopen THEN now ELSE None]
      BY <1>7 DEF Meter!closeAwakeStretch
    <2>2. \A d \in Computers : since'[d] = IF d = c THEN IF reopen THEN now ELSE None ELSE since[d]
      BY <2>1 DEF MTypes
    <2> QED
      BY <1>1, <2>1, <2>2 DEF Stretches
  <1>8. ASSUME NEW c \in Computers, Meter!grant(c) PROVE Stretches'
    BY <1>2, <1>8 DEF Meter!grant
  <1>9. ASSUME NEW w \in chains, Meter!upsert(w) \/ Meter!writeFails(w) PROVE Stretches'
    BY <1>2, <1>9 DEF Meter!upsert, Meter!writeFails
  <1>10. CASE UNCHANGED metering
    BY <1>2, <1>10 DEF metering
  <1> QED
    BY <1>3, <1>4, <1>5, <1>6, <1>7, <1>8, <1>9, <1>10 DEF Meter!Next

LEMMA StepIntervals ==
    ASSUME Meter!TicksAreCounted, MTypes, Stretches, Intervals,
           Meter!Next \/ UNCHANGED metering
    PROVE  Intervals'
  <1>1. /\ now \in Nat /\ None \notin Nat
        /\ \A c \in Computers : /\ since[c] \in Nat \cup {None} /\ stored[c] \in Nat \cup {None}
                                /\ since[c] # None => since[c] <= now
        /\ \A w \in chains : w.c \in Computers /\ w.from \in Nat /\ w.to \in Nat
    BY DEF MTypes, Meter!TicksAreCounted, Stretches, Chain
  <1>2. CASE UNCHANGED <<now, since, chains>>
    BY <1>2 DEF Intervals, Apart
  <1>3. CASE Meter!Tick
    <2>1. now' = now + 1 /\ UNCHANGED <<since, chains>>
      BY <1>3 DEF Meter!Tick
    <2> QED
      BY <1>1, <2>1 DEF Intervals
  <1>4. ASSUME NEW c \in Computers, Meter!awake(c) PROVE Intervals'
    <2>1. /\ now' = now /\ chains' = chains
          /\ since' = [since EXCEPT ![c] = IF @ = None THEN now ELSE @]
      BY <1>4 DEF Meter!awake
    <2>2. \A d \in Computers : since'[d] = IF d = c /\ since[d] = None THEN now ELSE since[d]
      BY <2>1 DEF MTypes
    <2> QED
      BY <1>1, <2>1, <2>2 DEF Intervals
  <1>5. ASSUME NEW c \in Computers, Meter!persist(c) \/ Meter!grant(c) PROVE Intervals'
    BY <1>2, <1>5 DEF Meter!persist, Meter!grant
  <1>6. ASSUME NEW c \in Computers, Meter!restart(c) PROVE Intervals'
    <2>1. /\ now' = now /\ since' = [since EXCEPT ![c] = stored[c]]
          /\ chains' = {w \in chains : w.c # c}
      BY <1>6 DEF Meter!restart
    <2>2. \A d \in Computers : d # c => since'[d] = since[d]
      BY <2>1 DEF MTypes
    <2> QED
      BY <1>1, <2>1, <2>2 DEF Intervals
  <1>7. ASSUME NEW c \in Computers, NEW reopen \in BOOLEAN, Meter!closeAwakeStretch(c, reopen)
        PROVE  Intervals'
    <2>1. /\ now' = now /\ since[c] # None
          /\ since' = [since EXCEPT ![c] = IF reopen THEN now ELSE None]
          /\ chains' = IF now > since[c] THEN chains \cup Meter!Closed(c) ELSE chains
      BY <1>7 DEF Meter!closeAwakeStretch
    <2>2. \A d \in Computers : since'[d] = IF d = c THEN IF reopen THEN now ELSE None ELSE since[d]
      BY <2>1 DEF MTypes
    <2>3. \A w \in Meter!Closed(c) : /\ w.c = c /\ w.from = since[c] /\ w.to = now
                                     /\ \A v \in Meter!Closed(c) : w.table = v.table => w = v
      BY DEF Meter!Closed
    <2>4. \A w \in chains' : w \in chains \/ (w \in Meter!Closed(c) /\ now > since[c])
      BY <2>1
    <2>5. \A w \in chains' : /\ w.from < w.to /\ w.to <= now
                             /\ since'[w.c] # None => w.to <= since'[w.c]
      BY <1>1, <2>1, <2>2, <2>3, <2>4 DEF Intervals
    <2>6. \A w \in chains, v \in Meter!Closed(c) : Apart(w, v) /\ Apart(v, w)
      BY <1>1, <2>1, <2>3 DEF Intervals, Apart
    <2>7. \A w, v \in chains' : w # v => Apart(w, v)
      BY <2>3, <2>4, <2>6 DEF Intervals, Apart
    <2> QED
      BY <2>1, <2>5, <2>7 DEF Intervals, Apart
  <1>8. ASSUME NEW w \in chains, Meter!writeFails(w) PROVE Intervals'
    <2>1. chains' = chains \ {w} /\ UNCHANGED <<now, since>>
      BY <1>8 DEF Meter!writeFails
    <2> QED
      BY <2>1 DEF Intervals, Apart
  <1>9. ASSUME NEW w \in chains, Meter!upsert(w) PROVE Intervals'
    <2> DEFINE s == Meter!firstSlice(w.from, w.to)
               u == [w EXCEPT !.from = s.end]
    <2>1. /\ chains' = (chains \ {w}) \cup IF s.end = w.to THEN {} ELSE {u}
          /\ UNCHANGED <<now, since>>
      BY <1>9 DEF Meter!upsert
    <2>2. s.end \in Nat /\ w.from < s.end /\ s.end <= w.to
      <3>1. w.from < w.to /\ w.to <= MaxTime
        BY <1>1 DEF Intervals, MTypes, Meter!TicksAreCounted
      <3> QED
        BY <1>1, <3>1, FirstSlice
    <2>3. w \in Chain
      BY DEF MTypes
    <2>4. u.table = w.table /\ u.c = w.c /\ u.from = s.end /\ u.to = w.to
      BY <2>3 DEF Chain
    <2> HIDE DEF s, u
    <2>5. \A v \in chains' : v \in chains \ {w} \/ (v = u /\ s.end # w.to)
      BY <2>1
    <2>6. \A v \in chains' : /\ v.from < v.to /\ v.to <= now
                             /\ since[v.c] # None => v.to <= since[v.c]
      BY <1>1, <2>2, <2>4, <2>5 DEF Intervals
    <2>7. \A v \in chains \ {w} : Apart(u, v) /\ Apart(v, u)
      BY <1>1, <2>2, <2>4 DEF Intervals, Apart
    <2>8. \A v, x \in chains' : v # x => Apart(v, x)
      BY <2>5, <2>7 DEF Intervals
    <2> QED
      BY <2>1, <2>6, <2>8 DEF Intervals, Apart
  <1>10. CASE UNCHANGED metering
    BY <1>2, <1>10 DEF metering
  <1> QED
    BY <1>3, <1>4, <1>5, <1>6, <1>7, <1>8, <1>9, <1>10 DEF Meter!Next

LEMMA StepMTypes ==
    ASSUME Meter!TicksAreCounted, MTypes, Stretches, Intervals,
           Meter!Next \/ UNCHANGED metering
    PROVE  MTypes'
  <1> DEFINE Record == [Meter!Tables -> [Computers -> [Meter!Months -> Int]]]
             Since == [Computers -> Nat \cup {None}]
  <1>1. /\ now \in 0..MaxTime /\ now \in Nat /\ MaxTime \in Nat
        /\ since \in Since /\ stored \in Since
        /\ IsFiniteSet(chains) /\ chains \subseteq Chain /\ owed \in Record
        /\ period \in [Meter!Months -> Nat] /\ ledger \in [Computers -> [Meter!Months -> Nat]]
    BY DEF MTypes, Meter!TicksAreCounted
  <1>p. ASSUME /\ now' \in 0..MaxTime /\ since' \in Since /\ stored' \in Since
               /\ IsFiniteSet(chains') /\ chains' \subseteq Chain /\ owed' \in Record
               /\ period' \in [Meter!Months -> Nat]
               /\ ledger' \in [Computers -> [Meter!Months -> Nat]]
        PROVE  MTypes'
    BY <1>p DEF MTypes
  <1>2. CASE UNCHANGED metering
    BY <1>1, <1>p, <1>2 DEF metering
  <1>3. CASE Meter!Tick
    <2>1. /\ now < MaxTime /\ now' = now + 1
          /\ owed' = [t \in Meter!Tables |-> [c \in Computers |->
                        IF since[c] = None THEN owed[t][c]
                        ELSE [owed[t][c] EXCEPT ![Meter!currentPeriod(now)] = @ + 1]]]
          /\ UNCHANGED <<since, stored, chains, period, ledger>>
      BY <1>3 DEF Meter!Tick
    <2>2. \A t \in Meter!Tables, c \in Computers :
            /\ owed[t][c] \in [Meter!Months -> Int]
            /\ [owed[t][c] EXCEPT ![Meter!currentPeriod(now)] = @ + 1] \in [Meter!Months -> Int]
      <3>1. ASSUME NEW f \in [Meter!Months -> Int], NEW k
            PROVE  [f EXCEPT ![k] = @ + 1] \in [Meter!Months -> Int]
        <4>1. \A m \in Meter!Months : f[m] \in Int
          OBVIOUS
        <4>2. CASE k \in Meter!Months
          BY <4>1, <4>2
        <4>3. CASE k \notin Meter!Months
          <5>1. [f EXCEPT ![k] = @ + 1] = f
            BY <4>3
          <5> QED
            BY <5>1
        <4> QED
          BY <4>2, <4>3
      <3> QED
        BY <1>1, <3>1
    <2>3. owed' \in Record
      BY <2>1, <2>2
    <2>4. now' \in 0..MaxTime
      BY <1>1, <2>1
    <2> HIDE DEF Record, Since
    <2> QED
      BY <1>1, <1>p, <2>1, <2>3, <2>4
  <1>4. ASSUME NEW c \in Computers, Meter!awake(c) PROVE MTypes'
    <2>1. /\ since' = [since EXCEPT ![c] = IF @ = None THEN now ELSE @]
          /\ stored' = [stored EXCEPT ![c] = since'[c]]
          /\ UNCHANGED <<now, chains, period, ledger, owed>>
      BY <1>4 DEF Meter!awake
    <2>2. since' \in Since
      BY <1>1, <2>1
    <2>3. since'[c] \in Nat \cup {None}
      BY <2>2
    <2>4. stored' \in Since
      BY <1>1, <2>1, <2>3
    <2> HIDE DEF Record, Since
    <2> QED
      BY <1>1, <1>p, <2>1, <2>2, <2>4
  <1>5. ASSUME NEW c \in Computers, Meter!persist(c) PROVE MTypes'
    <2>1. /\ stored' = [stored EXCEPT ![c] = since[c]]
          /\ UNCHANGED <<now, since, chains, period, ledger, owed>>
      BY <1>5 DEF Meter!persist
    <2>2. since[c] \in Nat \cup {None}
      BY <1>1
    <2>3. stored' \in Since
      BY <1>1, <2>1, <2>2
    <2> HIDE DEF Record, Since
    <2> QED
      BY <1>1, <1>p, <2>1, <2>3
  <1>6. ASSUME NEW c \in Computers, Meter!grant(c) PROVE MTypes'
    <2>1. UNCHANGED <<now, since, stored, chains, period, ledger, owed>>
      BY <1>6 DEF Meter!grant
    <2> HIDE DEF Record, Since
    <2> QED
      BY <1>1, <1>p, <2>1
  <1>7. ASSUME NEW c \in Computers, Meter!restart(c) PROVE MTypes'
    <2> DEFINE mine == {w \in chains : w.c = c}
               again == IF stored[c] = None THEN now ELSE stored[c]
               upto == IF since[c] = None THEN now ELSE since[c]
               val(t, m) == owed[t][c][m] + Meter!TicksIn(m, again, upto)
                              - Meter!InChains({w \in mine : w.table = t}, m)
    <2>1. /\ since' = [since EXCEPT ![c] = stored[c]] /\ chains' = chains \ mine
          /\ owed' = [t \in Meter!Tables |->
                        [owed[t] EXCEPT ![c] = [m \in Meter!Months |->
                           @[m] + Meter!TicksIn(m, again, upto)
                             - Meter!InChains({w \in mine : w.table = t}, m)]]]
          /\ UNCHANGED <<now, stored, period, ledger>>
      BY <1>7 DEF Meter!restart
    <2>2. again \in Nat /\ upto \in Nat /\ stored[c] \in Nat \cup {None}
      BY <1>1
    <2>3. since' \in Since
      BY <1>1, <2>1, <2>2
    <2>4. IsFiniteSet(chains') /\ chains' \subseteq Chain
      BY <1>1, <2>1, FS_Difference
    <2> HIDE DEF again, upto
    <2>5. ASSUME NEW t \in Meter!Tables, NEW m \in Meter!Months PROVE val(t, m) \in Int
      <3>1. {w \in mine : w.table = t} \subseteq chains
        OBVIOUS
      <3> DEFINE U == {w \in mine : w.table = t}
      <3> HIDE DEF U
      <3>2. IsFiniteSet(U) /\ U \subseteq Chain
        BY <1>1, <3>1, FS_Subset DEF U
      <3>3. Meter!InChains(U, m) \in Nat
        BY <3>2, ChainsCounted
      <3>4. Meter!TicksIn(m, again, upto) \in Nat
        BY <2>2, TicksAreCountable
      <3>5. owed[t][c][m] \in Int
        BY <1>1
      <3> QED
        BY <3>3, <3>4, <3>5 DEF U
    <2>6. owed' = [t \in Meter!Tables |->
                     [owed[t] EXCEPT ![c] = [m \in Meter!Months |-> val(t, m)]]]
      BY <1>1, <2>1
    <2> HIDE DEF val
    <2>7. \A t \in Meter!Tables : [m \in Meter!Months |-> val(t, m)] \in [Meter!Months -> Int]
      BY <2>5
    <2>8. \A t \in Meter!Tables : owed[t] \in [Computers -> [Meter!Months -> Int]]
      BY <1>1
    <2>9. owed' \in Record
      BY <2>6, <2>7, <2>8
    <2> HIDE DEF Record, Since
    <2> QED
      BY <1>1, <1>p, <2>1, <2>3, <2>4, <2>9
  <1>8. ASSUME NEW c \in Computers, NEW reopen \in BOOLEAN, Meter!closeAwakeStretch(c, reopen)
        PROVE  MTypes'
    <2>1. /\ since' = [since EXCEPT ![c] = IF reopen THEN now ELSE None]
          /\ since[c] # None
          /\ chains' = IF now > since[c] THEN chains \cup Meter!Closed(c) ELSE chains
          /\ UNCHANGED <<now, stored, period, ledger, owed>>
      BY <1>8 DEF Meter!closeAwakeStretch
    <2>2. since' \in Since
      BY <1>1, <2>1
    <2>3. since[c] \in Nat
      BY <1>1, <2>1
    <2> DEFINE shut(t) == [table |-> t, c |-> c, from |-> since[c], to |-> now]
    <2>4. Meter!Closed(c) = {shut("usage_period")} \cup {shut("usage_ledger")}
      BY DEF Meter!Closed, Meter!Tables
    <2>5. IsFiniteSet(Meter!Closed(c))
      <3> HIDE DEF shut
      <3> QED
        <4>1. /\ IsFiniteSet({shut("usage_period")}) /\ IsFiniteSet({shut("usage_ledger")})
          BY FS_Singleton
        <4>2. IsFiniteSet({shut("usage_period")} \cup {shut("usage_ledger")})
          BY <4>1, FS_Union
        <4> QED
          BY <2>4, <4>2
    <2>6. Meter!Closed(c) \subseteq Chain
      BY <1>1, <2>3 DEF Meter!Closed, Chain
    <2>7. IsFiniteSet(chains') /\ chains' \subseteq Chain
      BY <1>1, <2>1, <2>5, <2>6, FS_Union
    <2> HIDE DEF Record, Since
    <2> QED
      BY <1>1, <1>p, <2>1, <2>2, <2>7
  <1>9. ASSUME NEW w \in chains, Meter!writeFails(w) PROVE MTypes'
    <2>1. /\ chains' = chains \ {w}
          /\ owed' = [owed EXCEPT ![w.table][w.c] =
                        [m \in Meter!Months |-> @[m] - Meter!TicksIn(m, w.from, w.to)]]
          /\ UNCHANGED <<now, since, stored, period, ledger>>
      BY <1>9 DEF Meter!writeFails
    <2>2. w \in Chain /\ w.table \in Meter!Tables /\ w.c \in Computers
      BY <1>1 DEF Chain
    <2> DEFINE val(m) == owed[w.table][w.c][m] - Meter!TicksIn(m, w.from, w.to)
    <2>3. \A m \in Meter!Months : val(m) \in Int
      <3>1. \A m \in Meter!Months : Meter!TicksIn(m, w.from, w.to) \in Nat
        BY <1>1, <2>2, ChainsCounted
      <3>2. \A m \in Meter!Months : owed[w.table][w.c][m] \in Int
        BY <1>1, <2>2
      <3> QED
        BY <3>1, <3>2
    <2>4. owed' = [owed EXCEPT ![w.table][w.c] = [m \in Meter!Months |-> val(m)]]
      BY <1>1, <2>1, <2>2
    <2> HIDE DEF val
    <2>5. [m \in Meter!Months |-> val(m)] \in [Meter!Months -> Int]
      BY <2>3
    <2>6. owed' \in Record
      BY <1>1, <2>2, <2>4, <2>5
    <2>7. IsFiniteSet(chains') /\ chains' \subseteq Chain
      BY <1>1, <2>1, FS_RemoveElement
    <2> HIDE DEF Record, Since
    <2> QED
      BY <1>1, <1>p, <2>1, <2>6, <2>7
  <1>10. ASSUME NEW w \in chains, Meter!upsert(w) PROVE MTypes'
    <2> DEFINE s == Meter!firstSlice(w.from, w.to)
               u == [w EXCEPT !.from = s.end]
    <2>1. /\ chains' = (chains \ {w}) \cup IF s.end = w.to THEN {} ELSE {u}
          /\ \/ UNCHANGED ledger /\ period' = [period EXCEPT ![s.month] = @ + s.end - w.from]
             \/ UNCHANGED period /\ ledger' = [ledger EXCEPT ![w.c][s.month] = @ + s.end - w.from]
          /\ UNCHANGED <<now, since, stored, owed>>
      BY <1>10 DEF Meter!upsert, Meter!accumulateUsage, Meter!recordUsage
    <2>2. w \in Chain /\ w.c \in Computers /\ w.from \in Nat /\ w.to \in Nat
      BY <1>1 DEF Chain
    <2>3. s.end \in Nat /\ w.from < s.end /\ s.month \in Meter!Months
      <3>1. w.from < w.to /\ w.to <= MaxTime
        BY <1>1, <2>2 DEF Intervals
      <3> QED
        BY <2>2, <3>1, FirstSlice
    <2>4. u \in Chain
      BY <2>2, <2>3 DEF Chain
    <2> HIDE DEF s, u
    <2>5. IsFiniteSet(chains \ {w}) /\ IsFiniteSet({u}) /\ IsFiniteSet({})
      BY <1>1, FS_RemoveElement, FS_Singleton, FS_EmptySet
    <2>6. IsFiniteSet(chains') /\ chains' \subseteq Chain
      <3>1. CASE s.end = w.to
        BY <1>1, <2>1, <2>5, <3>1
      <3>2. CASE s.end # w.to
        BY <1>1, <2>1, <2>4, <2>5, <3>2, FS_Union
      <3> QED
        BY <3>1, <3>2
    <2>7. period' \in [Meter!Months -> Nat] /\ ledger' \in [Computers -> [Meter!Months -> Nat]]
      <3>1. CASE UNCHANGED ledger /\ period' = [period EXCEPT ![s.month] = @ + s.end - w.from]
        <4>1. period[s.month] + s.end - w.from \in Nat
          BY <1>1, <2>2, <2>3
        <4> QED
          BY <1>1, <3>1, <4>1
      <3>2. CASE UNCHANGED period /\ ledger' = [ledger EXCEPT ![w.c][s.month] = @ + s.end - w.from]
        <4>1. ledger[w.c][s.month] + s.end - w.from \in Nat
          BY <1>1, <2>2, <2>3
        <4> QED
          BY <1>1, <2>2, <3>2, <4>1
      <3> QED
        BY <2>1, <3>1, <3>2
    <2> HIDE DEF Record, Since
    <2> QED
      BY <1>1, <1>p, <2>1, <2>6, <2>7
  <1> QED
    BY <1>2, <1>3, <1>4, <1>5, <1>6, <1>7, <1>8, <1>9, <1>10 DEF Meter!Next

-----------------------------------------------------------------------------
(* What is settled: owed, and neither in the open stretch nor on its way.   *)

Opened(x, n, m) == IF x = None THEN 0 ELSE Meter!TicksIn(m, x, n)
SettledAt(o, x, n, W, t, c, m) == o[t][c][m] - (Opened(x[c], n, m) + OnTheWay(W, t, c, m))

LEMMA SettledIs ==
    /\ \A t, c, m : Meter!Settled(t, c, m) = SettledAt(owed, since, now, chains, t, c, m)
    /\ \A t, c, m : (Meter!Settled(t, c, m))'
                      = SettledAt(owed', since', now', chains', t, c, m)
  <1>1. \A t, c, m : Meter!Settled(t, c, m) = SettledAt(owed, since, now, chains, t, c, m)
    BY DEF Meter!Settled, Meter!Open, Meter!Pending, SettledAt, Opened, OnTheWay, ChainsOf
  <1>2. \A t, c, m : (Meter!Settled(t, c, m))'
                       = SettledAt(owed', since', now', chains', t, c, m)
    BY DEF Meter!Settled, Meter!Open, Meter!Pending, SettledAt, Opened, OnTheWay, ChainsOf
  <1> QED
    BY <1>1, <1>2

(* What is settled changes only where an interval is charged.               *)
Stays == /\ \A t \in Meter!Tables, c \in Computers, m \in Meter!Months :
              SettledAt(owed', since', now', chains', t, c, m)
                = SettledAt(owed, since, now, chains, t, c, m)
         /\ UNCHANGED <<period, ledger>>

LEMMA OtherStepsStay ==
    ASSUME Meter!TicksAreCounted, MTypes, Stretches, Intervals,
           Meter!Next \/ UNCHANGED metering, \A w \in chains : ~Meter!upsert(w)
    PROVE  Stays
  <1>1. /\ now \in Nat /\ None \notin Nat
        /\ IsFiniteSet(chains) /\ chains \subseteq Chain
        /\ owed \in [Meter!Tables -> [Computers -> [Meter!Months -> Int]]]
        /\ \A c \in Computers : since[c] \in Nat \cup {None} /\ stored[c] \in Nat \cup {None}
        /\ since \in [Computers -> Nat \cup {None}] /\ stored \in [Computers -> Nat \cup {None}]
    BY DEF MTypes, Meter!TicksAreCounted
  <1>2. \A c \in Computers : /\ stored[c] # None => stored[c] <= now
                             /\ since[c] # None => /\ stored[c] # None
                                                   /\ stored[c] <= since[c]
                                                   /\ since[c] <= now
    BY DEF Stretches
  <1>3. \A t, c, m : OnTheWay(chains, t, c, m) \in Nat
    BY <1>1, WayIsCounted
  <1>4. \A c \in Computers : \A m : Opened(since[c], now, m) \in Nat
    BY <1>1, TicksAreCountable DEF Opened
  <1>5. \A t \in Meter!Tables, c \in Computers, m \in Meter!Months : owed[t][c][m] \in Int
    BY <1>1
  <1>6. CASE UNCHANGED <<owed, since, now, chains, period, ledger>>
    BY <1>6 DEF Stays
  <1>7. CASE UNCHANGED metering
    BY <1>6, <1>7 DEF metering
  <1>8. ASSUME NEW c \in Computers, Meter!grant(c) \/ Meter!persist(c) PROVE Stays
    BY <1>6, <1>8 DEF Meter!grant, Meter!persist
  <1>9. CASE Meter!Tick
    <2>1. /\ now' = now + 1 /\ UNCHANGED <<since, chains, period, ledger>>
          /\ owed' = [t \in Meter!Tables |-> [c \in Computers |->
                        IF since[c] = None THEN owed[t][c]
                        ELSE [owed[t][c] EXCEPT ![Meter!currentPeriod(now)] = @ + 1]]]
      BY <1>9 DEF Meter!Tick
    <2>2. SUFFICES ASSUME NEW t \in Meter!Tables, NEW c \in Computers, NEW m \in Meter!Months
                   PROVE  SettledAt(owed', since', now', chains', t, c, m)
                            = SettledAt(owed, since, now, chains, t, c, m)
      BY <2>1 DEF Stays
    <2>3. owed'[t][c] = IF since[c] = None THEN owed[t][c]
                        ELSE [owed[t][c] EXCEPT ![Meter!currentPeriod(now)] = @ + 1]
      BY <2>1
    <2>4. CASE since[c] = None
      BY <2>1, <2>3, <2>4 DEF SettledAt, Opened
    <2>5. CASE since[c] # None
      <3>1. owed[t][c] \in [Meter!Months -> Int]
        BY <1>1
      <3>2. owed'[t][c][m] = owed[t][c][m] + (IF Meter!currentPeriod(now) = m THEN 1 ELSE 0)
        BY <2>3, <2>5, <3>1
      <3>3. /\ Meter!TicksIn(m, since[c], now + 1)
                 = Meter!TicksIn(m, since[c], now) + Meter!TicksIn(m, now, now + 1)
            /\ Meter!TicksIn(m, now, now + 1) = IF Meter!currentPeriod(now) = m THEN 1 ELSE 0
        <4>1. since[c] \in Nat /\ since[c] <= now /\ now <= now + 1 /\ now + 1 \in Nat
          BY <1>1, <1>2, <2>5
        <4> QED
          BY <1>1, <4>1, TicksAdd, OneTick
      <3>4. /\ Opened(since[c], now, m) = Meter!TicksIn(m, since[c], now)
            /\ Opened(since'[c], now', m) = Meter!TicksIn(m, since[c], now + 1)
        BY <2>1, <2>5 DEF Opened
      <3>5. Opened(since[c], now, m) \in Nat /\ OnTheWay(chains, t, c, m) \in Nat
            /\ owed[t][c][m] \in Int
        BY <1>3, <1>4, <1>5
      <3>6. OnTheWay(chains', t, c, m) = OnTheWay(chains, t, c, m)
        BY <2>1
      <3> DEFINE one == IF Meter!currentPeriod(now) = m THEN 1 ELSE 0
      <3>7. one \in Nat
        OBVIOUS
      <3> HIDE DEF one
      <3>8. /\ owed'[t][c][m] = owed[t][c][m] + one
            /\ Opened(since'[c], now', m) = Opened(since[c], now, m) + one
        BY <3>2, <3>3, <3>4 DEF one
      <3> QED
        BY <3>5, <3>6, <3>7, <3>8 DEF SettledAt
    <2> QED
      BY <2>4, <2>5
  <1>10. ASSUME NEW d \in Computers, Meter!awake(d) PROVE Stays
    <2>1. /\ since' = [since EXCEPT ![d] = IF @ = None THEN now ELSE @]
          /\ UNCHANGED <<now, chains, period, ledger, owed>>
      BY <1>10 DEF Meter!awake
    <2>2. SUFFICES ASSUME NEW t \in Meter!Tables, NEW c \in Computers, NEW m \in Meter!Months
                   PROVE  SettledAt(owed', since', now', chains', t, c, m)
                            = SettledAt(owed, since, now, chains, t, c, m)
      BY <2>1 DEF Stays
    <2>3. since'[c] = IF c = d /\ since[c] = None THEN now ELSE since[c]
      BY <1>1, <2>1
    <2>4. Meter!TicksIn(m, now, now) = 0
      BY <1>1, NoTicks
    <2>5. Opened(since'[c], now, m) = Opened(since[c], now, m)
      BY <1>1, <2>3, <2>4 DEF Opened
    <2> QED
      BY <2>1, <2>5 DEF SettledAt
  <1>11. ASSUME NEW d \in Computers, NEW reopen \in BOOLEAN, Meter!closeAwakeStretch(d, reopen)
         PROVE  Stays
    <2>1. /\ since[d] # None /\ since' = [since EXCEPT ![d] = IF reopen THEN now ELSE None]
          /\ chains' = IF now > since[d] THEN chains \cup Meter!Closed(d) ELSE chains
          /\ UNCHANGED <<now, period, ledger, owed>>
      BY <1>11 DEF Meter!closeAwakeStretch
    <2>2. SUFFICES ASSUME NEW t \in Meter!Tables, NEW c \in Computers, NEW m \in Meter!Months
                   PROVE  SettledAt(owed', since', now', chains', t, c, m)
                            = SettledAt(owed, since, now, chains, t, c, m)
      BY <2>1 DEF Stays
    <2>3. since[d] \in Nat /\ since[d] <= now
      BY <1>1, <1>2, <2>1
    <2>4. since'[c] = IF c = d THEN IF reopen THEN now ELSE None ELSE since[c]
      BY <1>1, <2>1
    <2>5. Meter!TicksIn(m, now, now) = 0
      BY <1>1, NoTicks
    <2>6. /\ c = d => Opened(since'[c], now, m) = 0
          /\ c = d => Opened(since[c], now, m) = Meter!TicksIn(m, since[d], now)
          /\ c # d => Opened(since'[c], now, m) = Opened(since[c], now, m)
      BY <1>1, <2>1, <2>4, <2>5 DEF Opened
    <2>7. OnTheWay(chains', t, c, m)
            = OnTheWay(chains, t, c, m) + (IF c = d THEN Meter!TicksIn(m, since[d], now) ELSE 0)
      <3>1. CASE now > since[d]
        <4> DEFINE w1 == [table |-> "usage_period", c |-> d, from |-> since[d], to |-> now]
                   w2 == [table |-> "usage_ledger", c |-> d, from |-> since[d], to |-> now]
                   X == chains \cup {w1}
                   ticks == Meter!TicksIn(m, since[d], now)
        <4>1. /\ w1 \in Chain /\ w2 \in Chain /\ w1 # w2
              /\ Meter!Closed(d) = {w1} \cup {w2}
          BY <1>1, <2>3 DEF Chain, Meter!Closed, Meter!Tables
        <4>2. w1 \notin chains /\ w2 \notin chains
          <5>1. ASSUME NEW v \in chains, v.c = d, v.to = now, v.from = since[d] PROVE FALSE
            BY <1>1, <2>1, <2>3, <3>1, <5>1 DEF Intervals
          <5>2. /\ w1.c = d /\ w1.to = now /\ w1.from = since[d]
                /\ w2.c = d /\ w2.to = now /\ w2.from = since[d]
            OBVIOUS
          <5> HIDE DEF w1, w2
          <5> QED
            BY <5>1, <5>2
        <4>3. w2 \notin X
          BY <4>1, <4>2
        <4>4. chains' = X \cup {w2}
          BY <2>1, <3>1, <4>1
        <4>5. ticks \in Nat /\ OnTheWay(chains, t, c, m) \in Nat
          BY <1>1, <1>3, <2>3, TicksAreCountable
        <4>6. /\ Share(w1, t, c, m) = IF t = "usage_period" /\ c = d THEN ticks ELSE 0
              /\ Share(w2, t, c, m) = IF t = "usage_ledger" /\ c = d THEN ticks ELSE 0
              /\ t \in {"usage_period", "usage_ledger"}
          BY DEF Share, Meter!Tables
        <4> HIDE DEF w1, w2, X, ticks
        <4>7. /\ IsFiniteSet(X) /\ X \subseteq Chain
              /\ OnTheWay(X, t, c, m) = Plus(OnTheWay(chains, t, c, m), Share(w1, t, c, m))
          <5>1. /\ IsFiniteSet(chains \cup {w1}) /\ chains \cup {w1} \subseteq Chain
                /\ OnTheWay(chains \cup {w1}, t, c, m)
                     = Plus(OnTheWay(chains, t, c, m), Share(w1, t, c, m))
            <6>1. IsFiniteSet(chains \cup {w1}) /\ chains \cup {w1} \subseteq Chain
              BY <1>1, <4>1, FinitelyMore
            <6>2. OnTheWay(chains \cup {w1}, t, c, m)
                    = Plus(OnTheWay(chains, t, c, m), Share(w1, t, c, m))
              BY <1>1, <4>1, <4>2, Added
            <6> QED
              BY <6>1, <6>2
          <5> QED
            BY <5>1 DEF X
        <4>8. OnTheWay(chains', t, c, m) = Plus(OnTheWay(X, t, c, m), Share(w2, t, c, m))
          BY <4>1, <4>3, <4>4, <4>7, Added
        <4>9. OnTheWay(chains', t, c, m)
                = OnTheWay(chains, t, c, m) + (IF c = d THEN ticks ELSE 0)
          <5>1. CASE c # d
            BY <4>5, <4>6, <4>7, <4>8, <5>1 DEF Plus
          <5>2. CASE c = d
            BY <4>5, <4>6, <4>7, <4>8, <5>2 DEF Plus
          <5> QED
            BY <5>1, <5>2
        <4> QED
          BY <4>9 DEF ticks
      <3>2. CASE ~(now > since[d])
        <4>1. now <= since[d] /\ chains' = chains
          BY <1>1, <2>1, <2>3, <3>2
        <4>2. Meter!TicksIn(m, since[d], now) = 0
          BY <1>1, <2>3, <4>1, NoTicks
        <4>3. OnTheWay(chains, t, c, m) \in Nat
          BY <1>3
        <4> QED
          BY <4>1, <4>2, <4>3
      <3> QED
        BY <3>1, <3>2
    <2>8. /\ OnTheWay(chains, t, c, m) \in Nat /\ owed[t][c][m] \in Int
          /\ Opened(since[c], now, m) \in Nat
      BY <1>3, <1>4, <1>5
    <2>9. Opened(since'[c], now, m) + OnTheWay(chains', t, c, m)
            = Opened(since[c], now, m) + OnTheWay(chains, t, c, m)
      <3>1. CASE c = d
        BY <2>6, <2>7, <2>8, <3>1
      <3>2. CASE c # d
        BY <2>6, <2>7, <2>8, <3>2
      <3> QED
        BY <3>1, <3>2
    <2> QED
      BY <2>1, <2>9 DEF SettledAt
  <1>12. ASSUME NEW d \in Computers, Meter!restart(d) PROVE Stays
    <2> DEFINE mine == {w \in chains : w.c = d}
               again == IF stored[d] = None THEN now ELSE stored[d]
               upto == IF since[d] = None THEN now ELSE since[d]
    <2>1. /\ since' = [since EXCEPT ![d] = stored[d]] /\ chains' = chains \ mine
          /\ owed' = [t \in Meter!Tables |->
                        [owed[t] EXCEPT ![d] = [m \in Meter!Months |->
                           @[m] + Meter!TicksIn(m, again, upto)
                             - Meter!InChains({w \in mine : w.table = t}, m)]]]
          /\ UNCHANGED <<now, period, ledger>>
      BY <1>12 DEF Meter!restart
    <2>2. SUFFICES ASSUME NEW t \in Meter!Tables, NEW c \in Computers, NEW m \in Meter!Months
                   PROVE  SettledAt(owed', since', now', chains', t, c, m)
                            = SettledAt(owed, since, now, chains, t, c, m)
      BY <2>1 DEF Stays
    <2>3. since'[c] = IF c = d THEN stored[d] ELSE since[c]
      BY <1>1, <2>1
    <2>4. owed[t] \in [Computers -> [Meter!Months -> Int]]
      BY <1>1
    <2>5. CASE c # d
      <3>1. owed'[t][c] = owed[t][c]
        BY <2>1, <2>4, <2>5
      <3>2. ChainsOf(chains', t, c) = ChainsOf(chains, t, c)
        BY <2>1, <2>5 DEF ChainsOf
      <3> QED
        BY <2>1, <2>3, <2>5, <3>1, <3>2 DEF SettledAt, OnTheWay
    <2>6. CASE c = d
      <3>1. {w \in mine : w.table = t} = ChainsOf(chains, t, d)
        BY DEF ChainsOf
      <3>2. ChainsOf(chains', t, d) = {}
        BY <2>1 DEF ChainsOf
      <3>3. OnTheWay(chains', t, d, m) = 0
        BY <3>2, NoChains DEF OnTheWay
      <3> HIDE DEF mine, again, upto
      <3>4. owed'[t][d][m] = owed[t][d][m] + Meter!TicksIn(m, again, upto)
                               - OnTheWay(chains, t, d, m)
        BY <2>1, <2>4, <3>1 DEF OnTheWay
      <3>5. again \in Nat /\ upto \in Nat
        BY <1>1 DEF again, upto
      <3>6. Meter!TicksIn(m, again, upto) + Opened(since[d], now, m) = Opened(stored[d], now, m)
        <4>1. CASE since[d] # None
          <5>1. /\ again = stored[d] /\ upto = since[d] /\ stored[d] \in Nat /\ since[d] \in Nat
                /\ stored[d] <= since[d] /\ since[d] <= now /\ stored[d] # None
            BY <1>1, <1>2, <4>1 DEF again, upto
          <5>2. Meter!TicksIn(m, stored[d], now)
                  = Meter!TicksIn(m, stored[d], since[d]) + Meter!TicksIn(m, since[d], now)
            BY <1>1, <5>1, TicksAdd
          <5> QED
            BY <4>1, <5>1, <5>2 DEF Opened
        <4>2. CASE since[d] = None /\ stored[d] # None
          <5>1. again = stored[d] /\ upto = now
            BY <4>2 DEF again, upto
          <5>2. Meter!TicksIn(m, again, upto) \in Nat
            BY <3>5, TicksAreCountable
          <5> QED
            BY <4>2, <5>1, <5>2 DEF Opened
        <4>3. CASE since[d] = None /\ stored[d] = None
          <5>1. again = now /\ upto = now
            BY <4>3 DEF again, upto
          <5>2. Meter!TicksIn(m, again, upto) = 0
            BY <1>1, <5>1, NoTicks
          <5> QED
            BY <4>3, <5>2 DEF Opened
        <4> QED
          BY <4>1, <4>2, <4>3
      <3>7. /\ OnTheWay(chains, t, d, m) \in Nat /\ owed[t][d][m] \in Int
            /\ Opened(since[d], now, m) \in Nat /\ Meter!TicksIn(m, again, upto) \in Nat
        BY <1>3, <1>4, <1>5, <3>5, TicksAreCountable
      <3>8. since'[d] = stored[d] /\ now' = now
        BY <2>1, <2>3, <2>6
      <3>9. SettledAt(owed', since', now', chains', t, d, m)
              = owed'[t][d][m] - (Opened(stored[d], now, m) + OnTheWay(chains', t, d, m))
        BY <3>8 DEF SettledAt
      <3>10. SettledAt(owed, since, now, chains, t, d, m)
               = owed[t][d][m] - (Opened(since[d], now, m) + OnTheWay(chains, t, d, m))
        BY DEF SettledAt
      <3> QED
        BY <2>6, <3>3, <3>4, <3>6, <3>7, <3>9, <3>10
    <2> QED
      BY <2>5, <2>6
  <1>13. ASSUME NEW w \in chains, Meter!writeFails(w) PROVE Stays
    <2>1. /\ chains' = chains \ {w}
          /\ owed' = [owed EXCEPT ![w.table][w.c] =
                        [m \in Meter!Months |-> @[m] - Meter!TicksIn(m, w.from, w.to)]]
          /\ UNCHANGED <<now, since, period, ledger>>
      BY <1>13 DEF Meter!writeFails
    <2>2. SUFFICES ASSUME NEW t \in Meter!Tables, NEW c \in Computers, NEW m \in Meter!Months
                   PROVE  SettledAt(owed', since', now', chains', t, c, m)
                            = SettledAt(owed, since, now, chains, t, c, m)
      BY <2>1 DEF Stays
    <2>3. w.table \in Meter!Tables /\ w.c \in Computers
      BY <1>1 DEF Chain
    <2>4. owed'[t][c][m] = owed[t][c][m] - Share(w, t, c, m)
      <3>1. CASE t = w.table /\ c = w.c
        <4>1. owed'[t][c] = [k \in Meter!Months |-> owed[t][c][k] - Meter!TicksIn(k, w.from, w.to)]
          BY <1>1, <2>1, <2>3, <3>1
        <4> QED
          BY <3>1, <4>1 DEF Share
      <3>2. CASE ~(t = w.table /\ c = w.c)
        <4>1. owed'[t][c] = owed[t][c]
          BY <1>1, <2>1, <2>3, <3>2
        <4>2. Share(w, t, c, m) = 0
          BY <3>2 DEF Share
        <4> QED
          BY <1>5, <4>1, <4>2
      <3> QED
        BY <3>1, <3>2
    <2>5. /\ OnTheWay(chains', t, c, m) = OnTheWay(chains, t, c, m) - Share(w, t, c, m)
          /\ Share(w, t, c, m) \in Nat /\ OnTheWay(chains, t, c, m) \in Nat
      <3>1. /\ OnTheWay(chains, t, c, m)
                 = Plus(OnTheWay(chains \ {w}, t, c, m), Share(w, t, c, m))
            /\ OnTheWay(chains \ {w}, t, c, m) \in Nat
            /\ Share(w, t, c, m) \in Nat /\ OnTheWay(chains, t, c, m) \in Nat
        <4>1. /\ OnTheWay(chains \ {w}, t, c, m) \in Nat /\ OnTheWay(chains, t, c, m) \in Nat
              /\ Share(w, t, c, m) \in Nat
          BY <1>1, ChainDropped
        <4>2. OnTheWay(chains, t, c, m) = Plus(OnTheWay(chains \ {w}, t, c, m), Share(w, t, c, m))
          BY <1>1, Dropped
        <4> QED
          BY <4>1, <4>2
      <3> QED
        BY <2>1, <3>1 DEF Plus
    <2>6. Opened(since[c], now, m) \in Nat /\ owed[t][c][m] \in Int
      BY <1>4, <1>5
    <2>7. Opened(since'[c], now', m) = Opened(since[c], now, m)
      BY <2>1
    <2> QED
      BY <2>4, <2>5, <2>6, <2>7 DEF SettledAt
  <1> QED
    BY <1>7, <1>8, <1>9, <1>10, <1>11, <1>12, <1>13 DEF Meter!Next

(* The charge of a slice settles it.                                        *)
LEMMA ChargeSettles ==
    ASSUME Meter!TicksAreCounted, MTypes, Stretches, Intervals,
           NEW w \in chains, Meter!upsert(w)
    PROVE  LET s == Meter!firstSlice(w.from, w.to)
           IN  /\ w.table \in Meter!Tables /\ w.c \in Computers /\ s.month \in Meter!Months
               /\ s.end - w.from \in Nat
               /\ \A t \in Meter!Tables, c \in Computers, m \in Meter!Months :
                    SettledAt(owed', since', now', chains', t, c, m)
                      = Plus(SettledAt(owed, since, now, chains, t, c, m),
                             IF t = w.table /\ c = w.c /\ m = s.month THEN s.end - w.from ELSE 0)
  <1> DEFINE s == Meter!firstSlice(w.from, w.to)
             u == [w EXCEPT !.from = s.end]
             V == chains \ {w}
  <1>1. /\ now \in Nat /\ IsFiniteSet(chains) /\ chains \subseteq Chain
        /\ \A t \in Meter!Tables, c \in Computers, m \in Meter!Months : owed[t][c][m] \in Int
        /\ \A c \in Computers : since[c] \in Nat \cup {None}
    BY DEF MTypes
  <1>2. /\ chains' = V \cup IF s.end = w.to THEN {} ELSE {u}
        /\ UNCHANGED <<now, since, owed>>
    BY DEF Meter!upsert
  <1>3. /\ w \in Chain /\ w.c \in Computers /\ w.table \in Meter!Tables
        /\ w.from \in Nat /\ w.to \in Nat
    BY <1>1 DEF Chain
  <1>4. /\ s.end \in Nat /\ w.from < s.end /\ s.end <= w.to /\ s.month \in Meter!Months
        /\ \A m : Meter!TicksIn(m, w.from, s.end) = IF m = s.month THEN s.end - w.from ELSE 0
    <2>1. w.from < w.to /\ w.to <= MaxTime
      BY <1>3 DEF Intervals, MTypes, Meter!TicksAreCounted
    <2> QED
      BY <1>3, <2>1, FirstSlice
  <1>5. u \in Chain /\ u.table = w.table /\ u.c = w.c /\ u.from = s.end /\ u.to = w.to
    BY <1>3, <1>4 DEF Chain
  <1> HIDE DEF s, u
  <1>6. ASSUME s.end # w.to PROVE u \notin V
    <2>1. SUFFICES ASSUME u \in chains, u # w PROVE FALSE
      BY DEF V
    <2>2. u.to <= w.from \/ w.to <= u.from
      BY <1>5, <2>1 DEF Intervals, Apart
    <2> QED
      BY <1>3, <1>4, <1>5, <1>6, <2>2
  <1>7. SUFFICES ASSUME NEW t \in Meter!Tables, NEW c \in Computers, NEW m \in Meter!Months
                 PROVE  SettledAt(owed', since', now', chains', t, c, m)
                          = Plus(SettledAt(owed, since, now, chains, t, c, m),
                                 IF t = w.table /\ c = w.c /\ m = s.month
                                 THEN s.end - w.from ELSE 0)
    BY <1>3, <1>4 DEF s
  <1>8. /\ IsFiniteSet(V) /\ V \subseteq Chain
        /\ OnTheWay(V, t, c, m) \in Nat /\ OnTheWay(chains, t, c, m) \in Nat
        /\ Share(w, t, c, m) \in Nat
        /\ OnTheWay(chains, t, c, m) = Plus(OnTheWay(V, t, c, m), Share(w, t, c, m))
    <2>1. /\ IsFiniteSet(V) /\ V \subseteq Chain
          /\ OnTheWay(V, t, c, m) \in Nat /\ OnTheWay(chains, t, c, m) \in Nat
          /\ Share(w, t, c, m) \in Nat
      BY <1>1, ChainDropped
    <2>2. OnTheWay(chains, t, c, m) = Plus(OnTheWay(V, t, c, m), Share(w, t, c, m))
      BY <1>1, Dropped
    <2> QED
      BY <2>1, <2>2
  <1> DEFINE gone == IF t = w.table /\ c = w.c /\ m = s.month THEN s.end - w.from ELSE 0
             more == IF t = w.table /\ c = w.c THEN Meter!TicksIn(m, s.end, w.to) ELSE 0
  <1> HIDE DEF V
  <1>9. /\ gone \in Nat /\ more \in Nat
        /\ Share(w, t, c, m) = gone + more
    <2>1. Meter!TicksIn(m, w.from, w.to)
            = Meter!TicksIn(m, w.from, s.end) + Meter!TicksIn(m, s.end, w.to)
      BY <1>3, <1>4, TicksAdd
    <2>2. Meter!TicksIn(m, s.end, w.to) \in Nat /\ s.end - w.from \in Nat
      BY <1>3, <1>4, TicksAreCountable
    <2> QED
      BY <1>4, <2>1, <2>2 DEF Share
  <1>10. OnTheWay(chains', t, c, m) = OnTheWay(V, t, c, m) + more
    <2>1. CASE s.end = w.to
      <3>1. Meter!TicksIn(m, s.end, w.to) = 0
        BY <1>3, <2>1, NoTicks
      <3>2. more = 0 /\ chains' = V
        BY <1>2, <2>1, <3>1
      <3> HIDE DEF more
      <3> QED
        BY <1>8, <3>2
    <2>2. CASE s.end # w.to
      <3>1. OnTheWay(V \cup {u}, t, c, m) = Plus(OnTheWay(V, t, c, m), Share(u, t, c, m))
        BY <1>5, <1>6, <1>8, <2>2, Added
      <3>2. chains' = V \cup {u}
        BY <1>2, <2>2
      <3>3. Share(u, t, c, m) = more
        BY <1>5 DEF Share
      <3> HIDE DEF more
      <3> QED
        BY <1>8, <1>9, <3>1, <3>2, <3>3 DEF Plus
    <2> QED
      BY <2>1, <2>2
  <1>11. Opened(since[c], now, m) \in Nat /\ owed[t][c][m] \in Int
    BY <1>1, TicksAreCountable DEF Opened
  <1> HIDE DEF gone, more
  <1>12. SettledAt(owed', since', now', chains', t, c, m)
           = owed[t][c][m] - (Opened(since[c], now, m) + OnTheWay(chains', t, c, m))
    BY <1>2 DEF SettledAt
  <1>13. SettledAt(owed', since', now', chains', t, c, m)
           = Plus(SettledAt(owed, since, now, chains, t, c, m), gone)
    BY <1>8, <1>9, <1>10, <1>11, <1>12 DEF SettledAt, Plus
  <1> QED
    BY <1>13 DEF gone

-----------------------------------------------------------------------------
(* Each month's ledgers, in what is settled.                                *)

Sums(p, l, o, x, n, W) ==
  \A m \in Meter!Months :
    /\ \A c \in Computers : /\ SettledAt(o, x, n, W, "usage_period", c, m) \in Nat
                            /\ l[c][m] = SettledAt(o, x, n, W, "usage_ledger", c, m)
    /\ p[m] = Meter!Total([c \in Computers |-> SettledAt(o, x, n, W, "usage_period", c, m)])

LEMMA AccountedIs ==
    /\ Meter!Accounted <=> Sums(period, ledger, owed, since, now, chains)
    /\ (Meter!Accounted)' <=> Sums(period', ledger', owed', since', now', chains')
  <1>1. \A t, c, m : Meter!Settled(t, c, m) = SettledAt(owed, since, now, chains, t, c, m)
    BY SettledIs
  <1>2. \A t, c, m : (Meter!Settled(t, c, m))'
                       = SettledAt(owed', since', now', chains', t, c, m)
    BY SettledIs
  <1>3. Meter!Accounted <=> Sums(period, ledger, owed, since, now, chains)
    BY <1>1 DEF Meter!Accounted, Sums
  <1>4. (Meter!Accounted)' <=> Sums(period', ledger', owed', since', now', chains')
    BY <1>2 DEF Meter!Accounted, Sums
  <1> QED
    BY <1>3, <1>4

LEMMA SumsStay ==
    ASSUME Stays, Sums(period, ledger, owed, since, now, chains)
    PROVE  Sums(period', ledger', owed', since', now', chains')
  <1> DEFINE f(m) == [c \in Computers |->
                        SettledAt(owed, since, now, chains, "usage_period", c, m)]
             g(m) == [c \in Computers |->
                        SettledAt(owed', since', now', chains', "usage_period", c, m)]
  <1>1. /\ UNCHANGED <<period, ledger>>
        /\ \A t \in Meter!Tables, c \in Computers, m \in Meter!Months :
             SettledAt(owed', since', now', chains', t, c, m)
               = SettledAt(owed, since, now, chains, t, c, m)
    BY DEF Stays
  <1>2. "usage_period" \in Meter!Tables /\ "usage_ledger" \in Meter!Tables
    BY DEF Meter!Tables
  <1>3. SUFFICES ASSUME NEW m \in Meter!Months
                 PROVE  /\ \A c \in Computers :
                             /\ SettledAt(owed', since', now', chains', "usage_period", c, m) \in Nat
                             /\ ledger'[c][m]
                                  = SettledAt(owed', since', now', chains', "usage_ledger", c, m)
                        /\ period'[m] = Meter!Total(g(m))
    BY DEF Sums
  <1>4. g(m) = f(m)
    BY <1>1, <1>2
  <1>5. /\ \A c \in Computers :
             /\ SettledAt(owed, since, now, chains, "usage_period", c, m) \in Nat
             /\ ledger[c][m] = SettledAt(owed, since, now, chains, "usage_ledger", c, m)
        /\ period[m] = Meter!Total(f(m))
    BY DEF Sums
  <1> HIDE DEF f, g
  <1> QED
    BY <1>1, <1>2, <1>4, <1>5

LEMMA SumsCharged ==
    ASSUME Meter!TicksAreCounted, MTypes, Stretches, Intervals,
           NEW w \in chains, Meter!upsert(w), Sums(period, ledger, owed, since, now, chains)
    PROVE  Sums(period', ledger', owed', since', now', chains')
  <1> DEFINE s == Meter!firstSlice(w.from, w.to)
             d == s.end - w.from
             old(t, c, m) == SettledAt(owed, since, now, chains, t, c, m)
             new(t, c, m) == SettledAt(owed', since', now', chains', t, c, m)
             f(m) == [c \in Computers |-> old("usage_period", c, m)]
             g(m) == [c \in Computers |-> new("usage_period", c, m)]
             gain(t, c, m) == IF t = w.table /\ c = w.c /\ m = s.month THEN d ELSE 0
  <1>1. /\ w.table \in Meter!Tables /\ w.c \in Computers /\ s.month \in Meter!Months
        /\ d \in Nat
        /\ \A t \in Meter!Tables, c \in Computers, m \in Meter!Months :
             new(t, c, m) = Plus(old(t, c, m), gain(t, c, m))
    BY ChargeSettles
  <1>2. /\ w.from \in Nat /\ s.end \in Nat /\ IsFiniteSet(Computers)
        /\ period \in [Meter!Months -> Nat] /\ ledger \in [Computers -> [Meter!Months -> Nat]]
    <2>1. w.from \in Nat /\ w.to \in Nat
      BY DEF MTypes, Chain
    <2>2. w.from < w.to /\ w.to <= MaxTime
      BY <2>1 DEF Intervals, MTypes, Meter!TicksAreCounted
    <2>3. s.end \in Nat
      BY <2>1, <2>2, FirstSlice
    <2>4. IsFiniteSet(Computers)
      BY DEF Meter!TicksAreCounted, Meter!IsFiniteSet, IsFiniteSet
    <2>5. /\ period \in [Meter!Months -> Nat]
          /\ ledger \in [Computers -> [Meter!Months -> Nat]]
      BY DEF MTypes
    <2> QED
      BY <2>1, <2>3, <2>4, <2>5
  <1>3. \/ /\ w.table = "usage_period" /\ UNCHANGED ledger
           /\ period' = [period EXCEPT ![s.month] = @ + s.end - w.from]
        \/ /\ w.table = "usage_ledger" /\ UNCHANGED period
           /\ ledger' = [ledger EXCEPT ![w.c][s.month] = @ + s.end - w.from]
    BY DEF Meter!upsert, Meter!accumulateUsage, Meter!recordUsage
  <1>4. "usage_period" \in Meter!Tables /\ "usage_ledger" \in Meter!Tables
    BY DEF Meter!Tables
  <1>5. SUFFICES ASSUME NEW m \in Meter!Months
                 PROVE  /\ \A c \in Computers : /\ new("usage_period", c, m) \in Nat
                                                /\ ledger'[c][m] = new("usage_ledger", c, m)
                        /\ period'[m] = Meter!Total(g(m))
    BY DEF Sums
  <1>6. /\ \A c \in Computers : /\ old("usage_period", c, m) \in Nat
                                /\ ledger[c][m] = old("usage_ledger", c, m)
        /\ period[m] = Meter!Total(f(m))
    BY DEF Sums
  <1>7. /\ \A x \in Nat : x + s.end - w.from = x + (s.end - w.from)
        /\ d = s.end - w.from
    BY <1>2
  <1> DEFINE k == s.month
             e == s.end
  <1> HIDE DEF old, new, d
  <1>8. \A t, c : gain(t, c, m) \in Nat
    BY <1>1
  <1>9. \A c \in Computers : new("usage_period", c, m) = old("usage_period", c, m) + gain("usage_period", c, m)
    BY <1>1, <1>4 DEF Plus
  <1>10. \A c \in Computers : new("usage_ledger", c, m) = old("usage_ledger", c, m) + gain("usage_ledger", c, m)
    BY <1>1, <1>4 DEF Plus
  <1>11. \A c \in Computers : new("usage_period", c, m) \in Nat /\ ledger[c][m] \in Nat
    <2>1. \A c \in Computers : ledger[c][m] \in Nat
      BY <1>2
    <2>2. \A c \in Computers : gain("usage_period", c, m) \in Nat
      BY <1>8
    <2> HIDE DEF gain
    <2>3. ASSUME NEW c \in Computers PROVE new("usage_period", c, m) \in Nat
      <3>1. /\ old("usage_period", c, m) \in Nat
            /\ gain("usage_period", c, m) \in Nat
            /\ new("usage_period", c, m)
                 = old("usage_period", c, m) + gain("usage_period", c, m)
        BY <1>6, <1>9, <2>2
      <3>2. \A x, y \in Nat : x + y \in Nat
        OBVIOUS
      <3> QED
        BY <3>1, <3>2
    <2> QED
      BY <2>1, <2>3
  <1>12. \A c \in Computers : ledger'[c][m] = ledger[c][m] + gain("usage_ledger", c, m)
    <2>1. SUFFICES ASSUME NEW c \in Computers
                   PROVE  ledger'[c][m] = ledger[c][m] + gain("usage_ledger", c, m)
      OBVIOUS
    <2>2. CASE w.table = "usage_period"
      <3>1. ledger' = ledger /\ gain("usage_ledger", c, m) = 0
        BY <1>3, <2>2
      <3> HIDE DEF gain
      <3> QED
        BY <1>11, <3>1
    <2>3. CASE w.table = "usage_ledger"
      <3>1. ledger' = [ledger EXCEPT ![w.c][k] = @ + e - w.from]
        BY <1>3, <2>3
      <3>2. ledger[w.c][k] \in Nat
        BY <1>1, <1>2
      <3> HIDE DEF k, e
      <3>3. ledger'[c][m] = IF c = w.c /\ m = k THEN ledger[w.c][k] + e - w.from ELSE ledger[c][m]
        BY <1>1, <1>2, <3>1
      <3>4. gain("usage_ledger", c, m) = IF c = w.c /\ m = k THEN d ELSE 0
        BY <2>3 DEF k
      <3>5. ledger[w.c][k] + e - w.from = ledger[w.c][k] + d
        BY <1>7, <3>2 DEF e
      <3> HIDE DEF gain
      <3> QED
        BY <1>11, <3>3, <3>4, <3>5
    <2> QED
      BY <1>3, <2>2, <2>3
  <1>13. \A c \in Computers : ledger'[c][m] = new("usage_ledger", c, m)
    <2> HIDE DEF gain
    <2> QED
      BY <1>6, <1>10, <1>12
  <1>14. /\ f(m) \in [Computers -> Nat] /\ g(m) \in [Computers -> Nat]
         /\ \A c \in Computers : g(m)[c] = f(m)[c] + gain("usage_period", c, m)
    <2> HIDE DEF gain
    <2> QED
      BY <1>6, <1>9, <1>11
  <1>15. period'[m] = period[m] + gain("usage_period", w.c, m)
    <2>1. period[m] \in Nat
      BY <1>2
    <2>2. CASE w.table = "usage_ledger"
      <3>1. period' = period /\ gain("usage_period", w.c, m) = 0
        BY <1>3, <2>2
      <3> HIDE DEF gain
      <3> QED
        BY <2>1, <3>1
    <2>3. CASE w.table = "usage_period"
      <3>1. period' = [period EXCEPT ![k] = @ + e - w.from]
        BY <1>3, <2>3
      <3> HIDE DEF k, e
      <3>2. period'[m] = IF m = k THEN period[m] + e - w.from ELSE period[m]
        BY <1>1, <1>2, <3>1
      <3>3. gain("usage_period", w.c, m) = IF m = k THEN d ELSE 0
        BY <2>3 DEF k
      <3>4. period[m] + e - w.from = period[m] + d
        BY <1>7, <2>1 DEF e
      <3> HIDE DEF gain
      <3> QED
        BY <2>1, <3>2, <3>3, <3>4
    <2> QED
      BY <1>3, <2>2, <2>3
  <1>16. \A c \in Computers \ {w.c} : g(m)[c] = f(m)[c]
    <2>1. \A c \in Computers \ {w.c} : gain("usage_period", c, m) = 0
      OBVIOUS
    <2>2. \A c \in Computers : f(m)[c] \in Nat
      BY <1>14
    <2>3. \A c \in Computers : g(m)[c] = f(m)[c] + gain("usage_period", c, m)
      BY <1>14
    <2> HIDE DEF gain, f, g
    <2>4. SUFFICES ASSUME NEW c \in Computers \ {w.c} PROVE g(m)[c] = f(m)[c]
      OBVIOUS
    <2>5. /\ g(m)[c] = f(m)[c] + gain("usage_period", c, m) /\ f(m)[c] \in Nat
          /\ gain("usage_period", c, m) = 0
      BY <2>1, <2>2, <2>3
    <2> QED
      BY <2>5
  <1> HIDE DEF f, g, gain
  <1>17. /\ Meter!Total(f(m)) \in Nat
         /\ Meter!Total(g(m)) = Meter!Total(f(m)) + (g(m)[w.c] - f(m)[w.c])
    BY <1>1, <1>2, <1>14, <1>16, TotalChanged
  <1>18. g(m)[w.c] - f(m)[w.c] = gain("usage_period", w.c, m)
    <2>1. /\ f(m)[w.c] \in Nat /\ g(m)[w.c] = f(m)[w.c] + gain("usage_period", w.c, m)
          /\ gain("usage_period", w.c, m) \in Nat
      BY <1>1, <1>8, <1>14
    <2> QED
      BY <2>1
  <1>19. period'[m] = Meter!Total(g(m))
    BY <1>6, <1>15, <1>17, <1>18
  <1> QED
    BY <1>11, <1>13, <1>19

LEMMA InitSums ==
    ASSUME Meter!TicksAreCounted, Meter!Init
    PROVE  /\ MTypes /\ Stretches /\ Intervals
           /\ Sums(period, ledger, owed, since, now, chains)
  <1>1. /\ now = 0 /\ since = [c \in Computers |-> None] /\ stored = since
        /\ chains = {} /\ period = [m \in Meter!Months |-> 0]
        /\ ledger = [c \in Computers |-> [m \in Meter!Months |-> 0]]
        /\ owed = [t \in Meter!Tables |-> [c \in Computers |-> [m \in Meter!Months |-> 0]]]
    BY DEF Meter!Init, Meter!None0
  <1>2. MTypes
    BY <1>1, FS_EmptySet DEF MTypes, Meter!TicksAreCounted
  <1>3. Stretches /\ Intervals
    BY <1>1 DEF Stretches, Intervals
  <1>4. \A t \in Meter!Tables, c \in Computers, m \in Meter!Months :
          SettledAt(owed, since, now, chains, t, c, m) = 0
    <2>1. SUFFICES ASSUME NEW t \in Meter!Tables, NEW c \in Computers, NEW m \in Meter!Months
                   PROVE  SettledAt(owed, since, now, chains, t, c, m) = 0
      OBVIOUS
    <2>2. owed[t][c][m] = 0 /\ since[c] = None
      BY <1>1
    <2>3. ChainsOf(chains, t, c) = {}
      BY <1>1 DEF ChainsOf
    <2>4. OnTheWay(chains, t, c, m) = 0
      BY <2>3, NoChains DEF OnTheWay
    <2> QED
      BY <2>2, <2>4 DEF SettledAt, Opened
  <1>5. "usage_period" \in Meter!Tables /\ "usage_ledger" \in Meter!Tables
    BY DEF Meter!Tables
  <1>6. ASSUME NEW m \in Meter!Months
        PROVE  Meter!Total([c \in Computers |->
                  SettledAt(owed, since, now, chains, "usage_period", c, m)]) = 0
    <2> DEFINE f == [c \in Computers |->
                       SettledAt(owed, since, now, chains, "usage_period", c, m)]
    <2>1. DOMAIN f = Computers /\ \A c \in Computers : f[c] = 0
      BY <1>4, <1>5
    <2> HIDE DEF f
    <2>2. 1..0 = {}
      OBVIOUS
    <2>3. Places(Computers, f) = {}
      BY <2>1, <2>2 DEF Places
    <2>4. Meter!Total(f) = 0
      BY <2>1, <2>3, TotalIs, FS_EmptySet
    <2> QED
      BY <2>4 DEF f
  <1>7. \A m \in Meter!Months : period[m] = 0 /\ \A c \in Computers : ledger[c][m] = 0
    BY <1>1
  <1>8. Sums(period, ledger, owed, since, now, chains)
    <2>1. SUFFICES ASSUME NEW m \in Meter!Months
                   PROVE  /\ \A c \in Computers :
                               /\ SettledAt(owed, since, now, chains, "usage_period", c, m) \in Nat
                               /\ ledger[c][m]
                                    = SettledAt(owed, since, now, chains, "usage_ledger", c, m)
                          /\ period[m] = Meter!Total([c \in Computers |->
                               SettledAt(owed, since, now, chains, "usage_period", c, m)])
      BY DEF Sums
    <2>2. period[m] = Meter!Total([c \in Computers |->
                        SettledAt(owed, since, now, chains, "usage_period", c, m)])
      BY <1>6, <1>7
    <2>3. \A c \in Computers :
             /\ SettledAt(owed, since, now, chains, "usage_period", c, m) = 0
             /\ SettledAt(owed, since, now, chains, "usage_ledger", c, m) = 0
      BY <1>4, <1>5
    <2>4. \A c \in Computers :
             /\ SettledAt(owed, since, now, chains, "usage_period", c, m) \in Nat
             /\ ledger[c][m] = SettledAt(owed, since, now, chains, "usage_ledger", c, m)
      <3>1. SUFFICES ASSUME NEW c \in Computers
                     PROVE  /\ SettledAt(owed, since, now, chains, "usage_period", c, m) \in Nat
                            /\ ledger[c][m]
                                 = SettledAt(owed, since, now, chains, "usage_ledger", c, m)
        OBVIOUS
      <3>2. SettledAt(owed, since, now, chains, "usage_period", c, m) = 0
        BY <2>3
      <3>3. /\ SettledAt(owed, since, now, chains, "usage_ledger", c, m) = 0
            /\ ledger[c][m] = 0
        BY <1>7, <2>3
      <3>4. 0 \in Nat
        OBVIOUS
      <3> QED
        BY <3>2, <3>3, <3>4
    <2> QED
      BY <2>2, <2>4
  <1> QED
    BY <1>2, <1>3, <1>8

(* Each AWAKE tick is in one place and in its own month, whatever closes,   *)
(* checkpoints, month ends, failed writes and restarts interleave           *)
(* (limits.ts, usage.ts).                                                   *)
THEOREM AccountedAlways ==
    ASSUME Meter!TicksAreCounted
    PROVE  Spec => []Accounted
  <1> DEFINE MInv == focus = "metering" => /\ MTypes /\ Stretches /\ Intervals
                                           /\ Meter!Accounted
  <1>1. Init => MInv
    <2>1. SUFFICES ASSUME Init, focus = "metering"
                   PROVE  MTypes /\ Stretches /\ Intervals /\ Meter!Accounted
      OBVIOUS
    <2>2. Meter!Init
      BY <2>1 DEF Init
    <2> QED
      BY <2>2, InitSums, AccountedIs
  <1>2. MInv /\ [Next]_vars => MInv'
    <2>1. SUFFICES ASSUME MInv, [Next]_vars, focus' = "metering"
                   PROVE  MTypes' /\ Stretches' /\ Intervals' /\ (Meter!Accounted)'
      OBVIOUS
    <2>2. focus = "metering" /\ (Meter!Next \/ UNCHANGED metering)
      BY <2>1, FocusStays
    <2>3. MTypes /\ Stretches /\ Intervals /\ Meter!Accounted
      BY <2>1, <2>2
    <2> HIDE DEF MInv
    <2>4. MTypes' /\ Stretches' /\ Intervals'
      BY <2>2, <2>3, StepMTypes, StepStretches, StepIntervals
    <2>5. Sums(period, ledger, owed, since, now, chains)
      BY <2>3, AccountedIs
    <2>6. Sums(period', ledger', owed', since', now', chains')
      <3>1. CASE \E w \in chains : Meter!upsert(w)
        BY <2>3, <2>5, <3>1, SumsCharged
      <3>2. CASE \A w \in chains : ~Meter!upsert(w)
        BY <2>2, <2>3, <2>5, <3>2, OtherStepsStay, SumsStay
      <3> QED
        BY <3>1, <3>2
    <2> QED
      BY <2>4, <2>6, AccountedIs
  <1>3. MInv => Accounted
    BY DEF Accounted
  <1> QED
    BY <1>1, <1>2, <1>3, PTL DEF Spec

-----------------------------------------------------------------------------
(* A manifest that is browsed.                                              *)

Entry == [path : Seq(STRING), kind : {"file", "dir", "symlink"}, mode : Nat,
          chunks : Seq([chunk : STRING, len : Nat]), size : Nat, target : STRING]

(* Paths as sequences: the parent of a path, and its last name.             *)
LEMMA ParentOfPath ==
    ASSUME NEW p \in Seq(STRING), NEW n \in 1..Len(p)
    PROVE  LET d == SubSeq(p, 1, n - 1)
           IN d \in Seq(STRING) /\ Len(d) = n - 1 /\ Manifest!IsStrictPrefix(d, p)
  <1> DEFINE d == SubSeq(p, 1, n - 1)
  <1>1. /\ d \in Seq(STRING) /\ Len(d) = n - 1 /\ Len(p) \in Nat
        /\ \A k \in 1..(n - 1) : d[k] = p[k]
    OBVIOUS
  <1>2. SubSeq(d, 1, Len(d)) = d /\ SubSeq(p, 1, Len(d)) = d
    BY <1>1
  <1>3. d # p
    BY <1>1
  <1> QED
    BY <1>1, <1>2, <1>3 DEF Manifest!IsStrictPrefix, Manifest!IsPrefix

LEMMA StrictlyBegins ==
    ASSUME NEW s \in Seq(STRING), NEW t \in Seq(STRING)
    PROVE  Manifest!IsStrictPrefix(s, t) <=>
             Len(s) < Len(t) /\ \A k \in 1..Len(s) : s[k] = t[k]
  <1>1. Len(s) \in Nat /\ Len(t) \in Nat
    OBVIOUS
  <1>2. SubSeq(s, 1, Len(s)) = s
    OBVIOUS
  <1>3. ASSUME Len(s) <= Len(t)
        PROVE  /\ SubSeq(t, 1, Len(s)) \in Seq(STRING) /\ Len(SubSeq(t, 1, Len(s))) = Len(s)
               /\ \A k \in 1..Len(s) : SubSeq(t, 1, Len(s))[k] = t[k]
    BY <1>1, <1>3
  <1>4. ASSUME Manifest!IsStrictPrefix(s, t)
        PROVE  Len(s) < Len(t) /\ \A k \in 1..Len(s) : s[k] = t[k]
    <2>1. Len(s) <= Len(t) /\ s = SubSeq(t, 1, Len(s)) /\ s # t
      BY <1>2, <1>4 DEF Manifest!IsStrictPrefix, Manifest!IsPrefix
    <2>2. \A k \in 1..Len(s) : s[k] = t[k]
      BY <1>3, <2>1
    <2>3. Len(s) # Len(t)
      BY <2>1, <2>2, SeqEqual
    <2> QED
      BY <1>1, <2>1, <2>2, <2>3
  <1>5. ASSUME Len(s) < Len(t), \A k \in 1..Len(s) : s[k] = t[k]
        PROVE  Manifest!IsStrictPrefix(s, t)
    <2>1. Len(s) <= Len(t) /\ s # t
      BY <1>1, <1>5
    <2>2. s = SubSeq(t, 1, Len(s))
      BY <1>3, <1>5, <2>1, SeqEqual
    <2> QED
      BY <1>2, <2>1, <2>2 DEF Manifest!IsStrictPrefix, Manifest!IsPrefix
  <1> QED
    BY <1>4, <1>5

(* One name below a directory: the path is the directory's and the name.    *)
LEMMA OneBelow ==
    ASSUME NEW d \in Seq(STRING), NEW s \in Seq(STRING), Manifest!IsStrictPrefix(d, s),
           Len(s) = Len(d) + 1, NEW t \in Seq(STRING), Manifest!IsStrictPrefix(d, t),
           Manifest!Last(s) = t[Len(s)]
    PROVE  /\ Len(t) = Len(s) => s = t
           /\ Len(t) # Len(s) => Manifest!IsStrictPrefix(s, t)
  <1>1. Len(d) \in Nat /\ Len(s) \in Nat /\ Len(t) \in Nat
    OBVIOUS
  <1>2. /\ Len(d) < Len(t) /\ \A k \in 1..Len(d) : d[k] = t[k] /\ d[k] = s[k]
    BY StrictlyBegins
  <1>3. s[Len(s)] = t[Len(s)]
    BY DEF Manifest!Last
  <1>4. \A k \in 1..Len(s) : s[k] = t[k]
    <2>1. \A k \in 1..Len(s) : k \in 1..Len(d) \/ k = Len(s)
      BY <1>1
    <2> QED
      BY <1>2, <1>3, <2>1
  <1>5. ASSUME Len(t) = Len(s) PROVE s = t
    BY <1>4, <1>5, SeqEqual
  <1>6. ASSUME Len(t) # Len(s) PROVE Manifest!IsStrictPrefix(s, t)
    <2>1. Len(s) < Len(t)
      BY <1>1, <1>2, <1>6
    <2> QED
      BY <1>4, <2>1, StrictlyBegins
  <1> QED
    BY <1>5, <1>6

LEMMA WalkReachesAll ==
    ASSUME Manifest!ManifestsAreTrees, base \in Manifests
    PROVE  Manifest!WalkReaches
  <1>1. /\ \A e \in base : e.path \in Seq(STRING)
        /\ \A e, f \in base : /\ e.path = f.path => e = f
                              /\ Manifest!IsStrictPrefix(e.path, f.path) => e.kind = "dir"
    BY DEF Manifest!ManifestsAreTrees
  <1>2. SUFFICES ASSUME NEW e \in base, NEW n \in 1..Len(e.path)
                 PROVE  LET is == Manifest!listDirectory(base, SubSeq(e.path, 1, n - 1)) IN
                        /\ "entries" \in DOMAIN is
                        /\ \E child \in is.entries :
                             /\ child.name = e.path[n]
                             /\ child.kind = IF n = Len(e.path) THEN e.kind ELSE "dir"
                        /\ \A x, y \in is.entries : x.name = y.name => x = y
    BY DEF Manifest!WalkReaches
  <1> DEFINE dir == SubSeq(e.path, 1, n - 1)
             under == Manifest!Under(base, dir)
             direct == {f \in under : Len(f.path) = Len(dir) + 1}
             listed == {Manifest!Last(f.path) : f \in direct}
             implied == {f.path[Len(dir) + 1] : f \in under} \ listed
             own == {[name |-> Manifest!Last(f.path), kind |-> f.kind] : f \in direct}
             dirs == {[name |-> a, kind |-> "dir"] : a \in implied}
  <1>3. /\ dir \in Seq(STRING) /\ Len(dir) = n - 1 /\ Manifest!IsStrictPrefix(dir, e.path)
        /\ Len(e.path) \in Nat /\ n \in Nat /\ Len(dir) + 1 = n
    BY <1>1, ParentOfPath
  <1>4. e \in under /\ \A f \in under : f \in base /\ Manifest!IsStrictPrefix(dir, f.path)
    BY <1>3 DEF Manifest!Under
  <1>5. \A f \in Manifest!At(base, dir) : f.kind = "dir"
    BY <1>1, <1>3 DEF Manifest!At
  <1>6. Manifest!listDirectory(base, dir) = [entries |-> own \cup dirs]
    BY <1>4, <1>5 DEF Manifest!listDirectory
  <1> HIDE DEF dir, under
  <1>7. ASSUME NEW f \in direct, NEW g \in under, Manifest!Last(f.path) = g.path[n]
        PROVE  /\ Len(g.path) = n => f = g
               /\ Len(g.path) # n => f.kind = "dir"
    <2>1. /\ f \in base /\ g \in base /\ Len(f.path) = n /\ Len(f.path) = Len(dir) + 1
          /\ Manifest!IsStrictPrefix(dir, f.path) /\ Manifest!IsStrictPrefix(dir, g.path)
          /\ f.path \in Seq(STRING) /\ g.path \in Seq(STRING)
      BY <1>1, <1>3, <1>4
    <2>2. /\ Len(g.path) = n => f.path = g.path
          /\ Len(g.path) # n => Manifest!IsStrictPrefix(f.path, g.path)
      BY <1>3, <1>7, <2>1, OneBelow
    <2> QED
      BY <1>1, <2>1, <2>2
  <1>8. \A f \in direct : f \in under /\ Len(f.path) = n /\ Manifest!Last(f.path) = f.path[n]
    BY <1>3 DEF Manifest!Last
  <1>9. \E child \in own \cup dirs : /\ child.name = e.path[n]
                                     /\ child.kind = IF n = Len(e.path) THEN e.kind ELSE "dir"
    <2>1. CASE n = Len(e.path)
      <3>1. e \in direct
        BY <1>3, <1>4, <2>1
      <3>2. [name |-> Manifest!Last(e.path), kind |-> e.kind] \in own
        BY <3>1
      <3> QED
        BY <1>8, <2>1, <3>1, <3>2
    <2>2. CASE n # Len(e.path)
      <3>1. CASE e.path[n] \in listed
        <4>1. PICK f \in direct : Manifest!Last(f.path) = e.path[n]
          BY <3>1
        <4>2. f.kind = "dir"
          BY <1>4, <1>7, <2>2, <4>1
        <4>3. [name |-> Manifest!Last(f.path), kind |-> f.kind] \in own
          OBVIOUS
        <4> QED
          BY <2>2, <4>1, <4>2, <4>3
      <3>2. CASE e.path[n] \notin listed
        <4>1. e.path[n] \in implied
          BY <1>3, <1>4, <3>2
        <4>2. [name |-> e.path[n], kind |-> "dir"] \in dirs
          BY <4>1
        <4>3. \E child \in dirs : child.name = e.path[n] /\ child.kind = "dir"
          BY <4>2
        <4> HIDE DEF own, dirs
        <4> QED
          BY <2>2, <4>3
      <3> QED
        BY <3>1, <3>2
    <2> QED
      BY <2>1, <2>2
  <1>10. \A x, y \in own \cup dirs : x.name = y.name => x = y
    <2>1. SUFFICES ASSUME NEW x \in own \cup dirs, NEW y \in own \cup dirs, x.name = y.name
                   PROVE  x = y
      OBVIOUS
    <2>2. ASSUME NEW f \in direct, NEW g \in direct, Manifest!Last(f.path) = Manifest!Last(g.path)
          PROVE  f = g
      BY <1>7, <1>8, <2>2
    <2>3. CASE x \in own /\ y \in own
      BY <2>1, <2>2, <2>3
    <2>4. CASE x \in dirs /\ y \in dirs
      BY <2>1, <2>4
    <2>5. \A u \in own : u.name \in listed
      OBVIOUS
    <2>6. \A u \in dirs : u.name \notin listed
      OBVIOUS
    <2> QED
      BY <2>1, <2>3, <2>4, <2>5, <2>6
  <1> QED
    BY <1>6, <1>9, <1>10 DEF dir

LEMMA DiffIsExactAlways ==
    ASSUME Manifest!ManifestsAreTrees, base \in Manifests
    PROVE  Manifest!DiffIsExact
  <1>1. SUFFICES ASSUME NEW to \in Manifests
                 PROVE  LET d == Manifest!diffManifests(base, to)
                            Differs(p) == Manifest!At(base, p) # Manifest!At(to, p) IN
                        /\ d.added \cup d.removed \cup d.modified
                             = {p \in {e.path : e \in base \cup to} : Differs(p)}
                        /\ d.added \cap (d.removed \cup d.modified) = {}
                        /\ d.removed \cap d.modified = {}
                        /\ \A p \in d.removed : Manifest!At(to, p) = {}
    BY DEF Manifest!DiffIsExact
  <1> DEFINE P(m) == {e.path : e \in m}
             added == P(to) \ P(base)
             removed == P(base) \ P(to)
             other(g, f) == \/ g.chunks # f.chunks \/ g.size # f.size \/ g.mode # f.mode
                            \/ g.kind # f.kind \/ g.target # f.target
             modified == {e.path : e \in {f \in to : \E g \in base : g.path = f.path /\ other(g, f)}}
  <1>2. Manifest!diffManifests(base, to) = [added |-> added, removed |-> removed,
                                            modified |-> modified]
    BY DEF Manifest!diffManifests
  <1>3. /\ \A e \in base \cup to : e \in Entry
        /\ \A e, f \in base : e.path = f.path => e = f
        /\ \A e, f \in to : e.path = f.path => e = f
    BY DEF Manifest!ManifestsAreTrees, Entry
  <1>4. \A g, f \in Entry : g.path = f.path => (other(g, f) <=> g # f)
    BY DEF Entry
  <1>5. \A m, p : p \in P(m) <=> Manifest!At(m, p) # {}
    BY DEF Manifest!At
  <1>6. \A p : p \in modified <=> \E f \in to, g \in base : f.path = p /\ g.path = p /\ g # f
    BY <1>3, <1>4
  <1> HIDE DEF other, modified
  <1>7. \A p : p \in modified <=> /\ p \in P(base) /\ p \in P(to)
                                  /\ Manifest!At(base, p) # Manifest!At(to, p)
    BY <1>3, <1>6 DEF Manifest!At
  <1>8. P(base \cup to) = P(base) \cup P(to)
    OBVIOUS
  <1> HIDE DEF P
  <1>9. added \cup removed \cup modified
          = {p \in P(base \cup to) : Manifest!At(base, p) # Manifest!At(to, p)}
    BY <1>5, <1>7, <1>8
  <1>10. added \cap (removed \cup modified) = {} /\ removed \cap modified = {}
    BY <1>7
  <1>11. \A p \in removed : Manifest!At(to, p) = {}
    BY <1>5
  <1> QED
    BY <1>2, <1>9, <1>10, <1>11 DEF P

(* What a store gives back for a chunk is one of four.                      *)
BodiesAreKnown ==
    \A place \in Manifest!Roots, c \in Manifest!AllChunks :
       bodies[place][c] \in {"good", "other", "garbage", "absent"}

(* What a file's bytes are when they are answered.                          *)
LEMMA ReadIsWhole ==
    ASSUME BodiesAreKnown, Manifest!ManifestsAreTrees, base \in Manifests, NEW e \in base,
           "bytes" \in DOMAIN Manifest!readFile("account", e)
    PROVE  LET bytes == Manifest!readFile("account", e).bytes
           IN Len(bytes) = e.size /\ \A i \in 1..e.size : bytes[i] = "good"
  <1> DEFINE Bad(i) == Manifest!getChunk("account", e.chunks[i]) # "ok" \/ i > e.size
             bytes == [i \in DOMAIN e.chunks |-> bodies["account"][e.chunks[i].chunk]]
  <1>1. e.chunks \in Seq([chunk : STRING, len : Nat]) /\ e.size \in Nat
    BY DEF Manifest!ManifestsAreTrees
  <1>2. \A code : "bytes" \notin DOMAIN Manifest!Fails(code)
    BY DEF Manifest!Fails
  <1>3. /\ \A i \in DOMAIN e.chunks : ~Bad(i)
        /\ Len(e.chunks) = e.size
        /\ Manifest!readFile("account", e) = [bytes |-> bytes]
    BY <1>2 DEF Manifest!readFile
  <1>4. DOMAIN e.chunks = 1..e.size
    BY <1>1, <1>3
  <1>5. Len(bytes) = e.size
    BY <1>1, <1>4
  <1>6. ASSUME NEW i \in 1..e.size PROVE bytes[i] = "good"
    <2>1. e.chunks[i].chunk \in Manifest!AllChunks
      <3>1. e.chunks[i] \in {e.chunks[k] : k \in DOMAIN e.chunks}
        BY <1>4
      <3>2. e.chunks[i].chunk \in {r.chunk : r \in {e.chunks[k] : k \in DOMAIN e.chunks}}
        BY <3>1
      <3>3. e.chunks[i].chunk \in Manifest!ChunksOf(base)
        BY <3>2 DEF Manifest!ChunksOf
      <3> QED
        BY <3>3 DEF Manifest!AllChunks
    <2>2. bodies["account"][e.chunks[i].chunk] \in {"good", "other", "garbage", "absent"}
      BY <2>1 DEF BodiesAreKnown, Manifest!Roots
    <2>3. Manifest!getChunk("account", e.chunks[i]) = "ok"
      BY <1>3, <1>4
    <2>4. bodies["account"][e.chunks[i].chunk] = "good"
      BY <2>2, <2>3 DEF Manifest!getChunk, Manifest!decodeChunkBody
    <2> QED
      BY <1>4, <2>4
  <1>7. Manifest!readFile("account", e).bytes = bytes
    BY <1>3
  <1> HIDE DEF bytes
  <1> QED
    BY <1>5, <1>6, <1>7

BrowseInv == /\ base \in Manifests /\ head \in {base, None}
             /\ BootShape /\ BodiesAreKnown /\ Manifest!ServedWhole

LEMMA BytesAreRead ==
    ASSUME Manifest!ManifestsAreTrees, BrowseInv, NEW path, NEW is,
           is \in {Manifest!filesHandler(path), Manifest!fileRoute(path)},
           "bytes" \in DOMAIN is
    PROVE  \E e \in Manifest!At(base, path) : is = Manifest!readFile("account", e)
  <1>1. /\ \A code : "bytes" \notin DOMAIN Manifest!Fails(code)
        /\ \A S : "bytes" \notin DOMAIN [entries |-> S]
    BY DEF Manifest!Fails
  <1>2. \A m, dir : "bytes" \notin DOMAIN Manifest!listDirectory(m, dir)
    BY <1>1 DEF Manifest!listDirectory
  <1>3. head \in {base, None}
    BY DEF BrowseInv
  <1> DEFINE at == Manifest!At(head, path)
             one == CHOOSE e \in at : TRUE
  <1>4. at # {} => one \in at
    OBVIOUS
  <1>5. CASE is = Manifest!filesHandler(path)
    <2>1. head # None /\ head = base
      BY <1>1, <1>5 DEF Manifest!filesHandler
    <2>2. at # {} /\ is = Manifest!readFile("account", one)
      BY <1>1, <1>2, <1>5 DEF Manifest!filesHandler
    <2> QED
      BY <1>4, <2>1, <2>2
  <1>6. CASE is = Manifest!fileRoute(path)
    <2>1. head # None /\ head = base
      BY <1>1, <1>6 DEF Manifest!fileRoute
    <2>2. at # {} /\ is = Manifest!readFile("account", one)
      BY <1>1, <1>6 DEF Manifest!fileRoute
    <2> QED
      BY <1>4, <2>1, <2>2
  <1> QED
    BY <1>5, <1>6

LEMMA InitBrowse ==
    ASSUME Manifest!Init
    PROVE  BrowseInv
  <1>1. BootShape
    BY InitBootInv DEF BootInv
  <1>2. base \in Manifests /\ head \in {base, None}
    BY DEF Manifest!Init
  <1>3. BodiesAreKnown
    BY DEF Manifest!Init, BodiesAreKnown
  <1>4. Manifest!ServedWhole
    BY DEF Manifest!Init, Manifest!ServedWhole, Manifest!Fails
  <1> QED
    BY <1>1, <1>2, <1>3, <1>4 DEF BrowseInv

LEMMA StepBrowse ==
    ASSUME Manifest!ManifestsAreTrees, BootInv, BrowseInv, Manifest!Next
    PROVE  BrowseInv'
  <1>1. BootShape'
    BY StepBootInv DEF BootInv
  <1>2. UNCHANGED <<base, head>>
    BY DEF Manifest!Next, Manifest!browse, Manifest!ensureManifestNamespace, Manifest!publish,
           Manifest!cutOff, Manifest!copy
  <1>3. BodiesAreKnown'
    <2>1. CASE UNCHANGED bodies
      BY <1>2, <2>1 DEF BrowseInv, BodiesAreKnown
    <2>2. ASSUME NEW t \in Tasks, NEW c \in Manifest!AllChunks, Manifest!copy(t, c)
          PROVE  BodiesAreKnown'
      <3>1. \/ UNCHANGED bodies
            \/ bodies' = [bodies EXCEPT !["account"][c] = bodies["fleet"][c]]
        BY <2>2 DEF Manifest!copy
      <3>2. "account" \in Manifest!Roots /\ "fleet" \in Manifest!Roots
        BY DEF Manifest!Roots
      <3>3. /\ bodies["fleet"][c] \in {"good", "other", "garbage", "absent"}
            /\ \A place \in Manifest!Roots, k \in Manifest!AllChunks :
                 bodies[place][k] \in {"good", "other", "garbage", "absent"}
        BY <2>2, <3>2 DEF BrowseInv, BodiesAreKnown
      <3>4. Manifest!AllChunks' = Manifest!AllChunks /\ Manifest!Roots' = Manifest!Roots
        BY DEF Manifest!AllChunks, Manifest!ChunksOf, Manifest!Roots
      <3>5. CASE bodies' = [bodies EXCEPT !["account"][c] = bodies["fleet"][c]]
        <4>1. SUFFICES ASSUME NEW place \in Manifest!Roots, NEW k \in Manifest!AllChunks
                       PROVE  bodies'[place][k] \in {"good", "other", "garbage", "absent"}
          BY <3>4 DEF BodiesAreKnown
        <4>2. bodies'[place][k] = bodies[place][k] \/ bodies'[place][k] = bodies["fleet"][c]
          BY <3>2, <3>5 DEF BrowseInv, BootShape
        <4> QED
          BY <3>3, <4>1, <4>2
      <3> QED
        BY <2>1, <3>1, <3>5
    <2>3. CASE \A t \in Tasks, c \in Manifest!AllChunks : ~Manifest!copy(t, c)
      <3>1. UNCHANGED bodies
        BY <2>3 DEF Manifest!Next, Manifest!browse, Manifest!ensureManifestNamespace,
                    Manifest!publish, Manifest!cutOff
      <3> QED
        BY <2>1, <3>1
    <2> QED
      BY <2>2, <2>3
  <1>4. Manifest!ServedWhole'
    <2>1. CASE UNCHANGED answer
      BY <1>2, <2>1 DEF BrowseInv, Manifest!ServedWhole, Manifest!At
    <2>2. CASE Manifest!browse
      <3>1. PICK path, is : /\ is \in {Manifest!filesHandler(path), Manifest!fileRoute(path)}
                            /\ answer' = [path |-> path, is |-> is]
        BY <2>2 DEF Manifest!browse
      <3>2. answer'.path = path /\ answer'.is = is
        BY <3>1
      <3>3. SUFFICES ASSUME "bytes" \in DOMAIN is
                     PROVE  \E e \in Manifest!At(base, path) :
                              /\ Len(is.bytes) = e.size
                              /\ \A i \in 1..e.size : is.bytes[i] = "good"
        BY <1>2, <3>2 DEF Manifest!ServedWhole, Manifest!At
      <3>4. PICK e \in Manifest!At(base, path) : is = Manifest!readFile("account", e)
        BY <3>1, <3>3, BytesAreRead
      <3>5. e \in base
        BY <3>4 DEF Manifest!At
      <3> QED
        BY <3>3, <3>4, <3>5, ReadIsWhole DEF BrowseInv
    <2>3. UNCHANGED answer \/ Manifest!browse
      BY DEF Manifest!Next, Manifest!ensureManifestNamespace, Manifest!publish,
             Manifest!cutOff, Manifest!copy
    <2> QED
      BY <2>1, <2>2, <2>3
  <1> QED
    BY <1>1, <1>2, <1>3, <1>4 DEF BrowseInv

(* Whatever the stores give back and wherever bootstraps are cut, a file is *)
(* answered whole and verified or not at all, the listings lead to every    *)
(* entry, and a diff names what differs (manifest-store.ts, diff.ts).       *)
THEOREM BrowsedAsWrittenAlways ==
    ASSUME Manifest!ManifestsAreTrees
    PROVE  Spec => []BrowsedAsWritten
  <1> DEFINE J == focus = "manifests" => BootInv /\ BrowseInv
  <1>1. Init => J
    BY InitBootInv, InitBrowse DEF Init
  <1>2. J /\ [Next]_vars => J'
    <2>1. SUFFICES ASSUME BootInv, BrowseInv, [Next]_vars, focus = "manifests"
                   PROVE  BootInv' /\ BrowseInv'
      BY FocusStays
    <2>2. CASE UNCHANGED manifests
      <3>1. UNCHANGED <<base, head, bodies, held, task, answer>>
        BY <2>2 DEF manifests
      <3>2. BootInv'
        BY <2>1, <3>1 DEF BootInv, BootShape, Manifest!PublishedWhole, Carried, Manifest!ChunksOf
      <3>3. BrowseInv'
        BY <2>1, <3>1 DEF BrowseInv, BootShape, BodiesAreKnown, Manifest!ServedWhole, Manifest!At,
           Manifest!ChunksOf
      <3> QED
        BY <3>2, <3>3
    <2>3. CASE Manifest!Next
      BY <2>1, <2>3, StepBootInv, StepBrowse
    <2> QED
      BY <2>1, <2>2, <2>3, FocusStays
  <1>3. J => BrowsedAsWritten
    BY WalkReachesAll, DiffIsExactAlways DEF BrowsedAsWritten, BrowseInv
  <1> QED
    BY <1>1, <1>2, <1>3, PTL DEF Spec

=============================================================================
