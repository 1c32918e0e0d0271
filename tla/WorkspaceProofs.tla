---------------------------- MODULE WorkspaceProofs ----------------------------
(***************************************************************************)
(* The workspace of panes: that every layout a tab shows is a tree, and     *)
(* that in a tree whose panes have room the focus keys reach each pane from *)
(* each.  A tree is reasoned about by the paths to its nodes, its panes by  *)
(* the ends of their rectangles along the two axes.                         *)
(***************************************************************************)
EXTENDS ServicesProofs

-----------------------------------------------------------------------------
(* Paths in a tree of panes.                                                *)

Slot == {0, 1}
Path == Seq(Slot)
Leads(q, p) == Len(q) <= Len(p) /\ \A i \in 1..Len(q) : p[i] = q[i]

(* The first elements of a sequence.                                        *)
LEMMA Cut ==
    ASSUME NEW s, NEW n \in Nat
    PROVE  /\ Len(SubSeq(s, 1, n)) = n /\ \A i \in 1..n : SubSeq(s, 1, n)[i] = s[i]
           /\ \A S : (\A i \in 1..n : s[i] \in S) => SubSeq(s, 1, n) \in Seq(S)
  <1> DEFINE f == SubSeq(s, 1, n)
  <1>1. ASSUME NEW S, \A i \in 1..n : s[i] \in S
        PROVE  f \in Seq(S) /\ Len(f) = n /\ \A i \in 1..n : f[i] = s[i]
    <2>1. 1 \in Int /\ n \in Int
      OBVIOUS
    <2>2. /\ f \in Seq(S) /\ Len(f) = IF 1 <= n THEN n - 1 + 1 ELSE 0
          /\ \A i \in 1..(n - 1 + 1) : f[i] = s[1 + i - 1]
      BY <1>1, <2>1, SubSeqProperties
    <2> HIDE DEF f
    <2>3. n - 1 + 1 = n /\ \A i \in 1..n : 1 + i - 1 = i
      OBVIOUS
    <2> QED
      BY <2>2, <2>3
  <1>2. \A i \in 1..n : s[i] \in {s[k] : k \in 1..n}
    OBVIOUS
  <1> QED
    BY <1>1, <1>2

(* What holds of 0 and passes from each number to the next holds of all.    *)
LEMMA Counting ==
    ASSUME NEW S, 0 \in S, \A n \in Nat : n \in S => n + 1 \in S
    PROVE  Nat \subseteq S
  <1> DEFINE T == Nat \ S
  <1>1. SUFFICES ASSUME T # {} PROVE FALSE
    OBVIOUS
  <1>2. PICK n \in T : \A k \in T : n <= k
    BY <1>1, LeastOf
  <1>3. n # 0 /\ n - 1 \in Nat /\ n - 1 \notin T
    BY <1>2
  <1> QED
    BY <1>2, <1>3

LEMMA PathBasics ==
    ASSUME NEW q \in Path, NEW s \in Slot
    PROVE  /\ Append(q, s) \in Path /\ Append(q, s) # <<>> /\ Append(q, s) # q
           /\ Len(q) \in Nat /\ Len(Append(q, s)) = Len(q) + 1
           /\ Append(q, s)[Len(q) + 1] = s
           /\ \A i \in 1..Len(q) : Append(q, s)[i] = q[i] /\ q[i] \in Slot
           /\ \A r \in Path, t \in Slot : Append(q, s) = Append(r, t) => q = r /\ s = t
  <1>1. /\ Append(q, s) \in Path /\ Append(q, s) # <<>>
        /\ Len(q) \in Nat /\ Len(Append(q, s)) = Len(q) + 1
        /\ Append(q, s)[Len(q) + 1] = s
        /\ \A i \in 1..Len(q) : Append(q, s)[i] = q[i] /\ q[i] \in Slot
    BY DEF Path
  <1>2. Append(q, s) # q
    BY <1>1
  <1>3. ASSUME NEW r \in Path, NEW t \in Slot, Append(q, s) = Append(r, t)
        PROVE  q = r /\ s = t
    <2>1. Len(r) \in Nat /\ Len(q) = Len(r)
      BY <1>1, <1>3 DEF Path
    <2>2. \A i \in 1..Len(r) : Append(r, t)[i] = r[i]
      BY DEF Path
    <2>3. q = r
      BY <1>1, <1>3, <2>1, <2>2, SeqEqual DEF Path
    <2> QED
      BY <1>1, <1>3, <2>1, <2>3 DEF Path
  <1> QED
    BY <1>1, <1>2, <1>3

(* Every path but the root's is the path of a slot of another.              *)
LEMMA PathEnds ==
    ASSUME NEW p \in Path, p # <<>>
    PROVE  /\ Tab!Front(p) \in Path /\ Tab!Last(p) \in Slot
           /\ p = Append(Tab!Front(p), Tab!Last(p))
           /\ Len(p) \in Nat /\ Len(Tab!Front(p)) = Len(p) - 1 /\ Len(p) >= 1
  <1>1. /\ Len(p) \in Nat /\ Len(p) >= 1
    BY EmptySeq DEF Path
  <1>2. /\ Tab!Front(p) \in Path /\ Len(Tab!Front(p)) = Len(p) - 1
        /\ \A i \in 1..(Len(p) - 1) : Tab!Front(p)[i] = p[i]
    <2> DEFINE n == Len(p) - 1
    <2>1. n \in Nat /\ \A i \in 1..n : p[i] \in Slot
      BY <1>1 DEF Path
    <2>2. Tab!Front(p) = SubSeq(p, 1, n)
      BY DEF Tab!Front
    <2> HIDE DEF n
    <2>3. /\ Len(SubSeq(p, 1, n)) = n /\ \A i \in 1..n : SubSeq(p, 1, n)[i] = p[i]
          /\ SubSeq(p, 1, n) \in Path
      BY <2>1, Cut DEF Path
    <2> QED
      BY <2>2, <2>3 DEF n
  <1>3. Tab!Last(p) \in Slot /\ Tab!Last(p) = p[Len(p)]
    BY <1>1 DEF Path, Tab!Last
  <1> DEFINE r == Append(Tab!Front(p), Tab!Last(p))
  <1>4. r \in Path /\ Len(r) = Len(p)
    BY <1>1, <1>2, <1>3, PathBasics
  <1>5. \A i \in 1..Len(p) : r[i] = p[i]
    BY <1>1, <1>2, <1>3 DEF Path
  <1> HIDE DEF r
  <1>6. r = p
    BY <1>4, <1>5, SeqEqual DEF Path
  <1> QED
    BY <1>1, <1>2, <1>3, <1>6 DEF r

LEMMA PathFront ==
    ASSUME NEW q \in Path, NEW s \in Slot
    PROVE  Tab!Front(Append(q, s)) = q /\ Tab!Last(Append(q, s)) = s
  <1>1. /\ Append(q, s) \in Path /\ Append(q, s) # <<>>
        /\ \A r \in Path, t \in Slot : Append(q, s) = Append(r, t) => q = r /\ s = t
    BY PathBasics
  <1> HIDE DEF Path, Slot
  <1>2. /\ Tab!Front(Append(q, s)) \in Path /\ Tab!Last(Append(q, s)) \in Slot
        /\ Append(q, s) = Append(Tab!Front(Append(q, s)), Tab!Last(Append(q, s)))
    BY <1>1, PathEnds
  <1> QED
    BY <1>1, <1>2

(* What holds of the root and passes down to both slots holds of all paths. *)
LEMMA Descent ==
    ASSUME NEW S, <<>> \in S,
           \A q \in Path, s \in Slot : q \in S => Append(q, s) \in S
    PROVE  Path \subseteq S
  <1> DEFINE T == {n \in Nat : \A p \in Path : Len(p) = n => p \in S}
  <1>1. 0 \in T
    BY EmptySeq DEF Path
  <1>2. ASSUME NEW n \in Nat, n \in T PROVE n + 1 \in T
    <2>1. SUFFICES ASSUME NEW p \in Path, Len(p) = n + 1 PROVE p \in S
      OBVIOUS
    <2>2. p # <<>>
      BY <2>1
    <2>3. /\ Tab!Front(p) \in Path /\ Tab!Last(p) \in Slot
          /\ p = Append(Tab!Front(p), Tab!Last(p)) /\ Len(Tab!Front(p)) = n
      BY <2>1, <2>2, PathEnds
    <2>4. Tab!Front(p) \in S
      BY <1>2, <2>3
    <2> QED
      BY <2>3, <2>4
  <1>3. Nat \subseteq T
    <2> HIDE DEF T
    <2> QED
      BY <1>1, <1>2, Counting
  <1>4. \A p \in Path : Len(p) \in Nat
    BY DEF Path
  <1> QED
    BY <1>3, <1>4

LEMMA RootPath == <<>> \in Path /\ Len(<<>>) = 0
  BY DEF Path

LEMMA UnderRoot ==
    ASSUME NEW p \in Path
    PROVE  /\ Leads(<<>>, p) /\ Leads(p, p) /\ (Leads(p, <<>>) => p = <<>>) /\ <<>> \in Path
  BY EmptySeq DEF Leads, Path

LEMMA UnderTrans ==
    ASSUME NEW p \in Path, NEW q \in Path, NEW r \in Path, Leads(p, q)
    PROVE  /\ Leads(q, r) => Leads(p, r)
           /\ Leads(q, p) => p = q
           /\ Leads(r, q) => Leads(p, r) \/ Leads(r, p)
  <1>1. Len(p) \in Nat /\ Len(q) \in Nat /\ Len(r) \in Nat
    BY DEF Path
  <1>2. Leads(q, r) => Leads(p, r)
    BY <1>1 DEF Leads
  <1>3. Leads(q, p) => p = q
    BY <1>1, SeqEqual DEF Leads, Path
  <1>4. Leads(r, q) => Leads(p, r) \/ Leads(r, p)
    BY <1>1 DEF Leads
  <1> QED
    BY <1>2, <1>3, <1>4

LEMMA UnderAppend ==
    ASSUME NEW q \in Path, NEW p \in Path, NEW s \in Slot
    PROVE  /\ Leads(q, Append(p, s)) <=> q = Append(p, s) \/ Leads(q, p)
           /\ Leads(p, Append(p, s)) /\ ~Leads(Append(p, s), p)
  <1> DEFINE a == Append(p, s)
  <1>1. /\ a \in Path /\ Len(p) \in Nat /\ Len(a) = Len(p) + 1 /\ Len(q) \in Nat
        /\ \A i \in 1..Len(p) : a[i] = p[i]
    BY PathBasics
  <1> HIDE DEF a
  <1>2. Leads(q, a) => q = a \/ Leads(q, p)
    <2>1. CASE Len(q) = Len(a)
      BY <1>1, <2>1, SeqEqual DEF Leads, Path
    <2>2. CASE Len(q) # Len(a)
      BY <1>1, <2>2 DEF Leads
    <2> QED
      BY <2>1, <2>2
  <1>3. q = a \/ Leads(q, p) => Leads(q, a)
    BY <1>1 DEF Leads
  <1>4. Leads(p, a) /\ ~Leads(a, p)
    BY <1>1 DEF Leads
  <1> QED
    BY <1>2, <1>3, <1>4 DEF a

LEMMA UnderNext ==
    ASSUME NEW q \in Path, NEW p \in Path, NEW s \in Slot
    PROVE  Leads(Append(q, s), p) <=> Leads(q, p) /\ Len(p) > Len(q) /\ p[Len(q) + 1] = s
  <1> DEFINE a == Append(q, s)
  <1>1. /\ Len(a) = Len(q) + 1 /\ a[Len(q) + 1] = s /\ \A i \in 1..Len(q) : a[i] = q[i]
        /\ Len(q) \in Nat /\ Len(p) \in Nat
    BY PathBasics DEF Path
  <1> HIDE DEF a
  <1>2. 1..(Len(q) + 1) = (1..Len(q)) \cup {Len(q) + 1}
    BY <1>1
  <1>3. Leads(a, p) <=> Leads(q, p) /\ Len(p) > Len(q) /\ p[Len(q) + 1] = s
    BY <1>1, <1>2 DEF Leads
  <1> QED
    BY <1>3 DEF a

(* Below a node is itself, or it is below one of its slots; not both.       *)
LEMMA UnderSlot ==
    ASSUME NEW q \in Path, NEW p \in Path
    PROVE  /\ \A s \in Slot : Leads(Append(q, s), p) => Leads(q, p) /\ p # q
           /\ Leads(q, p) /\ p # q => \E s \in Slot : Leads(Append(q, s), p)
           /\ \A s, t \in Slot : Leads(Append(q, s), p) /\ Leads(Append(q, t), p) => s = t
  <1>1. Len(q) \in Nat /\ Len(p) \in Nat
    BY DEF Path
  <1>2. Leads(q, p) /\ p # q => Len(p) > Len(q) /\ p[Len(q) + 1] \in Slot
    BY <1>1, SeqEqual DEF Leads, Path
  <1>3. \A s \in Slot : Leads(Append(q, s), p) <=>
                          Leads(q, p) /\ Len(p) > Len(q) /\ p[Len(q) + 1] = s
    BY UnderNext
  <1> QED
    BY <1>1, <1>2, <1>3

(* Of two paths neither of which leads to the other, each takes another slot *)
(* of one node.                                                              *)
LEMMA Diverge ==
    ASSUME NEW p \in Path, NEW q \in Path, ~Leads(p, q), ~Leads(q, p)
    PROVE  \E d \in Path, s \in Slot : Leads(Append(d, s), p) /\ Leads(Append(d, 1 - s), q)
  <1> DEFINE Parts(r) == Leads(r, q) \/ Leads(q, r) \/
               \E d \in Path, s \in Slot : Leads(Append(d, s), r) /\ Leads(Append(d, 1 - s), q)
             S == {r \in Path : Parts(r)}
  <1>1. <<>> \in S
    BY UnderRoot
  <1>2. ASSUME NEW r \in Path, NEW s \in Slot, r \in S PROVE Append(r, s) \in S
    <2>1. Append(r, s) \in Path /\ Leads(r, Append(r, s))
      BY PathBasics, UnderAppend
    <2>2. CASE Leads(r, q)
      <3>1. CASE q = r
        BY <2>1, <3>1
      <3>2. CASE q # r
        <4>1. PICK t \in Slot : Leads(Append(r, t), q)
          BY <2>2, <3>2, UnderSlot
        <4>2. t = s \/ t = 1 - s
          BY DEF Slot
        <4>3. Leads(Append(r, s), Append(r, s))
          BY <2>1, UnderRoot
        <4> QED
          BY <2>1, <4>1, <4>2, <4>3
      <3> QED
        BY <3>1, <3>2
    <2>3. CASE Leads(q, r)
      BY <2>1, <2>3, UnderAppend
    <2>4. CASE \E d \in Path, t \in Slot : Leads(Append(d, t), r) /\ Leads(Append(d, 1 - t), q)
      <3>1. PICK d \in Path, t \in Slot : Leads(Append(d, t), r) /\ Leads(Append(d, 1 - t), q)
        BY <2>4
      <3>2. Leads(Append(d, t), Append(r, s))
        BY <3>1, PathBasics, UnderAppend
      <3> QED
        BY <2>1, <3>1, <3>2
    <2> QED
      BY <1>2, <2>2, <2>3, <2>4
  <1>3. Path \subseteq S
    <2> HIDE DEF S
    <2> QED
      BY <1>1, <1>2, Descent
  <1> QED
    BY <1>3

-----------------------------------------------------------------------------
(* The order of the panes.                                                  *)

Less(p, q) == \E d \in Path : Leads(Append(d, 0), p) /\ Leads(Append(d, 1), q)

LEMMA BeforeIsLess ==
    ASSUME NEW p \in Path, NEW q \in Path, ~Leads(q, p)
    PROVE  Tab!Before(p, q) <=> Less(p, q)
  <1>0. Len(p) \in Nat /\ Len(q) \in Nat
    BY DEF Path
  <1>1. ASSUME Tab!Before(p, q) PROVE Less(p, q)
    <2>1. PICK n \in 1..Len(p) : SubSeq(p, 1, n - 1) = SubSeq(q, 1, n - 1) /\ p[n] < q[n]
      BY <1>1 DEF Tab!Before
    <2> DEFINE k == n - 1
               d == SubSeq(p, 1, k)
    <2>2. k \in Nat /\ k < Len(p)
      BY <1>0, <2>1
    <2>3. d = SubSeq(q, 1, k)
      BY <2>1
    <2>4. \A i \in 1..k : p[i] \in Slot
      BY <1>0, <2>2 DEF Path
    <2> HIDE DEF k
    <2>5. /\ d \in Path /\ Len(d) = k /\ \A i \in 1..k : d[i] = p[i] /\ d[i] = q[i]
      <3>1. /\ Len(d) = k /\ \A i \in 1..k : d[i] = p[i]
            /\ d \in Seq(Slot)
        BY <2>2, <2>4, Cut
      <3>2. \A i \in 1..k : SubSeq(q, 1, k)[i] = q[i]
        BY <2>2, Cut
      <3> QED
        BY <2>3, <3>1, <3>2 DEF Path
    <2> HIDE DEF d
    <2>6. Leads(d, p)
      BY <1>0, <2>2, <2>5 DEF Leads
    <2>7. k < Len(q)
      <3>1. SUFFICES ASSUME Len(q) <= k PROVE FALSE
        BY <1>0, <2>2
      <3>2. \A i \in 1..Len(q) : p[i] = q[i]
        BY <1>0, <2>2, <2>5, <3>1
      <3> QED
        BY <1>0, <2>2, <3>1, <3>2 DEF Leads
    <2>8. Leads(d, q)
      BY <1>0, <2>2, <2>5, <2>7 DEF Leads
    <2>9. p[k + 1] = 0 /\ q[k + 1] = 1
      <3>1. p[k + 1] < q[k + 1]
        BY <2>1, <1>0 DEF k
      <3>2. p[k + 1] \in Slot /\ q[k + 1] \in Slot
        BY <1>0, <2>2, <2>7 DEF Path
      <3> QED
        BY <3>1, <3>2 DEF Slot
    <2>10. Leads(Append(d, 0), p) /\ Leads(Append(d, 1), q)
      BY <1>0, <2>2, <2>5, <2>6, <2>7, <2>8, <2>9, UnderNext DEF Slot
    <2> QED
      BY <2>5, <2>10 DEF Less
  <1>2. ASSUME Less(p, q) PROVE Tab!Before(p, q)
    <2>1. PICK d \in Path : Leads(Append(d, 0), p) /\ Leads(Append(d, 1), q)
      BY <1>2 DEF Less
    <2>2. /\ Leads(d, p) /\ Len(p) > Len(d) /\ p[Len(d) + 1] = 0
          /\ Leads(d, q) /\ Len(q) > Len(d) /\ q[Len(d) + 1] = 1
      BY <2>1, UnderNext DEF Slot
    <2>3. Len(d) \in Nat
      BY DEF Path
    <2>4. \A i \in 1..Len(d) : p[i] = d[i] /\ q[i] = d[i]
      BY <2>2 DEF Leads
    <2>5. SubSeq(p, 1, Len(d)) = SubSeq(q, 1, Len(d))
      <3> DEFINE a == SubSeq(p, 1, Len(d))
                 b == SubSeq(q, 1, Len(d))
      <3>1. /\ a \in Path /\ b \in Path /\ Len(a) = Len(d) /\ Len(b) = Len(d)
            /\ \A i \in 1..Len(d) : a[i] = p[i] /\ b[i] = q[i]
        <4>1. \A i \in 1..Len(d) : p[i] \in Slot /\ q[i] \in Slot
          BY <1>0, <2>2, <2>3 DEF Path
        <4> QED
          BY <2>3, <4>1, Cut DEF Path
      <3> HIDE DEF a, b
      <3>2. a = b
        BY <2>4, <3>1, SeqEqual DEF Path
      <3> QED
        BY <3>2 DEF a, b
    <2> DEFINE n == Len(d) + 1
    <2>6. n \in 1..Len(p) /\ n - 1 = Len(d) /\ p[n] < q[n]
      BY <1>0, <2>2, <2>3
    <2> QED
      BY <2>5, <2>6 DEF Tab!Before
  <1> QED
    BY <1>1, <1>2

LEMMA LessIsOrder ==
    ASSUME NEW p \in Path, NEW q \in Path
    PROVE  /\ ~Leads(p, q) /\ ~Leads(q, p) => Less(p, q) \/ Less(q, p)
           /\ Less(p, q) => ~Leads(p, q) /\ ~Leads(q, p)
           /\ \A r \in Path : Less(p, q) /\ Less(q, r) => Less(p, r)
  <1>1. ~Leads(p, q) /\ ~Leads(q, p) => Less(p, q) \/ Less(q, p)
    <2>1. SUFFICES ASSUME ~Leads(p, q), ~Leads(q, p) PROVE Less(p, q) \/ Less(q, p)
      OBVIOUS
    <2>2. PICK d \in Path, s \in Slot : Leads(Append(d, s), p) /\ Leads(Append(d, 1 - s), q)
      BY <2>1, Diverge
    <2>3. s = 0 \/ s = 1
      BY DEF Slot
    <2> QED
      BY <2>2, <2>3 DEF Less
  <1>2. ASSUME Less(p, q) PROVE ~Leads(p, q) /\ ~Leads(q, p)
    <2>1. PICK d \in Path : Leads(Append(d, 0), p) /\ Leads(Append(d, 1), q)
      BY <1>2 DEF Less
    <2>2. Append(d, 0) \in Path /\ Append(d, 1) \in Path
      BY PathBasics DEF Slot
    <2>3. Leads(p, q) => Leads(Append(d, 0), q)
      BY <2>1, <2>2, UnderTrans
    <2>4. Leads(q, p) => Leads(Append(d, 1), p)
      BY <2>1, <2>2, UnderTrans
    <2> QED
      BY <2>1, <2>3, <2>4, UnderSlot DEF Slot
  <1>3. ASSUME NEW r \in Path, Less(p, q), Less(q, r) PROVE Less(p, r)
    <2>1. PICK d \in Path : Leads(Append(d, 0), p) /\ Leads(Append(d, 1), q)
      BY <1>3 DEF Less
    <2>2. PICK e \in Path : Leads(Append(e, 0), q) /\ Leads(Append(e, 1), r)
      BY <1>3 DEF Less
    <2>3. /\ {Append(d, 0), Append(d, 1), Append(e, 0), Append(e, 1)} \subseteq Path
          /\ 0 \in Slot /\ 1 \in Slot
      BY PathBasics DEF Slot
    <2>4. Append(d, 1) # Append(e, 0)
      BY PathBasics DEF Slot
    <2>5. Leads(Append(d, 1), Append(e, 0)) \/ Leads(Append(e, 0), Append(d, 1))
      BY <2>1, <2>2, <2>3, UnderTrans
    <2>6. CASE Leads(Append(d, 1), Append(e, 0))
      <3>1. Leads(Append(d, 1), e)
        BY <2>3, <2>4, <2>6, UnderAppend
      <3>2. Leads(Append(d, 1), Append(e, 1))
        BY <2>3, <3>1, UnderAppend
      <3>3. Leads(Append(d, 1), r)
        BY <2>2, <2>3, <3>2, UnderTrans
      <3> QED
        BY <2>1, <3>3 DEF Less
    <2>7. CASE Leads(Append(e, 0), Append(d, 1))
      <3>1. Leads(Append(e, 0), d)
        BY <2>3, <2>4, <2>7, UnderAppend
      <3>2. Leads(Append(e, 0), Append(d, 0))
        BY <2>3, <3>1, UnderAppend
      <3>3. Leads(Append(e, 0), p)
        BY <2>1, <2>3, <3>2, UnderTrans
      <3> QED
        BY <2>2, <3>3 DEF Less
    <2> QED
      BY <2>5, <2>6, <2>7
  <1> QED
    BY <1>1, <1>2, <1>3

(* Of finitely many things in an order, one is the first.                   *)
LEMMA FirstOfMany ==
    ASSUME NEW S, IsFiniteSet(S), S # {}, NEW Lt,
           \A x \in S, y \in S : x # y => <<x, y>> \in Lt \/ <<y, x>> \in Lt,
           \A x \in S, y \in S, z \in S :
             x # z /\ <<x, y>> \in Lt /\ <<y, z>> \in Lt => <<x, z>> \in Lt
    PROVE  \E x \in S : \A y \in S \ {x} : <<x, y>> \in Lt
  <1> DEFINE Has(T) == \E x \in T : \A y \in T \ {x} : <<x, y>> \in Lt
             N == {n \in Nat : \A T \in SUBSET S : Cardinality(T) = n /\ T # {} => Has(T)}
  <1>1. 0 \in N
    <2>1. \A T \in SUBSET S : Cardinality(T) = 0 => T = {}
      BY FS_Subset, FS_EmptySet
    <2> QED
      BY <2>1
  <1>2. ASSUME NEW n \in Nat, n \in N PROVE n + 1 \in N
    <2>1. SUFFICES ASSUME NEW T \in SUBSET S, Cardinality(T) = n + 1 PROVE Has(T)
      OBVIOUS
    <2>2. IsFiniteSet(T) /\ T # {}
      BY <2>1, FS_Subset, FS_EmptySet
    <2>3. PICK x \in T : TRUE
      BY <2>2
    <2>4. /\ T \ {x} \in SUBSET S /\ Cardinality(T \ {x}) = n
      <3>1. Cardinality(T \ {x}) = Cardinality(T) - 1
        BY <2>2, <2>3, FS_RemoveElement
      <3> QED
        BY <2>1, <3>1
    <2>5. CASE T \ {x} = {}
      BY <2>5
    <2>6. CASE T \ {x} # {}
      <3>1. Has(T \ {x})
        BY <1>2, <2>4, <2>6
      <3>2. PICK y \in T \ {x} : \A z \in (T \ {x}) \ {y} : <<y, z>> \in Lt
        BY <3>1
      <3>3. CASE <<y, x>> \in Lt
        <4>1. \A z \in T \ {y} : <<y, z>> \in Lt
          BY <3>2, <3>3
        <4> QED
          BY <4>1
      <3>4. CASE <<x, y>> \in Lt
        <4>1. \A z \in T \ {x} : <<x, z>> \in Lt
          BY <2>1, <3>2, <3>4
        <4> QED
          BY <2>3, <4>1
      <3> QED
        BY <2>1, <3>2, <3>3, <3>4
    <2> QED
      BY <2>5, <2>6
  <1>3. Nat \subseteq N
    <2> HIDE DEF N
    <2> QED
      BY <1>1, <1>2, Counting
  <1>4. Cardinality(S) \in Nat
    BY FS_CardinalityType
  <1> QED
    BY <1>3, <1>4

LEMMA Bounded ==
    ASSUME NEW S, IsFiniteSet(S), NEW f, \A x \in S : f[x] \in Nat
    PROVE  \E n \in Nat : \A x \in S : f[x] <= n
  <1> DEFINE Has(T) == \E b \in Nat : \A x \in T : f[x] <= b
             N == {n \in Nat : \A T \in SUBSET S : Cardinality(T) = n => Has(T)}
  <1>1. 0 \in N
    <2>1. \A T \in SUBSET S : Cardinality(T) = 0 => T = {}
      BY FS_Subset, FS_EmptySet
    <2> QED
      BY <2>1
  <1>2. ASSUME NEW n \in Nat, n \in N PROVE n + 1 \in N
    <2>1. SUFFICES ASSUME NEW T \in SUBSET S, Cardinality(T) = n + 1 PROVE Has(T)
      OBVIOUS
    <2>2. IsFiniteSet(T) /\ T # {}
      BY <2>1, FS_Subset, FS_EmptySet
    <2>3. PICK x \in T : TRUE
      BY <2>2
    <2>4. /\ T \ {x} \in SUBSET S /\ Cardinality(T \ {x}) = n
      <3>1. Cardinality(T \ {x}) = Cardinality(T) - 1
        BY <2>2, <2>3, FS_RemoveElement
      <3> QED
        BY <2>1, <3>1
    <2>5. PICK b \in Nat : \A y \in T \ {x} : f[y] <= b
      BY <1>2, <2>4
    <2>6. f[x] \in Nat /\ \A y \in T : f[y] \in Nat
      BY <2>1, <2>3
    <2>7. \A y \in T : f[y] <= f[x] + b
      <3>1. SUFFICES ASSUME NEW y \in T PROVE f[y] <= f[x] + b
        OBVIOUS
      <3>2. CASE y = x
        BY <2>6, <3>2
      <3>3. CASE y # x
        <4>1. f[y] <= b
          BY <2>5, <3>3
        <4> QED
          BY <2>6, <4>1
      <3> QED
        BY <3>2, <3>3
    <2>8. f[x] + b \in Nat
      BY <2>6
    <2> QED
      BY <2>7, <2>8
  <1>3. Nat \subseteq N
    <2> HIDE DEF N
    <2> QED
      BY <1>1, <1>2, Counting
  <1>4. Cardinality(S) \in Nat
    BY FS_CardinalityType
  <1> QED
    BY <1>3, <1>4

(* The image of a finite set.                                               *)
LEMMA ImageOf ==
    ASSUME NEW S, IsFiniteSet(S), NEW f, f = [x \in S |-> f[x]]
    PROVE  /\ IsFiniteSet({f[x] : x \in S})
           /\ Cardinality({f[x] : x \in S}) <= Cardinality(S)
           /\ Cardinality({f[x] : x \in S}) = Cardinality(S) =>
                \A x \in S, y \in S : f[x] = f[y] => x = y
  <1> DEFINE T == {f[x] : x \in S}
  <1>1. f \in Surjection(S, T)
    BY DEF Surjection
  <1> HIDE DEF T
  <1>2. /\ IsFiniteSet(T) /\ Cardinality(T) <= Cardinality(S)
        /\ Cardinality(T) = Cardinality(S) <=> f \in Injection(S, T)
    BY <1>1, FS_Surjection
  <1>3. f \in Injection(S, T) => \A x \in S, y \in S : f[x] = f[y] => x = y
    BY DEF Injection, IsInjective
  <1> QED
    BY <1>2, <1>3 DEF T

-----------------------------------------------------------------------------
(* The nodes of a tree.                                                     *)

Leaves(l) == DOMAIN l.panes
Inner(l) == DOMAIN l.splits
Nodes(l) == Leaves(l) \cup Inner(l)

LEMMA TreeFacts ==
    ASSUME NEW l, Tab!isTree(l)
    PROVE  /\ l = [panes |-> l.panes, splits |-> l.splits, focused |-> l.focused]
           /\ IsFiniteSet(Nodes(l)) /\ Nodes(l) \subseteq Path /\ <<>> \in Nodes(l)
           /\ IsFiniteSet(Leaves(l)) /\ IsFiniteSet(Inner(l))
           /\ Leaves(l) \cap Inner(l) = {}
           /\ \A p \in Inner(l), s \in Slot : Append(p, s) \in Nodes(l)
           /\ \A p \in Inner(l) : Tab!isSplit(l.splits[p])
           /\ \A p \in Path, s \in Slot : Append(p, s) \in Nodes(l) => p \in Inner(l)
           /\ l.focused \in Tab!paneIds(l)
  <1>1. Tab!nodes(l) = Nodes(l) /\ Path = Seq({0, 1})
    BY DEF Tab!nodes, Nodes, Leaves, Inner, Path, Slot
  <1>2. IsFiniteSet(Nodes(l)) /\ Nodes(l) \subseteq Path /\ <<>> \in Nodes(l)
    <2>1. /\ IsFiniteSet(Tab!nodes(l)) /\ Tab!nodes(l) \subseteq Seq({0, 1})
          /\ <<>> \in Tab!nodes(l)
      BY DEF Tab!isTree, Tab!IsFiniteSet, IsFiniteSet
    <2> QED
      BY <1>1, <2>1
  <1>3. IsFiniteSet(Leaves(l)) /\ IsFiniteSet(Inner(l))
    BY <1>2, FS_Subset DEF Nodes
  <1>4. \A p \in Inner(l), s \in Slot : Append(p, s) \in Nodes(l)
    <2>1. \A p \in Inner(l) : {Append(p, 0), Append(p, 1)} \subseteq Nodes(l)
      BY <1>1 DEF Tab!isTree, Inner
    <2> QED
      BY <2>1 DEF Slot
  <1>5. \A p \in Path, s \in Slot : Append(p, s) \in Nodes(l) => p \in Inner(l)
    <2>1. \A p \in Nodes(l) \ {<<>>} : Tab!Front(p) \in Inner(l)
      BY <1>1 DEF Tab!isTree, Inner
    <2>2. SUFFICES ASSUME NEW p \in Path, NEW s \in Slot, Append(p, s) \in Nodes(l)
                   PROVE  p \in Inner(l)
      OBVIOUS
    <2>3. Tab!Front(Append(p, s)) = p /\ Append(p, s) # <<>>
      BY PathFront, PathBasics
    <2> QED
      BY <2>1, <2>2, <2>3
  <1> QED
    BY <1>2, <1>3, <1>4, <1>5 DEF Tab!isTree, Leaves, Inner

(* What holds of the leaves and passes up from both slots holds of all nodes. *)
LEMMA Ascent ==
    ASSUME NEW l, Tab!isTree(l), NEW S, Leaves(l) \subseteq S,
           \A q \in Inner(l) : Append(q, 0) \in S /\ Append(q, 1) \in S => q \in S
    PROVE  Nodes(l) \subseteq S
  <1>0. /\ IsFiniteSet(Nodes(l)) /\ Nodes(l) \subseteq Path
        /\ \A p \in Inner(l), s \in Slot : Append(p, s) \in Nodes(l)
    BY TreeFacts
  <1>1. PICK d \in Nat : \A p \in Nodes(l) : Len(p) <= d
    <2> DEFINE f == [p \in Nodes(l) |-> Len(p)]
    <2>1. \A p \in Nodes(l) : f[p] = Len(p) /\ f[p] \in Nat
      BY <1>0 DEF Path
    <2> HIDE DEF f
    <2>2. \E n \in Nat : \A p \in Nodes(l) : f[p] <= n
      BY <1>0, <2>1, Bounded
    <2> QED
      BY <2>1, <2>2
  <1> DEFINE T == {k \in Nat : \A q \in Nodes(l) : Len(q) + k > d => q \in S}
  <1>2. 0 \in T
    BY <1>0, <1>1 DEF Path
  <1>3. ASSUME NEW k \in Nat, k \in T PROVE k + 1 \in T
    <2>1. SUFFICES ASSUME NEW q \in Nodes(l), Len(q) + (k + 1) > d PROVE q \in S
      OBVIOUS
    <2>2. CASE q \in Leaves(l)
      BY <2>2
    <2>3. CASE q \in Inner(l)
      <3>1. q \in Path /\ 0 \in Slot /\ 1 \in Slot
        BY <1>0, <2>1 DEF Slot
      <3>2. /\ Len(q) \in Nat
            /\ Len(Append(q, 0)) = Len(q) + 1 /\ Len(Append(q, 1)) = Len(q) + 1
        BY <3>1, PathBasics
      <3>3. Append(q, 0) \in Nodes(l) /\ Append(q, 1) \in Nodes(l)
        BY <1>0, <2>3, <3>1
      <3>4. Len(q) + 1 + k > d
        BY <2>1, <3>2
      <3>5. Append(q, 0) \in S /\ Append(q, 1) \in S
        BY <1>3, <3>2, <3>3, <3>4
      <3> QED
        BY <2>3, <3>5
    <2> QED
      BY <2>1, <2>2, <2>3 DEF Nodes
  <1>4. Nat \subseteq T
    <2> HIDE DEF T
    <2> QED
      BY <1>2, <1>3, Counting
  <1>5. ASSUME NEW q \in Nodes(l) PROVE q \in S
    <2>1. Len(q) \in Nat
      BY <1>0, <1>5 DEF Path
    <2>0. d + 1 \in T
      <3>1. d + 1 \in Nat
        OBVIOUS
      <3> HIDE DEF T
      <3> QED
        BY <1>4, <3>1
    <2>2. Len(q) + (d + 1) > d
      BY <2>1
    <2> QED
      BY <2>0, <2>2
  <1> QED
    BY <1>5

(* What leads to a node is a node, and inner if it is not that node.        *)
LEMMA NodeAbove ==
    ASSUME NEW l, Tab!isTree(l), NEW p \in Nodes(l), NEW q \in Path, Leads(q, p)
    PROVE  q \in Nodes(l) /\ (q # p => q \in Inner(l))
  <1> DEFINE S == {r \in Path : r \in Nodes(l) => (Leads(q, r) => q \in Nodes(l) /\ (q # r => q \in Inner(l)))}
  <1>0. /\ Nodes(l) \subseteq Path /\ <<>> \in Nodes(l) /\ Inner(l) \subseteq Nodes(l)
        /\ \A r \in Path, s \in Slot : Append(r, s) \in Nodes(l) => r \in Inner(l)
    BY TreeFacts DEF Nodes
  <1>1. <<>> \in S
    BY <1>0, UnderRoot
  <1>2. ASSUME NEW r \in Path, NEW s \in Slot, r \in S PROVE Append(r, s) \in S
    <2>1. Append(r, s) \in Path
      BY PathBasics
    <2>2. SUFFICES ASSUME Append(r, s) \in Nodes(l), Leads(q, Append(r, s))
                   PROVE  q \in Nodes(l) /\ (q # Append(r, s) => q \in Inner(l))
      BY <2>1
    <2>3. r \in Inner(l) /\ r \in Nodes(l)
      BY <1>0, <2>2
    <2>4. q = Append(r, s) \/ Leads(q, r)
      BY <2>2, UnderAppend
    <2> QED
      BY <1>2, <2>2, <2>3, <2>4
  <1>3. Path \subseteq S
    <2> HIDE DEF S
    <2> QED
      BY <1>1, <1>2, Descent
  <1> QED
    BY <1>0, <1>3

LEMMA LeavesApart ==
    ASSUME NEW l, Tab!isTree(l), NEW p \in Leaves(l), NEW q \in Nodes(l), p # q
    PROVE  ~Leads(p, q)
  <1>1. p \in Path /\ p \notin Inner(l)
    BY TreeFacts DEF Nodes
  <1> QED
    BY <1>1, NodeAbove

LEMMA LeafUnder ==
    ASSUME NEW l, Tab!isTree(l), NEW q \in Nodes(l)
    PROVE  \E p \in Leaves(l) : Leads(q, p)
  <1> DEFINE S == {r \in Nodes(l) : \E p \in Leaves(l) : Leads(r, p)}
  <1>0. /\ Nodes(l) \subseteq Path /\ Leaves(l) \subseteq Nodes(l) /\ Inner(l) \subseteq Nodes(l)
    BY TreeFacts DEF Nodes
  <1>1. Leaves(l) \subseteq S
    BY <1>0, UnderRoot
  <1>2. ASSUME NEW r \in Inner(l), Append(r, 0) \in S PROVE r \in S
    <2>1. PICK p \in Leaves(l) : Leads(Append(r, 0), p)
      BY <1>2
    <2>2. Leads(r, p)
      BY <1>0, <2>1, UnderSlot DEF Slot
    <2> QED
      BY <1>0, <2>2
  <1>3. Nodes(l) \subseteq S
    <2> HIDE DEF S
    <2> QED
      BY <1>1, <1>2, Ascent
  <1> QED
    BY <1>3

(* The first of some leaves is one of them, and so is the last.             *)
LEMMA FirstLeaf ==
    ASSUME NEW l, Tab!isTree(l), NEW T \in SUBSET Leaves(l), T # {}
    PROVE  /\ Tab!firstOf(T) \in T
           /\ (CHOOSE p \in T : \A q \in T \ {p} : Tab!Before(q, p)) \in T
  <1>0. /\ T \subseteq Path /\ IsFiniteSet(T)
        /\ \A p \in T, q \in T : p # q => ~Leads(p, q)
    BY TreeFacts, LeavesApart, FS_Subset DEF Nodes
  <1>1. /\ \A p \in T, q \in T : p # q => (Tab!Before(p, q) <=> Less(p, q))
        /\ \A p \in T, q \in T : p # q => Less(p, q) \/ Less(q, p)
        /\ \A p \in T, q \in T, r \in T : Less(p, q) /\ Less(q, r) => Less(p, r)
    BY <1>0, BeforeIsLess, LessIsOrder
  <1> DEFINE Lt == {t \in T \X T : Less(t[1], t[2])}
             Gt == {t \in T \X T : Less(t[2], t[1])}
  <1>2. \A p \in T, q \in T : (<<p, q>> \in Lt <=> Less(p, q)) /\ (<<p, q>> \in Gt <=> Less(q, p))
    OBVIOUS
  <1> HIDE DEF Lt, Gt
  <1>3. \E p \in T : \A q \in T \ {p} : <<p, q>> \in Lt
    <2>1. \A p \in T, q \in T : p # q => <<p, q>> \in Lt \/ <<q, p>> \in Lt
      BY <1>1, <1>2
    <2>2. \A x \in T, y \in T, z \in T :
            x # z /\ <<x, y>> \in Lt /\ <<y, z>> \in Lt => <<x, z>> \in Lt
      BY <1>1, <1>2
    <2> QED
      BY <1>0, <2>1, <2>2, FirstOfMany
  <1>4. \E p \in T : \A q \in T \ {p} : <<p, q>> \in Gt
    <2>1. \A p \in T, q \in T : p # q => <<p, q>> \in Gt \/ <<q, p>> \in Gt
      BY <1>1, <1>2
    <2>2. \A x \in T, y \in T, z \in T :
            x # z /\ <<x, y>> \in Gt /\ <<y, z>> \in Gt => <<x, z>> \in Gt
      BY <1>1, <1>2
    <2> QED
      BY <1>0, <2>1, <2>2, FirstOfMany
  <1>5. /\ \E p \in T : \A q \in T \ {p} : Tab!Before(p, q)
        /\ \E p \in T : \A q \in T \ {p} : Tab!Before(q, p)
    BY <1>1, <1>2, <1>3, <1>4
  <1> QED
    BY <1>5 DEF Tab!firstOf

(* A tree is no deeper than it has panes.                                   *)
LEMMA Depth ==
    ASSUME NEW l, Tab!isTree(l), NEW q \in Nodes(l)
    PROVE  Len(q) < Cardinality(Leaves(l))
  <1> DEFINE Out(r) == {p \in Leaves(l) : ~Leads(r, p)}
             S == {r \in Path : r \in Nodes(l) => Cardinality(Out(r)) >= Len(r)}
  <1>0. /\ Nodes(l) \subseteq Path /\ Leaves(l) \subseteq Nodes(l) /\ IsFiniteSet(Leaves(l))
        /\ \A p \in Inner(l), s \in Slot : Append(p, s) \in Nodes(l)
        /\ \A p \in Path, s \in Slot : Append(p, s) \in Nodes(l) => p \in Inner(l)
        /\ Inner(l) \subseteq Nodes(l) /\ Cardinality(Leaves(l)) \in Nat
    BY TreeFacts, FS_CardinalityType DEF Nodes
  <1>1. \A r : IsFiniteSet(Out(r)) /\ Cardinality(Out(r)) \in Nat
    BY <1>0, FS_Subset, FS_CardinalityType
  <1>2. <<>> \in S
    <2>1. <<>> \in Path /\ Len(<<>>) = 0
      BY RootPath
    <2> HIDE DEF Out
    <2>2. Cardinality(Out(<<>>)) >= 0
      BY <1>1
    <2> QED
      BY <2>1, <2>2
  <1>3. ASSUME NEW r \in Path, NEW s \in Slot, r \in S PROVE Append(r, s) \in S
    <2> DEFINE a == Append(r, s)
               b == Append(r, 1 - s)
    <2>1. a \in Path /\ b \in Path /\ 1 - s \in Slot /\ 1 - s # s /\ Len(a) = Len(r) + 1
          /\ Len(r) \in Nat
      BY PathBasics DEF Slot
    <2>2. SUFFICES ASSUME a \in Nodes(l) PROVE Cardinality(Out(a)) >= Len(a)
      BY <2>1
    <2>3. r \in Inner(l) /\ r \in Nodes(l) /\ b \in Nodes(l)
      BY <1>0, <2>1, <2>2
    <2>4. PICK p \in Leaves(l) : Leads(b, p)
      BY <2>3, LeafUnder
    <2>5. p \in Path /\ Leads(r, p) /\ ~Leads(a, p)
      BY <1>0, <2>1, <2>4, UnderSlot
    <2>6. \A o \in Leaves(l) : Leads(a, o) => Leads(r, o)
      BY <1>0, UnderSlot
    <2>7. Out(r) \cup {p} \subseteq Out(a) /\ p \notin Out(r)
      BY <2>5, <2>6
    <2> HIDE DEF Out, a, b
    <2>8. Cardinality(Out(r) \cup {p}) = Cardinality(Out(r)) + 1
      BY <1>1, <2>7, FS_AddElement
    <2>9. Cardinality(Out(r) \cup {p}) <= Cardinality(Out(a))
      BY <1>1, <2>7, FS_Subset
    <2>10. Cardinality(Out(r)) >= Len(r)
      BY <1>3, <2>3
    <2>11. Cardinality(Out(r)) \in Nat /\ Cardinality(Out(a)) \in Nat
      BY <1>1
    <2> QED
      BY <2>1, <2>8, <2>9, <2>10, <2>11
  <1>4. Path \subseteq S
    <2> HIDE DEF S
    <2> QED
      BY <1>2, <1>3, Descent
  <1>5. PICK p \in Leaves(l) : Leads(q, p)
    BY LeafUnder
  <1>6. Out(q) \subseteq Leaves(l) \ {p}
    BY <1>5
  <1>7. Cardinality(Out(q)) >= Len(q)
    BY <1>0, <1>4
  <1> HIDE DEF Out
  <1>8. /\ Cardinality(Leaves(l) \ {p}) = Cardinality(Leaves(l)) - 1
        /\ IsFiniteSet(Leaves(l) \ {p})
    BY <1>0, FS_RemoveElement
  <1>9. Cardinality(Out(q)) <= Cardinality(Leaves(l) \ {p})
    BY <1>6, <1>8, FS_Subset
  <1>10. Len(q) \in Nat /\ Cardinality(Out(q)) \in Nat
    BY <1>0, <1>1 DEF Path
  <1> QED
    BY <1>0, <1>7, <1>8, <1>9, <1>10

-----------------------------------------------------------------------------
(* The rectangles of the nodes.                                             *)

Square == [x |-> 0, y |-> 0, w |-> Unit, h |-> Unit]

LEMMA CutOnce ==
    ASSUME NEW q \in Path, NEW s \in Slot, NEW n \in Nat, n <= Len(q)
    PROVE  /\ SubSeq(Append(q, s), 1, n) = SubSeq(q, 1, n)
           /\ n = Len(q) => SubSeq(q, 1, n) = q
  <1>1. Len(q) \in Nat /\ \A i \in 1..Len(q) : q[i] \in Slot /\ Append(q, s)[i] = q[i]
    BY PathBasics
  <1> DEFINE a == SubSeq(Append(q, s), 1, n)
             b == SubSeq(q, 1, n)
  <1>2. /\ Len(a) = n /\ Len(b) = n /\ \A i \in 1..n : a[i] = Append(q, s)[i] /\ b[i] = q[i]
        /\ \A i \in 1..n : Append(q, s)[i] = q[i] /\ q[i] \in Slot
    BY <1>1, Cut
  <1>3. a \in Path /\ b \in Path
    BY <1>2, Cut DEF Path
  <1> HIDE DEF a, b
  <1>4. a = b
    BY <1>2, <1>3, SeqEqual DEF Path
  <1>5. n = Len(q) => b = q
    BY <1>2, <1>3, SeqEqual DEF Path
  <1> QED
    BY <1>4, <1>5 DEF a, b

(* The rectangle of a path follows from those of the paths that lead to it. *)
LEMMA RectIsRecursive ==
    ASSUME NEW l, NEW p \in Path
    PROVE  \E r : /\ Tab!rectAt(l, p) = r[Len(p)] /\ r[0] = Square
                  /\ \A n \in Nat : n < Len(p) =>
                       r[n + 1] = Tab!half(r[n], l.splits[SubSeq(p, 1, n)], p[n + 1])
  <1>0. Len(p) \in Nat
    BY DEF Path
  <1> DEFINE Body(r, n) == IF n = 0 THEN [x |-> 0, y |-> 0, w |-> Unit, h |-> Unit]
                           ELSE Tab!half(r[n - 1], l.splits[SubSeq(p, 1, n - 1)], p[n])
             N == {m \in Nat : \E r : r = [n \in 0..m |-> Body(r, n)]}
  <1>1. 0 \in N
    <2> DEFINE g == [n \in 0..0 |-> Square]
    <2>1. g = [n \in 0..0 |-> Body(g, n)]
      BY DEF Square
    <2> QED
      BY <2>1
  <1>2. ASSUME NEW m \in Nat, m \in N PROVE m + 1 \in N
    <2>1. PICK g : g = [n \in 0..m |-> Body(g, n)]
      BY <1>2
    <2> DEFINE last == Tab!half(g[m], l.splits[SubSeq(p, 1, m)], p[m + 1])
               h == [n \in 0..(m + 1) |-> IF n = m + 1 THEN last ELSE g[n]]
    <2>2. \A n \in 0..m : g[n] = Body(g, n)
      BY <2>1
    <2>3. ASSUME NEW n \in 0..(m + 1) PROVE h[n] = Body(h, n)
      <3>1. CASE n = m + 1
        <4>1. h[n] = last /\ h[m] = g[m] /\ n - 1 = m /\ n # 0
          BY <3>1
        <4> HIDE DEF h
        <4> QED
          BY <3>1, <4>1
      <3>2. CASE n = 0
        <4>1. h[n] = g[n] /\ n \in 0..m
          BY <3>2
        <4> HIDE DEF h
        <4> QED
          BY <2>2, <3>2, <4>1
      <3>3. CASE n # m + 1 /\ n # 0
        <4>1. h[n] = g[n] /\ n \in 0..m /\ h[n - 1] = g[n - 1]
          BY <3>3
        <4> HIDE DEF h
        <4> QED
          BY <2>2, <3>3, <4>1
      <3> QED
        BY <3>1, <3>2, <3>3
    <2>4. h = [n \in 0..(m + 1) |-> h[n]]
      OBVIOUS
    <2> HIDE DEF h
    <2>5. h = [n \in 0..(m + 1) |-> Body(h, n)]
      BY <2>3, <2>4
    <2> QED
      BY <2>5
  <1>3. Len(p) \in N
    <2> HIDE DEF N
    <2>1. Nat \subseteq N
      BY <1>1, <1>2, Counting
    <2> QED
      BY <1>0, <2>1
  <1> DEFINE r == CHOOSE f : f = [n \in 0..Len(p) |-> Body(f, n)]
  <1>4. r = [n \in 0..Len(p) |-> Body(r, n)]
    BY <1>3
  <1>5. Tab!rectAt(l, p) = r[Len(p)]
    BY DEF Tab!rectAt
  <1> HIDE DEF r
  <1>6. \A n \in 0..Len(p) : r[n] = Body(r, n)
    BY <1>4
  <1>7. r[0] = Square
    BY <1>0, <1>6 DEF Square
  <1>8. ASSUME NEW n \in Nat, n < Len(p)
        PROVE  r[n + 1] = Tab!half(r[n], l.splits[SubSeq(p, 1, n)], p[n + 1])
    <2>1. n + 1 \in 0..Len(p) /\ n + 1 # 0 /\ (n + 1) - 1 = n
      BY <1>0, <1>8
    <2> QED
      BY <1>6, <2>1
  <1> QED
    BY <1>5, <1>7, <1>8

LEMMA RectSteps ==
    ASSUME NEW l
    PROVE  /\ Tab!rectAt(l, <<>>) = Square
           /\ \A q \in Path, s \in Slot :
                Tab!rectAt(l, Append(q, s)) = Tab!half(Tab!rectAt(l, q), l.splits[q], s)
  <1>1. Tab!rectAt(l, <<>>) = Square
    <2>1. <<>> \in Path /\ Len(<<>>) = 0
      BY RootPath
    <2>2. PICK r : Tab!rectAt(l, <<>>) = r[Len(<<>>)] /\ r[0] = Square
      BY <2>1, RectIsRecursive
    <2> QED
      BY <2>1, <2>2
  <1>2. ASSUME NEW q \in Path, NEW s \in Slot
        PROVE  Tab!rectAt(l, Append(q, s)) = Tab!half(Tab!rectAt(l, q), l.splits[q], s)
    <2> DEFINE p == Append(q, s)
    <2>1. /\ p \in Path /\ Len(q) \in Nat /\ Len(p) = Len(q) + 1 /\ p[Len(q) + 1] = s
          /\ \A i \in 1..Len(q) : p[i] = q[i]
      BY PathBasics
    <2>2. /\ \A n \in Nat : n <= Len(q) => SubSeq(p, 1, n) = SubSeq(q, 1, n)
          /\ SubSeq(q, 1, Len(q)) = q
      BY <2>1, CutOnce
    <2> HIDE DEF p
    <2>3. PICK a : /\ Tab!rectAt(l, p) = a[Len(p)] /\ a[0] = Square
                   /\ \A n \in Nat : n < Len(p) =>
                        a[n + 1] = Tab!half(a[n], l.splits[SubSeq(p, 1, n)], p[n + 1])
      BY <2>1, RectIsRecursive
    <2>4. PICK b : /\ Tab!rectAt(l, q) = b[Len(q)] /\ b[0] = Square
                   /\ \A n \in Nat : n < Len(q) =>
                        b[n + 1] = Tab!half(b[n], l.splits[SubSeq(q, 1, n)], q[n + 1])
      BY RectIsRecursive
    <2> DEFINE N == {n \in Nat : n <= Len(q) => a[n] = b[n]}
    <2>5. 0 \in N
      BY <2>3, <2>4
    <2>6. ASSUME NEW n \in Nat, n \in N PROVE n + 1 \in N
      <3>1. SUFFICES ASSUME n + 1 <= Len(q) PROVE a[n + 1] = b[n + 1]
        OBVIOUS
      <3>2. n < Len(q) /\ n < Len(p) /\ n <= Len(q) /\ n + 1 \in 1..Len(q)
        BY <2>1, <3>1
      <3>3. a[n] = b[n] /\ p[n + 1] = q[n + 1] /\ SubSeq(p, 1, n) = SubSeq(q, 1, n)
        BY <2>1, <2>2, <2>6, <3>2
      <3>4. a[n + 1] = Tab!half(a[n], l.splits[SubSeq(p, 1, n)], p[n + 1])
        BY <2>3, <3>2
      <3>5. b[n + 1] = Tab!half(b[n], l.splits[SubSeq(q, 1, n)], q[n + 1])
        BY <2>4, <3>2
      <3> QED
        BY <3>3, <3>4, <3>5
    <2>7. Nat \subseteq N
      <3> HIDE DEF N
      <3> QED
        BY <2>5, <2>6, Counting
    <2>8. a[Len(q)] = b[Len(q)]
      <3>1. Len(q) \in N
        <4> HIDE DEF N
        <4> QED
          BY <2>1, <2>7
      <3> QED
        BY <2>1, <3>1
    <2>9. a[Len(q) + 1] = Tab!half(a[Len(q)], l.splits[SubSeq(p, 1, Len(q))], p[Len(q) + 1])
      BY <2>1, <2>3
    <2>10. SubSeq(p, 1, Len(q)) = q
      BY <2>1, <2>2
    <2>11. Tab!rectAt(l, p) = Tab!half(Tab!rectAt(l, q), l.splits[q], s)
      BY <2>1, <2>3, <2>4, <2>8, <2>9, <2>10
    <2> QED
      BY <2>11 DEF p
  <1> QED
    BY <1>1, <1>2

(* The focus has no part in it.                                             *)
LEMMA RectsAlike ==
    ASSUME NEW k, NEW l, k.splits = l.splits
    PROVE  \A p \in Path : Tab!rectAt(k, p) = Tab!rectAt(l, p)
  <1> DEFINE S == {p \in Path : Tab!rectAt(k, p) = Tab!rectAt(l, p)}
  <1>1. <<>> \in S
    BY RectSteps, RootPath
  <1>2. ASSUME NEW q \in Path, NEW s \in Slot, q \in S PROVE Append(q, s) \in S
    <2>1. Append(q, s) \in Path
      BY PathBasics
    <2> QED
      BY <1>2, <2>1, RectSteps
  <1>3. Path \subseteq S
    <2> HIDE DEF S
    <2> QED
      BY <1>1, <1>2, Descent
  <1> QED
    BY <1>3

(* An axis, the ends of a rectangle along it, and the axis across.          *)
Axis == {"row", "column"}
Across(x) == IF x = "row" THEN "column" ELSE "row"
Start(r, x) == IF x = "row" THEN r.x ELSE r.y
Extent(r, x) == IF x = "row" THEN r.w ELSE r.h
IsBox(r) == /\ r = [x |-> r.x, y |-> r.y, w |-> r.w, h |-> r.h]
            /\ r.x \in Nat /\ r.y \in Nat /\ r.w \in Nat /\ r.h \in Nat

(* The two parts of a length, of at least a twentieth of it each.           *)
LEMMA Twentieth ==
    ASSUME NEW w \in Nat, NEW ratio \in 1..19
    PROVE  /\ (w * ratio) \div 20 \in Nat /\ (w * ratio) \div 20 <= w
           /\ \A e \in Nat : 20 * e <= w => /\ e <= (w * ratio) \div 20
                                            /\ (w * ratio) \div 20 + e <= w
  <1>1. /\ w * ratio \in Nat /\ w <= w * ratio /\ w * ratio <= 19 * w
    <2>1. \/ ratio = 1 \/ ratio = 2 \/ ratio = 3 \/ ratio = 4 \/ ratio = 5 \/ ratio = 6
          \/ ratio = 7 \/ ratio = 8 \/ ratio = 9 \/ ratio = 10 \/ ratio = 11 \/ ratio = 12
          \/ ratio = 13 \/ ratio = 14 \/ ratio = 15 \/ ratio = 16 \/ ratio = 17 \/ ratio = 18
          \/ ratio = 19
      OBVIOUS
    <2> QED
      BY <2>1
  <1> DEFINE a == w * ratio
  <1>2. a \in Nat /\ w <= a /\ a <= 19 * w
    BY <1>1
  <1> HIDE DEF a
  <1>3. a \div 20 \in Nat /\ 20 * (a \div 20) <= a /\ a < 20 * (a \div 20) + 20
    BY <1>2
  <1> DEFINE d == a \div 20
  <1>4. d \in Nat /\ 20 * d <= a /\ a < 20 * d + 20
    BY <1>3
  <1> HIDE DEF d
  <1>5. d <= w
    BY <1>2, <1>4
  <1>6. \A e \in Nat : 20 * e <= w => e <= d /\ d + e <= w
    BY <1>2, <1>4
  <1> QED
    BY <1>4, <1>5, <1>6 DEF d, a

(* What a split makes of a rectangle: along its axis the parts share an end, *)
(* across they are as long as the whole.                                     *)
LEMMA Halved ==
    ASSUME NEW r, IsBox(r), NEW s, Tab!isSplit(s), NEW x \in Axis
    PROVE  LET a == Tab!half(r, s, 0)
               b == Tab!half(r, s, 1)
           IN /\ IsBox(a) /\ IsBox(b)
              /\ s.axis # x =>
                   /\ Start(a, x) = Start(r, x) /\ Extent(a, x) = Extent(r, x)
                   /\ Start(b, x) = Start(r, x) /\ Extent(b, x) = Extent(r, x)
              /\ s.axis = x =>
                   /\ Start(a, x) = Start(r, x) /\ Start(b, x) = Start(r, x) + Extent(a, x)
                   /\ Extent(a, x) + Extent(b, x) = Extent(r, x)
                   /\ \A e \in Nat : 20 * e <= Extent(r, x) => /\ e <= Extent(a, x)
                                                             /\ e <= Extent(b, x)
  <1> DEFINE a == Tab!half(r, s, 0)
             b == Tab!half(r, s, 1)
             w == (r.w * s.ratio) \div 20
             h == (r.h * s.ratio) \div 20
  <1>0. /\ r = [x |-> r.x, y |-> r.y, w |-> r.w, h |-> r.h]
        /\ r.x \in Nat /\ r.y \in Nat /\ r.w \in Nat /\ r.h \in Nat
        /\ s.axis \in Axis /\ s.ratio \in 1..19
    BY DEF IsBox, Tab!isSplit, Axis
  <1>1. /\ w \in Nat /\ w <= r.w
        /\ \A e \in Nat : 20 * e <= r.w => e <= w /\ w + e <= r.w
    BY <1>0, Twentieth
  <1>2. /\ h \in Nat /\ h <= r.h
        /\ \A e \in Nat : 20 * e <= r.h => e <= h /\ h + e <= r.h
    BY <1>0, Twentieth
  <1>3. a = IF s.axis = "row" THEN [r EXCEPT !.w = w] ELSE [r EXCEPT !.h = h]
    BY <1>0 DEF Tab!half, Axis
  <1>4. b = IF s.axis = "row" THEN [r EXCEPT !.x = r.x + w, !.w = r.w - w]
                              ELSE [r EXCEPT !.y = r.y + h, !.h = r.h - h]
    BY <1>0 DEF Tab!half, Axis
  <1> HIDE DEF a, b, w, h
  <1>5. CASE s.axis = "row"
    <2>1. a = [x |-> r.x, y |-> r.y, w |-> w, h |-> r.h]
      BY <1>0, <1>3, <1>5
    <2>2. b = [x |-> r.x + w, y |-> r.y, w |-> r.w - w, h |-> r.h]
      BY <1>0, <1>4, <1>5
    <2>3. IsBox(a) /\ IsBox(b)
      BY <1>0, <1>1, <2>1, <2>2 DEF IsBox
    <2>4. CASE x = "row"
      <3>1. /\ Start(a, x) = r.x /\ Extent(a, x) = w /\ Start(b, x) = r.x + w
            /\ Extent(b, x) = r.w - w /\ Start(r, x) = r.x /\ Extent(r, x) = r.w
        BY <2>1, <2>2, <2>4 DEF Start, Extent
      <3> QED
        BY <1>0, <1>1, <1>5, <2>3, <2>4, <3>1 DEF a, b
    <2>5. CASE x = "column"
      <3>1. /\ Start(a, x) = r.y /\ Extent(a, x) = r.h /\ Start(b, x) = r.y
            /\ Extent(b, x) = r.h /\ Start(r, x) = r.y /\ Extent(r, x) = r.h
        BY <2>1, <2>2, <2>5 DEF Start, Extent
      <3> QED
        BY <1>5, <2>3, <2>5, <3>1 DEF a, b
    <2> QED
      BY <2>4, <2>5 DEF Axis
  <1>6. CASE s.axis = "column"
    <2>1. a = [x |-> r.x, y |-> r.y, w |-> r.w, h |-> h]
      BY <1>0, <1>3, <1>6
    <2>2. b = [x |-> r.x, y |-> r.y + h, w |-> r.w, h |-> r.h - h]
      BY <1>0, <1>4, <1>6
    <2>3. IsBox(a) /\ IsBox(b)
      BY <1>0, <1>2, <2>1, <2>2 DEF IsBox
    <2>4. CASE x = "column"
      <3>1. /\ Start(a, x) = r.y /\ Extent(a, x) = h /\ Start(b, x) = r.y + h
            /\ Extent(b, x) = r.h - h /\ Start(r, x) = r.y /\ Extent(r, x) = r.h
        BY <2>1, <2>2, <2>4 DEF Start, Extent
      <3> QED
        BY <1>0, <1>2, <1>6, <2>3, <2>4, <3>1 DEF a, b
    <2>5. CASE x = "row"
      <3>1. /\ Start(a, x) = r.x /\ Extent(a, x) = r.w /\ Start(b, x) = r.x
            /\ Extent(b, x) = r.w /\ Start(r, x) = r.x /\ Extent(r, x) = r.w
        BY <2>1, <2>2, <2>5 DEF Start, Extent
      <3> QED
        BY <1>6, <2>3, <2>5, <3>1 DEF a, b
    <2> QED
      BY <2>4, <2>5 DEF Axis
  <1> QED
    BY <1>0, <1>5, <1>6 DEF Axis

(* The rectangle of every node has its place and its size.                  *)
LEMMA Boxes ==
    ASSUME NEW l, Tab!isTree(l), Unit \in Nat
    PROVE  \A q \in Nodes(l) : IsBox(Tab!rectAt(l, q))
  <1> DEFINE S == {p \in Path : p \in Nodes(l) => IsBox(Tab!rectAt(l, p))}
  <1>1. <<>> \in S
    BY RootPath, RectSteps DEF Square, IsBox
  <1>2. ASSUME NEW q \in Path, NEW s \in Slot, q \in S PROVE Append(q, s) \in S
    <2>1. SUFFICES ASSUME Append(q, s) \in Nodes(l) PROVE IsBox(Tab!rectAt(l, Append(q, s)))
      BY PathBasics
    <2>2. q \in Inner(l) /\ q \in Nodes(l) /\ Tab!isSplit(l.splits[q])
      BY <2>1, TreeFacts DEF Nodes
    <2>3. IsBox(Tab!rectAt(l, q)) /\ "row" \in Axis
      BY <1>2, <2>2 DEF Axis
    <2>4. /\ IsBox(Tab!half(Tab!rectAt(l, q), l.splits[q], 0))
          /\ IsBox(Tab!half(Tab!rectAt(l, q), l.splits[q], 1))
      BY <2>2, <2>3, Halved
    <2>5. Tab!rectAt(l, Append(q, s)) = Tab!half(Tab!rectAt(l, q), l.splits[q], s)
      BY RectSteps
    <2>6. s = 0 \/ s = 1
      BY DEF Slot
    <2> QED
      BY <2>4, <2>5, <2>6
  <1>3. Path \subseteq S
    <2> HIDE DEF S
    <2> QED
      BY <1>1, <1>2, Descent
  <1>4. Nodes(l) \subseteq Path
    BY TreeFacts
  <1> QED
    BY <1>3, <1>4

(* The ends of a node along an axis.                                        *)
From(l, q, x) == Start(Tab!rectAt(l, q), x)
To(l, q, x) == Start(Tab!rectAt(l, q), x) + Extent(Tab!rectAt(l, q), x)

(* A layout in which every pane has room.                                   *)
Roomy(l) == Tab!isTree(l) /\ Cardinality(Leaves(l)) <= MaxPanes

LEMMA Splitting ==
    ASSUME NEW l, Tab!isTree(l), Unit \in Nat, NEW q \in Inner(l), NEW x \in Axis
    PROVE  LET a == Append(q, 0)
               b == Append(q, 1)
           IN IF l.splits[q].axis = x
              THEN From(l, a, x) = From(l, q, x) /\ To(l, a, x) = From(l, b, x)
                   /\ To(l, b, x) = To(l, q, x)
              ELSE From(l, a, x) = From(l, q, x) /\ From(l, b, x) = From(l, q, x)
                   /\ To(l, a, x) = To(l, q, x) /\ To(l, b, x) = To(l, q, x)
  <1> DEFINE r == Tab!rectAt(l, q)
             a == Append(q, 0)
             b == Append(q, 1)
             ra == Tab!half(r, l.splits[q], 0)
             rb == Tab!half(r, l.splits[q], 1)
  <1>1. IsBox(r) /\ Tab!isSplit(l.splits[q]) /\ q \in Path
    BY Boxes, TreeFacts DEF Nodes
  <1>2. Tab!rectAt(l, a) = ra /\ Tab!rectAt(l, b) = rb
    BY <1>1, RectSteps DEF Slot
  <1> HIDE DEF r, a, b, ra, rb
  <1>3. /\ IsBox(ra) /\ IsBox(rb)
        /\ l.splits[q].axis # x =>
             /\ Start(ra, x) = Start(r, x) /\ Extent(ra, x) = Extent(r, x)
             /\ Start(rb, x) = Start(r, x) /\ Extent(rb, x) = Extent(r, x)
        /\ l.splits[q].axis = x =>
             /\ Start(ra, x) = Start(r, x) /\ Start(rb, x) = Start(r, x) + Extent(ra, x)
             /\ Extent(ra, x) + Extent(rb, x) = Extent(r, x)
    BY <1>1, Halved DEF ra, rb
  <1>4. \A c : IsBox(c) => Start(c, x) \in Nat /\ Extent(c, x) \in Nat
    BY DEF IsBox, Start, Extent
  <1>5. /\ From(l, q, x) = Start(r, x) /\ To(l, q, x) = Start(r, x) + Extent(r, x)
        /\ From(l, a, x) = Start(ra, x) /\ To(l, a, x) = Start(ra, x) + Extent(ra, x)
        /\ From(l, b, x) = Start(rb, x) /\ To(l, b, x) = Start(rb, x) + Extent(rb, x)
    BY <1>2 DEF From, To, r
  <1>6. /\ Start(r, x) \in Nat /\ Extent(r, x) \in Nat /\ Start(ra, x) \in Nat
        /\ Extent(ra, x) \in Nat /\ Start(rb, x) \in Nat /\ Extent(rb, x) \in Nat
    BY <1>1, <1>3, <1>4
  <1>7. CASE l.splits[q].axis = x
    BY <1>3, <1>5, <1>6, <1>7 DEF a, b
  <1>8. CASE l.splits[q].axis # x
    BY <1>3, <1>5, <1>6, <1>8 DEF a, b
  <1> QED
    BY <1>7, <1>8

LEMMA Room ==
    ASSUME Tab!PanesHaveRoom, NEW l, Roomy(l), NEW q \in Nodes(l), NEW x \in Axis
    PROVE  /\ From(l, q, x) \in Nat /\ To(l, q, x) \in Nat /\ From(l, q, x) < To(l, q, x)
  <1> DEFINE Long(p) == Tab!shortest(Len(p)) <= Extent(Tab!rectAt(l, p), x)
             S == {p \in Path : p \in Nodes(l) => Long(p)}
  <1>0. /\ Tab!isTree(l) /\ Cardinality(Leaves(l)) <= MaxPanes
        /\ MaxPanes \in Nat \ {0} /\ Unit \in Nat \ {0} /\ Tab!shortest(0) = Unit
        /\ \A n \in 1..(MaxPanes - 1) : /\ Tab!shortest(n) \in Nat \ {0}
                                        /\ 20 * Tab!shortest(n) <= Tab!shortest(n - 1)
    BY DEF Tab!PanesHaveRoom, Roomy
  <1>1. /\ Nodes(l) \subseteq Path /\ Cardinality(Leaves(l)) \in Nat
        /\ \A p \in Nodes(l) : IsBox(Tab!rectAt(l, p))
        /\ \A p \in Nodes(l) : Len(p) \in Nat /\ Len(p) <= MaxPanes - 1
    <2>1. Nodes(l) \subseteq Path /\ Cardinality(Leaves(l)) \in Nat
      BY <1>0, TreeFacts, FS_CardinalityType
    <2>2. \A p \in Nodes(l) : Len(p) < Cardinality(Leaves(l)) /\ Len(p) \in Nat
      BY <1>0, <2>1, Depth DEF Path
    <2>3. \A p \in Nodes(l) : IsBox(Tab!rectAt(l, p))
      BY <1>0, Boxes
    <2> QED
      BY <1>0, <2>1, <2>2, <2>3
  <1>2. \A p \in Nodes(l) : /\ Extent(Tab!rectAt(l, p), x) \in Nat
                            /\ Start(Tab!rectAt(l, p), x) \in Nat
    BY <1>1 DEF IsBox, Start, Extent
  <1>3. <<>> \in S
    <2>1. Extent(Tab!rectAt(l, <<>>), x) = Unit /\ Len(<<>>) = 0 /\ <<>> \in Path
      BY RootPath, RectSteps DEF Square, Extent
    <2> QED
      BY <1>0, <2>1
  <1>4. ASSUME NEW p \in Path, NEW s \in Slot, p \in S PROVE Append(p, s) \in S
    <2> DEFINE a == Append(p, s)
    <2>1. a \in Path /\ Len(a) = Len(p) + 1 /\ Len(p) \in Nat
      BY PathBasics
    <2>2. SUFFICES ASSUME a \in Nodes(l) PROVE Long(a)
      BY <2>1
    <2>3. p \in Inner(l) /\ p \in Nodes(l) /\ Tab!isSplit(l.splits[p])
      BY <1>0, <2>2, TreeFacts DEF Nodes
    <2>4. /\ Long(p) /\ Extent(Tab!rectAt(l, p), x) \in Nat /\ IsBox(Tab!rectAt(l, p))
      BY <1>1, <1>2, <1>4, <2>3
    <2>5. Len(a) \in 1..(MaxPanes - 1)
      <3> HIDE DEF a
      <3>1. Len(a) <= MaxPanes - 1
        BY <1>1, <2>2
      <3> QED
        BY <1>0, <2>1, <3>1
    <2> DEFINE r == Tab!rectAt(l, p)
               e == Tab!shortest(Len(a))
    <2>6. e \in Nat \ {0} /\ 20 * e <= Extent(r, x)
      <3>1. e \in Nat \ {0} /\ 20 * e <= Tab!shortest(Len(p)) /\ Tab!shortest(Len(p)) <= Extent(r, x)
        <4>1. Len(a) - 1 = Len(p)
          BY <2>1
        <4> QED
          BY <1>0, <2>4, <2>5, <4>1
      <3>2. Tab!shortest(Len(p)) \in Nat
        <4>1. Len(p) = 0 \/ Len(p) \in 1..(MaxPanes - 1)
          BY <1>1, <2>3
        <4> QED
          BY <1>0, <4>1
      <3> QED
        BY <2>4, <3>1, <3>2
    <2>7. Tab!rectAt(l, a) = Tab!half(r, l.splits[p], s)
      BY RectSteps
    <2> HIDE DEF r, e, a
    <2>8. /\ l.splits[p].axis # x =>
                /\ Extent(Tab!half(r, l.splits[p], 0), x) = Extent(r, x)
                /\ Extent(Tab!half(r, l.splits[p], 1), x) = Extent(r, x)
          /\ l.splits[p].axis = x =>
                /\ e <= Extent(Tab!half(r, l.splits[p], 0), x)
                /\ e <= Extent(Tab!half(r, l.splits[p], 1), x)
      <3>1. IsBox(r)
        BY <2>4 DEF r
      <3> QED
        BY <2>3, <2>6, <3>1, Halved
    <2>9. s = 0 \/ s = 1
      BY DEF Slot
    <2>10. Extent(r, x) \in Nat
      BY <2>4 DEF r
    <2>11. e <= Extent(Tab!half(r, l.splits[p], s), x)
      BY <2>6, <2>8, <2>9, <2>10
    <2> QED
      BY <2>7, <2>11 DEF e
  <1>5. Path \subseteq S
    <2> HIDE DEF S
    <2> QED
      BY <1>3, <1>4, Descent
  <1>6. Long(q) /\ Len(q) \in Nat /\ Len(q) <= MaxPanes - 1
    BY <1>1, <1>5
  <1>7. Tab!shortest(Len(q)) \in Nat /\ Tab!shortest(Len(q)) > 0
    <2>1. Len(q) = 0 \/ Len(q) \in 1..(MaxPanes - 1)
      BY <1>0, <1>6
    <2> QED
      BY <1>0, <2>1
  <1>8. Extent(Tab!rectAt(l, q), x) \in Nat /\ Start(Tab!rectAt(l, q), x) \in Nat
    BY <1>2
  <1>9. Extent(Tab!rectAt(l, q), x) > 0
    BY <1>6, <1>7, <1>8
  <1> QED
    BY <1>8, <1>9 DEF From, To

(* A part of a tree is within the rectangle of the part's root.             *)
LEMMA Within ==
    ASSUME Tab!PanesHaveRoom, NEW l, Roomy(l), NEW q \in Nodes(l), NEW p \in Nodes(l),
           Leads(q, p), NEW x \in Axis
    PROVE  From(l, q, x) <= From(l, p, x) /\ To(l, p, x) <= To(l, q, x)
  <1> DEFINE In(r) == From(l, q, x) <= From(l, r, x) /\ To(l, r, x) <= To(l, q, x)
             S == {r \in Path : r \in Nodes(l) /\ Leads(q, r) => In(r)}
  <1>0. /\ Tab!isTree(l) /\ Unit \in Nat /\ Nodes(l) \subseteq Path
        /\ \A r \in Nodes(l) : From(l, r, x) \in Nat /\ To(l, r, x) \in Nat
        /\ \A r \in Nodes(l) : From(l, r, x) < To(l, r, x)
    <2>1. Tab!isTree(l) /\ Unit \in Nat
      BY DEF Roomy, Tab!PanesHaveRoom
    <2> QED
      BY <2>1, TreeFacts, Room
  <1>1. <<>> \in S
    <2>1. ASSUME Leads(q, <<>>) PROVE q = <<>>
      BY <1>0, <2>1, UnderRoot
    <2>2. In(q)
      BY <1>0
    <2> QED
      BY <2>1, <2>2, RootPath
  <1>2. ASSUME NEW r \in Path, NEW s \in Slot, r \in S PROVE Append(r, s) \in S
    <2> DEFINE a == Append(r, s)
    <2>1. SUFFICES ASSUME a \in Nodes(l), Leads(q, a) PROVE In(a)
      BY PathBasics
    <2>2. r \in Inner(l) /\ r \in Nodes(l)
      BY <1>0, <2>1, TreeFacts DEF Nodes
    <2>3. q = a \/ Leads(q, r)
      BY <1>0, <2>1, UnderAppend
    <2>4. CASE q = a
      BY <1>0, <2>4
    <2>5. CASE Leads(q, r)
      <3>1. In(r)
        BY <1>2, <2>2, <2>5
      <3> DEFINE u == Append(r, 0)
                 v == Append(r, 1)
      <3>2. u \in Nodes(l) /\ v \in Nodes(l) /\ (a = u \/ a = v)
        BY <1>0, <2>2, TreeFacts DEF Slot
      <3>3. IF l.splits[r].axis = x
            THEN From(l, u, x) = From(l, r, x) /\ To(l, u, x) = From(l, v, x)
                 /\ To(l, v, x) = To(l, r, x)
            ELSE From(l, u, x) = From(l, r, x) /\ From(l, v, x) = From(l, r, x)
                 /\ To(l, u, x) = To(l, r, x) /\ To(l, v, x) = To(l, r, x)
        BY <1>0, <2>2, Splitting
      <3> HIDE DEF a, u, v
      <3>4. /\ From(l, u, x) \in Nat /\ To(l, u, x) \in Nat /\ From(l, u, x) < To(l, u, x)
            /\ From(l, v, x) \in Nat /\ To(l, v, x) \in Nat /\ From(l, v, x) < To(l, v, x)
            /\ From(l, r, x) \in Nat /\ To(l, r, x) \in Nat /\ From(l, q, x) \in Nat
            /\ To(l, q, x) \in Nat
        BY <1>0, <2>2, <3>2
      <3>5. From(l, r, x) <= From(l, a, x) /\ To(l, a, x) <= To(l, r, x)
        BY <3>2, <3>3, <3>4
      <3>6. From(l, a, x) \in Nat /\ To(l, a, x) \in Nat
        BY <1>0, <2>1
      <3> QED
        BY <3>1, <3>4, <3>5, <3>6
    <2> QED
      BY <2>3, <2>4, <2>5
  <1>3. Path \subseteq S
    <2> HIDE DEF S
    <2> QED
      BY <1>1, <1>2, Descent
  <1> QED
    BY <1>0, <1>3

(* Two parts of a tree neither of which has the other do not overlap.       *)
LEMMA NoOverlap ==
    ASSUME Tab!PanesHaveRoom, NEW l, Roomy(l), NEW p \in Nodes(l), NEW q \in Nodes(l),
           ~Leads(p, q), ~Leads(q, p)
    PROVE  \E x \in Axis : To(l, p, x) <= From(l, q, x) \/ To(l, q, x) <= From(l, p, x)
  <1>0. /\ Tab!isTree(l) /\ Unit \in Nat /\ Nodes(l) \subseteq Path
        /\ \A r \in Nodes(l), x \in Axis : From(l, r, x) \in Nat /\ To(l, r, x) \in Nat
    <2>1. Tab!isTree(l) /\ Unit \in Nat
      BY DEF Roomy, Tab!PanesHaveRoom
    <2> QED
      BY <2>1, TreeFacts, Room
  <1>1. PICK d \in Path, s \in Slot : Leads(Append(d, s), p) /\ Leads(Append(d, 1 - s), q)
    BY <1>0, Diverge
  <1> DEFINE x == l.splits[d].axis
             u == Append(d, s)
             v == Append(d, 1 - s)
  <1>2. u \in Path /\ v \in Path /\ 1 - s \in Slot
    BY PathBasics DEF Slot
  <1>3. u \in Nodes(l) /\ v \in Nodes(l)
    BY <1>0, <1>1, <1>2, NodeAbove
  <1>4. d \in Inner(l) /\ x \in Axis
    BY <1>0, <1>3, TreeFacts DEF Tab!isSplit, Axis
  <1>5. To(l, Append(d, 0), x) = From(l, Append(d, 1), x)
    BY <1>0, <1>4, Splitting
  <1>6. To(l, u, x) = From(l, v, x) \/ To(l, v, x) = From(l, u, x)
    BY <1>5 DEF Slot
  <1> HIDE DEF x, u, v
  <1>7. /\ From(l, u, x) <= From(l, p, x) /\ To(l, p, x) <= To(l, u, x)
        /\ From(l, v, x) <= From(l, q, x) /\ To(l, q, x) <= To(l, v, x)
    BY <1>1, <1>3, <1>4, Within DEF u, v
  <1>8. /\ From(l, u, x) \in Nat /\ To(l, u, x) \in Nat /\ From(l, v, x) \in Nat
        /\ To(l, v, x) \in Nat /\ From(l, p, x) \in Nat /\ To(l, p, x) \in Nat
        /\ From(l, q, x) \in Nat /\ To(l, q, x) \in Nat
    BY <1>0, <1>3, <1>4
  <1>9. To(l, p, x) <= From(l, q, x) \/ To(l, q, x) <= From(l, p, x)
    BY <1>6, <1>7, <1>8
  <1> QED
    BY <1>4, <1>9

(* The edge over which a node of slot s looks at the other slot, and whether *)
(* a node and a stretch have a part in common.                              *)
Edge(l, p, x, s) == IF s = 0 THEN To(l, p, x) ELSE From(l, p, x)
Meets(l, p, x, a, b) == From(l, p, x) < b /\ a < To(l, p, x)

LEMMA InTree ==
    ASSUME Tab!PanesHaveRoom, NEW l, Roomy(l)
    PROVE  /\ Tab!isTree(l) /\ Unit \in Nat /\ Nodes(l) \subseteq Path
           /\ Leaves(l) \subseteq Nodes(l) /\ Inner(l) \subseteq Nodes(l)
           /\ \A q \in Nodes(l), x \in Axis :
                From(l, q, x) \in Nat /\ To(l, q, x) \in Nat /\ From(l, q, x) < To(l, q, x)
           /\ \A q \in Inner(l), s \in Slot : Append(q, s) \in Nodes(l)
           /\ \A q \in Inner(l) : l.splits[q].axis \in Axis
  <1>1. Tab!isTree(l) /\ Unit \in Nat
    BY DEF Roomy, Tab!PanesHaveRoom
  <1>2. \A q \in Nodes(l), x \in Axis :
          From(l, q, x) \in Nat /\ To(l, q, x) \in Nat /\ From(l, q, x) < To(l, q, x)
    BY Room
  <1>3. \A q \in Inner(l) : l.splits[q].axis \in Axis
    BY <1>1, TreeFacts DEF Tab!isSplit, Axis
  <1> QED
    BY <1>1, <1>2, <1>3, TreeFacts DEF Nodes

(* Along an edge of a node, over any stretch of it, lies a pane of it.      *)
LEMMA Bordering ==
    ASSUME Tab!PanesHaveRoom, NEW l, Roomy(l), NEW x \in Axis, NEW s \in Slot,
           NEW a \in Nat, NEW b \in Nat, a < b,
           NEW d \in Nodes(l), Meets(l, d, Across(x), a, b)
    PROVE  \E p \in Leaves(l) : /\ Leads(d, p) /\ Edge(l, p, x, s) = Edge(l, d, x, s)
                                /\ Meets(l, p, Across(x), a, b)
  <1> DEFINE y == Across(x)
             Has(q) == \E p \in Leaves(l) : /\ Leads(q, p) /\ Edge(l, p, x, s) = Edge(l, q, x, s)
                                            /\ Meets(l, p, y, a, b)
             S == {q \in Nodes(l) : Meets(l, q, y, a, b) => Has(q)}
  <1>0. y \in Axis /\ y # x /\ 1 - s \in Slot
    BY DEF Axis, Across, Slot
  <1>1. Leaves(l) \subseteq S
    <2>1. \A p \in Leaves(l) : Leads(p, p)
      BY InTree, UnderRoot
    <2> QED
      BY <2>1, InTree
  <1>2. ASSUME NEW q \in Inner(l), Append(q, 0) \in S, Append(q, 1) \in S PROVE q \in S
    <2> DEFINE u == Append(q, 0)
               v == Append(q, 1)
    <2>1. q \in Path /\ q \in Nodes(l) /\ u \in Nodes(l) /\ v \in Nodes(l)
      BY <1>2, InTree
    <2>2. SUFFICES ASSUME Meets(l, q, y, a, b) PROVE Has(q)
      BY <2>1
    <2>3. ASSUME NEW c \in {u, v}, Meets(l, c, y, a, b), Edge(l, c, x, s) = Edge(l, q, x, s)
          PROVE  Has(q)
      <3>1. c \in S
        BY <1>2, <2>3
      <3>2. PICK p \in Leaves(l) : /\ Leads(c, p) /\ Edge(l, p, x, s) = Edge(l, c, x, s)
                                   /\ Meets(l, p, y, a, b)
        BY <2>3, <3>1
      <3>3. Leads(q, p)
        <4>1. p \in Path /\ 0 \in Slot /\ 1 \in Slot
          BY <3>2, InTree DEF Slot
        <4>2. \A t \in Slot : Leads(Append(q, t), p) => Leads(q, p)
          BY <2>1, <4>1, UnderSlot
        <4> QED
          BY <2>3, <3>2, <4>1, <4>2
      <3> QED
        BY <2>3, <3>2, <3>3
    <2>4. /\ IF l.splits[q].axis = x
             THEN From(l, u, x) = From(l, q, x) /\ To(l, u, x) = From(l, v, x)
                  /\ To(l, v, x) = To(l, q, x)
             ELSE From(l, u, x) = From(l, q, x) /\ From(l, v, x) = From(l, q, x)
                  /\ To(l, u, x) = To(l, q, x) /\ To(l, v, x) = To(l, q, x)
          /\ IF l.splits[q].axis = y
             THEN From(l, u, y) = From(l, q, y) /\ To(l, u, y) = From(l, v, y)
                  /\ To(l, v, y) = To(l, q, y)
             ELSE From(l, u, y) = From(l, q, y) /\ From(l, v, y) = From(l, q, y)
                  /\ To(l, u, y) = To(l, q, y) /\ To(l, v, y) = To(l, q, y)
      BY <1>0, InTree, Splitting
    <2>5. /\ From(l, u, y) \in Nat /\ To(l, u, y) \in Nat /\ From(l, v, y) \in Nat
          /\ To(l, v, y) \in Nat
      BY <1>0, <2>1, InTree
    <2> HIDE DEF u, v, y, Has
    <2>6. CASE l.splits[q].axis = x
      <3>1. Edge(l, IF s = 0 THEN v ELSE u, x, s) = Edge(l, q, x, s)
        BY <2>4, <2>6 DEF Edge
      <3>2. Meets(l, u, y, a, b) /\ Meets(l, v, y, a, b)
        BY <1>0, <2>2, <2>4, <2>6 DEF Meets
      <3> QED
        BY <2>3, <3>1, <3>2
    <2>7. CASE l.splits[q].axis = y
      <3>1. Edge(l, u, x, s) = Edge(l, q, x, s) /\ Edge(l, v, x, s) = Edge(l, q, x, s)
        BY <1>0, <2>4, <2>7 DEF Edge
      <3>2. Meets(l, u, y, a, b) \/ Meets(l, v, y, a, b)
        BY <2>2, <2>4, <2>5, <2>7 DEF Meets
      <3> QED
        BY <2>3, <3>1, <3>2
    <2>8. l.splits[q].axis = x \/ l.splits[q].axis = y
      BY InTree DEF y, Across, Axis
    <2> QED
      BY <2>6, <2>7, <2>8
  <1>3. Nodes(l) \subseteq S
    <2> HIDE DEF S
    <2> QED
      BY <1>1, <1>2, InTree, Ascent
  <1> QED
    BY <1>3

(* Over an edge two slots share lies a pane of the other slot, and no other. *)
LEMMA Neighbours ==
    ASSUME Tab!PanesHaveRoom, NEW l, Roomy(l), NEW q \in Inner(l), NEW s \in Slot,
           NEW x, x = l.splits[q].axis
    PROVE  LET Faces(f, t) == /\ Edge(l, f, x, s) = Edge(l, t, x, 1 - s)
                              /\ Meets(l, t, Across(x), From(l, f, Across(x)),
                                                        To(l, f, Across(x)))
           IN \E f \in Leaves(l) :
                /\ Leads(Append(q, s), f)
                /\ \E t \in Leaves(l) : Faces(f, t)
                /\ \A t \in Leaves(l) : Faces(f, t) => Leads(Append(q, 1 - s), t)
  <1> DEFINE y == Across(x)
             Faces(f, t) == /\ Edge(l, f, x, s) = Edge(l, t, x, 1 - s)
                            /\ Meets(l, t, y, From(l, f, y), To(l, f, y))
             c == Append(q, s)
             d == Append(q, 1 - s)
  <1>0. /\ x \in Axis /\ y \in Axis /\ y # x /\ 1 - s \in Slot /\ q \in Path
        /\ c \in Nodes(l) /\ d \in Nodes(l) /\ c \in Path /\ d \in Path
        /\ Tab!isTree(l) /\ Unit \in Nat
        /\ \A z \in Axis : z = x \/ z = y
    BY InTree DEF Axis, Across, Slot
  <1>1. /\ Edge(l, c, x, s) = Edge(l, d, x, 1 - s)
        /\ From(l, c, y) = From(l, d, y) /\ To(l, c, y) = To(l, d, y)
    <2>1. To(l, Append(q, 0), x) = From(l, Append(q, 1), x)
      BY <1>0, Splitting
    <2>2. /\ From(l, Append(q, 0), y) = From(l, q, y) /\ From(l, Append(q, 1), y) = From(l, q, y)
          /\ To(l, Append(q, 0), y) = To(l, q, y) /\ To(l, Append(q, 1), y) = To(l, q, y)
      BY <1>0, Splitting
    <2>3. s = 0 \/ s = 1
      BY DEF Slot
    <2>4. Edge(l, c, x, s) = Edge(l, d, x, 1 - s)
      BY <2>1, <2>3 DEF Edge
    <2>5. From(l, c, y) = From(l, d, y) /\ To(l, c, y) = To(l, d, y)
      BY <2>2, <2>3
    <2> QED
      BY <2>4, <2>5
  <1> HIDE DEF c, d, y
  <1>2. ASSUME NEW n \in Nodes(l)
        PROVE  From(l, n, y) \in Nat /\ To(l, n, y) \in Nat /\ From(l, n, y) < To(l, n, y)
    BY <1>0, <1>2, InTree
  <1>3. PICK f \in Leaves(l) : Leads(c, f) /\ Edge(l, f, x, s) = Edge(l, c, x, s)
    <2>1. Meets(l, c, y, From(l, c, y), To(l, c, y))
      BY <1>0, <1>2 DEF Meets
    <2> QED
      BY <1>0, <1>2, <2>1, Bordering DEF y
  <1>4. f \in Nodes(l) /\ From(l, c, y) <= From(l, f, y) /\ To(l, f, y) <= To(l, c, y)
    BY <1>0, <1>3, InTree, Within
  <1>5. \E t \in Leaves(l) : Faces(f, t)
    <2>1. Meets(l, d, y, From(l, f, y), To(l, f, y))
      BY <1>0, <1>1, <1>2, <1>4 DEF Meets
    <2>2. \E t \in Leaves(l) : /\ Leads(d, t) /\ Edge(l, t, x, 1 - s) = Edge(l, d, x, 1 - s)
                               /\ Meets(l, t, y, From(l, f, y), To(l, f, y))
      BY <1>0, <1>2, <1>4, <2>1, Bordering DEF y
    <2> QED
      BY <1>1, <1>3, <2>2
  <1>6. ASSUME NEW t \in Leaves(l), Faces(f, t) PROVE Leads(d, t)
    <2>1. t \in Nodes(l) /\ t \in Path
      BY InTree
    <2>2. SUFFICES ASSUME ~Leads(d, t) PROVE FALSE
      OBVIOUS
    <2>3. Edge(l, t, x, 1 - s) = Edge(l, d, x, 1 - s)
      BY <1>1, <1>3, <1>6
    <2>4. /\ From(l, t, x) \in Nat /\ To(l, t, x) \in Nat /\ From(l, t, x) < To(l, t, x)
          /\ From(l, d, x) \in Nat /\ To(l, d, x) \in Nat /\ From(l, d, x) < To(l, d, x)
      BY <1>0, <2>1, InTree
    <2>5. ~Leads(t, d)
      <3>1. t = d => Leads(d, t)
        BY <1>0, UnderRoot
      <3> QED
        BY <1>0, <2>2, <3>1, LeavesApart
    <2>6. PICK z \in Axis : To(l, t, z) <= From(l, d, z) \/ To(l, d, z) <= From(l, t, z)
      BY <1>0, <2>1, <2>2, <2>5, NoOverlap
    <2>7. CASE z = x
      <3>1. From(l, t, x) = From(l, d, x) \/ To(l, t, x) = To(l, d, x)
        BY <2>3 DEF Edge, Slot
      <3> QED
        BY <2>4, <2>6, <2>7, <3>1
    <2>8. CASE z = y
      <3>1. From(l, t, y) < To(l, f, y) /\ From(l, f, y) < To(l, t, y)
        BY <1>6 DEF Meets
      <3>2. /\ From(l, t, y) \in Nat /\ To(l, t, y) \in Nat /\ From(l, d, y) \in Nat
            /\ To(l, d, y) \in Nat /\ From(l, f, y) \in Nat /\ To(l, f, y) \in Nat
        BY <1>0, <1>2, <1>4, <2>1
      <3> QED
        BY <1>1, <1>4, <2>6, <2>8, <3>1, <3>2
    <2> QED
      BY <1>0, <2>7, <2>8
  <1> QED
    BY <1>3, <1>5, <1>6 DEF c, d, y

LEMMA TabCounts == \A S : Tab!Cardinality(S) = Cardinality(S)
  BY DEF Tab!Cardinality, Cardinality

IdAt(l, p) == l.panes[p].id

(* A layout by its parts, with the focus elsewhere.                         *)
LEMMA Refocused ==
    ASSUME NEW l, Tab!isTree(l), NEW id \in Tab!paneIds(l)
    PROVE  LET k == [l EXCEPT !.focused = id]
           IN /\ k.panes = l.panes /\ k.splits = l.splits /\ k.focused = id
              /\ Tab!isTree(k) /\ Tab!paneIds(k) = Tab!paneIds(l)
  <1> DEFINE k == [l EXCEPT !.focused = id]
  <1>1. k = [panes |-> l.panes, splits |-> l.splits, focused |-> id]
    <2>1. l = [panes |-> l.panes, splits |-> l.splits, focused |-> l.focused]
      BY TreeFacts
    <2> QED
      BY <2>1
  <1> HIDE DEF k
  <1>2. k.panes = l.panes /\ k.splits = l.splits /\ k.focused = id
    BY <1>1
  <1>3. Tab!nodes(k) = Tab!nodes(l) /\ Tab!paneIds(k) = Tab!paneIds(l)
    BY <1>2 DEF Tab!nodes, Tab!paneIds
  <1>4. Tab!isTree(k)
    BY <1>1, <1>2, <1>3 DEF Tab!isTree
  <1> QED
    BY <1>2, <1>3, <1>4 DEF k

(* Every pane id has the rectangle of a leaf of that id.                    *)
LEMMA RectOfPane ==
    ASSUME NEW l, Tab!isTree(l)
    PROVE  /\ IsFiniteSet(Tab!paneIds(l))
           /\ DOMAIN Tab!computeRects(l) = Tab!paneIds(l)
           /\ \A id \in Tab!paneIds(l) :
                \E p \in Leaves(l) : /\ IdAt(l, p) = id
                                     /\ Tab!computeRects(l)[id] = Tab!rectAt(l, p)
           /\ \A id \in Tab!paneIds(l) :
                \E p \in Leaves(l) : IdAt(l, p) = id /\ Tab!firstOf(Tab!PathsOf(l, id)) = p
           /\ \A p \in Leaves(l) : IdAt(l, p) \in Tab!paneIds(l)
  <1>1. Tab!paneIds(l) = {IdAt(l, p) : p \in Leaves(l)}
    BY DEF Tab!paneIds, IdAt, Leaves
  <1>2. IsFiniteSet(Tab!paneIds(l))
    <2> DEFINE f == [p \in Leaves(l) |-> IdAt(l, p)]
    <2>1. IsFiniteSet(Leaves(l)) /\ f = [p \in Leaves(l) |-> f[p]]
      BY TreeFacts
    <2>2. {f[p] : p \in Leaves(l)} = Tab!paneIds(l)
      BY <1>1
    <2> HIDE DEF f
    <2>3. IsFiniteSet({f[p] : p \in Leaves(l)})
      BY <2>1, ImageOf
    <2> QED
      BY <2>2, <2>3
  <1>3. ASSUME NEW id \in Tab!paneIds(l)
        PROVE  /\ Tab!PathsOf(l, id) \in SUBSET Leaves(l) /\ Tab!PathsOf(l, id) # {}
               /\ \A p \in Tab!PathsOf(l, id) : IdAt(l, p) = id
    BY <1>1, <1>3 DEF Tab!PathsOf, IdAt, Leaves
  <1>4. DOMAIN Tab!computeRects(l) = Tab!paneIds(l)
    BY DEF Tab!computeRects
  <1>5. ASSUME NEW id \in Tab!paneIds(l)
        PROVE  \E p \in Leaves(l) : /\ IdAt(l, p) = id
                                    /\ Tab!computeRects(l)[id] = Tab!rectAt(l, p)
    <2> DEFINE T == Tab!PathsOf(l, id)
               last == CHOOSE p \in T : \A q \in T \ {p} : Tab!Before(q, p)
    <2>1. Tab!computeRects(l)[id] = Tab!rectAt(l, last)
      BY <1>5 DEF Tab!computeRects
    <2>2. last \in T
      BY <1>3, <1>5, FirstLeaf
    <2> HIDE DEF T, last
    <2>3. last \in Leaves(l) /\ IdAt(l, last) = id
      BY <1>3, <1>5, <2>2 DEF T
    <2> QED
      BY <2>1, <2>3
  <1>6. ASSUME NEW id \in Tab!paneIds(l)
        PROVE  \E p \in Leaves(l) : IdAt(l, p) = id /\ Tab!firstOf(Tab!PathsOf(l, id)) = p
    <2>1. Tab!firstOf(Tab!PathsOf(l, id)) \in Tab!PathsOf(l, id)
      BY <1>3, <1>6, FirstLeaf
    <2> QED
      BY <1>3, <1>6, <2>1
  <1> QED
    BY <1>1, <1>2, <1>4, <1>5, <1>6

Dir(x, s) == IF x = "row" THEN IF s = 0 THEN "right" ELSE "left"
             ELSE IF s = 0 THEN "down" ELSE "up"
Dirs == {"left", "right", "up", "down"}

LEMMA Measured ==
    ASSUME NEW a, NEW b, IsBox(a), IsBox(b), NEW dir \in Dirs
    PROVE  Tab!ahead(a, b, dir) \in Int /\ Tab!aside(a, b, dir) \in Int
  <1>1. Tab!ahead(a, b, dir) \in Int
    BY DEF Tab!ahead, IsBox, Dirs
  <1>2. \A m, n, o, p \in Nat : Tab!perpDistance(m, n, o, p) \in Int
    BY DEF Tab!perpDistance
  <1>3. Tab!aside(a, b, dir) \in Int
    BY <1>2 DEF Tab!aside, IsBox
  <1> QED
    BY <1>1, <1>3

(* The focus moves to a pane none of the others is nearer than.             *)
LEMMA Nearest ==
    ASSUME NEW l, Tab!isTree(l), Unit \in Nat, NEW dir \in Dirs
    PROVE  LET rects == Tab!computeRects(l)
               near == Tab!neighbors(rects, l.focused, dir)
               far(id) == Tab!ahead(rects[l.focused], rects[id], dir)
           IN IF near = {} THEN Tab!focusMove(l, dir) = l
              ELSE \E i \in near : /\ Tab!focusMove(l, dir) = [l EXCEPT !.focused = i]
                                   /\ i \in Tab!paneIds(l)
                                   /\ \A j \in near : far(i) <= far(j)
  <1> DEFINE rects == Tab!computeRects(l)
             from == rects[l.focused]
             near == Tab!neighbors(rects, l.focused, dir)
             first(id) == Tab!firstOf(Tab!PathsOf(l, id))
             closer(i, j) ==
               LET ai == Tab!ahead(from, rects[i], dir)
                   aj == Tab!ahead(from, rects[j], dir)
                   pi == Tab!aside(from, rects[i], dir)
                   pj == Tab!aside(from, rects[j], dir)
               IN \/ ai < aj
                  \/ ai = aj /\ pi < pj
                  \/ ai = aj /\ pi = pj /\ Tab!Before(first(i), first(j))
             next == CHOOSE i \in near : \A j \in near \ {i} : closer(i, j)
             A == [i \in near |-> Tab!ahead(from, rects[i], dir)]
             P == [i \in near |-> Tab!aside(from, rects[i], dir)]
             B == [i \in near |-> first(i)]
  <1>1. Tab!focusMove(l, dir) = IF l.focused \notin DOMAIN rects \/ near = {} THEN l
                                ELSE [l EXCEPT !.focused = next]
    BY DEF Tab!focusMove
  <1>2. l.focused \in DOMAIN rects /\ near \subseteq Tab!paneIds(l)
    BY TreeFacts, RectOfPane DEF Tab!neighbors
  <1>3. IsFiniteSet(near)
    BY <1>2, RectOfPane, FS_Subset
  <1>4. \A id \in Tab!paneIds(l) : IsBox(rects[id])
    BY RectOfPane, Boxes DEF Nodes
  <1>5. \A i \in near : A[i] \in Int /\ P[i] \in Int
    <2>1. IsBox(from) /\ \A i \in near : IsBox(rects[i])
      BY <1>2, <1>4, TreeFacts
    <2> HIDE DEF from, rects, near
    <2> QED
      BY <2>1, Measured
  <1>6. /\ \A i \in near, j \in near : i # j => Tab!Before(B[i], B[j]) \/ Tab!Before(B[j], B[i])
        /\ \A i \in near, j \in near, k \in near :
             i # j /\ j # k /\ i # k /\ Tab!Before(B[i], B[j]) /\ Tab!Before(B[j], B[k]) =>
               Tab!Before(B[i], B[k])
    <2>1. \A i \in near : B[i] \in Leaves(l) /\ IdAt(l, B[i]) = i
      <3>1. SUFFICES ASSUME NEW i \in near PROVE B[i] \in Leaves(l) /\ IdAt(l, B[i]) = i
        OBVIOUS
      <3>2. B[i] = first(i) /\ i \in Tab!paneIds(l)
        BY <1>2
      <3> QED
        BY <3>2, RectOfPane
    <2> HIDE DEF B, near
    <2>2. \A i \in near, j \in near : i # j => B[i] # B[j]
      BY <2>1
    <2>3. \A i \in near, j \in near : i # j => /\ B[i] \in Path /\ B[j] \in Path
                                               /\ ~Leads(B[i], B[j]) /\ ~Leads(B[j], B[i])
      BY <2>1, <2>2, LeavesApart, TreeFacts DEF Nodes
    <2>4. \A i \in near, j \in near : i # j => (Tab!Before(B[i], B[j]) <=> Less(B[i], B[j]))
      BY <2>3, BeforeIsLess
    <2>5. \A i \in near, j \in near : i # j => Less(B[i], B[j]) \/ Less(B[j], B[i])
      BY <2>3, LessIsOrder
    <2>6. \A i \in near, j \in near, k \in near :
            i # j /\ j # k /\ Less(B[i], B[j]) /\ Less(B[j], B[k]) => Less(B[i], B[k])
      BY <2>3, LessIsOrder
    <2> QED
      BY <2>4, <2>5, <2>6
  <1>7. \A i \in near, j \in near : closer(i, j) <=>
          \/ A[i] < A[j]
          \/ A[i] = A[j] /\ P[i] < P[j]
          \/ A[i] = A[j] /\ P[i] = P[j] /\ Tab!Before(B[i], B[j])
    OBVIOUS
  <1> HIDE DEF A, P, B, closer, near
  <1> DEFINE Lt == {t \in near \X near : t[1] # t[2] /\ closer(t[1], t[2])}
  <1>8. \A i \in near, j \in near : <<i, j>> \in Lt <=> i # j /\ closer(i, j)
    OBVIOUS
  <1> HIDE DEF Lt
  <1>9. ASSUME near # {} PROVE \E i \in near : \A j \in near \ {i} : <<i, j>> \in Lt
    <2>1. \A i \in near, j \in near : i # j => <<i, j>> \in Lt \/ <<j, i>> \in Lt
      BY <1>5, <1>6, <1>7, <1>8
    <2>2. \A i \in near, j \in near, k \in near :
            i # k /\ <<i, j>> \in Lt /\ <<j, k>> \in Lt => <<i, k>> \in Lt
      <3>1. SUFFICES ASSUME NEW i \in near, NEW j \in near, NEW k \in near,
                            i # k, <<i, j>> \in Lt, <<j, k>> \in Lt
                     PROVE  closer(i, k)
        BY <1>8
      <3>2. i # j /\ closer(i, j) /\ j # k /\ closer(j, k)
        BY <1>8, <3>1
      <3>3. /\ A[i] \in Int /\ A[j] \in Int /\ A[k] \in Int
            /\ P[i] \in Int /\ P[j] \in Int /\ P[k] \in Int
        BY <1>5
      <3>4. Tab!Before(B[i], B[j]) /\ Tab!Before(B[j], B[k]) => Tab!Before(B[i], B[k])
        BY <1>6, <3>1, <3>2
      <3>5. \/ A[i] < A[j]
            \/ A[i] = A[j] /\ P[i] < P[j]
            \/ A[i] = A[j] /\ P[i] = P[j] /\ Tab!Before(B[i], B[j])
        BY <1>7, <3>2
      <3>6. \/ A[j] < A[k]
            \/ A[j] = A[k] /\ P[j] < P[k]
            \/ A[j] = A[k] /\ P[j] = P[k] /\ Tab!Before(B[j], B[k])
        BY <1>7, <3>2
      <3>7. \/ A[i] < A[k]
            \/ A[i] = A[k] /\ P[i] < P[k]
            \/ A[i] = A[k] /\ P[i] = P[k] /\ Tab!Before(B[i], B[k])
        BY <3>3, <3>4, <3>5, <3>6
      <3> QED
        BY <1>7, <3>7
    <2> QED
      BY <1>3, <1>9, <2>1, <2>2, FirstOfMany
  <1>10. ASSUME near # {} PROVE next \in near /\ \A j \in near \ {next} : closer(next, j)
    BY <1>8, <1>9, <1>10
  <1> HIDE DEF next
  <1>11. ASSUME near # {} PROVE \A j \in near : A[next] <= A[j]
    BY <1>5, <1>7, <1>10, <1>11
  <1> QED
    BY <1>1, <1>2, <1>10, <1>11 DEF A, near

(* How far one leaf is from another in a direction, and whether they face.  *)
LEMMA AheadIs ==
    ASSUME NEW l, NEW f, NEW t, NEW x \in Axis, NEW s \in Slot,
           IsBox(Tab!rectAt(l, f)), IsBox(Tab!rectAt(l, t))
    PROVE  LET a == Tab!rectAt(l, f)
               b == Tab!rectAt(l, t)
               y == Across(x)
           IN /\ Tab!ahead(a, b, Dir(x, s)) = IF s = 0 THEN From(l, t, x) - To(l, f, x)
                                              ELSE From(l, f, x) - To(l, t, x)
              /\ Tab!overlap(a, b, Dir(x, s)) <=> Meets(l, t, y, From(l, f, y), To(l, f, y))
              /\ Dir(x, s) \in Dirs
  <1>1. CASE x = "row" /\ s = 0
    BY <1>1 DEF Tab!ahead, Tab!overlap, Tab!spansOverlap, Meets, From, To, Start, Extent,
                Across, Dir, Dirs
  <1>2. CASE x = "row" /\ s = 1
    BY <1>2 DEF Tab!ahead, Tab!overlap, Tab!spansOverlap, Meets, From, To, Start, Extent,
                Across, Dir, Dirs
  <1>3. CASE x = "column" /\ s = 0
    BY <1>3 DEF Tab!ahead, Tab!overlap, Tab!spansOverlap, Meets, From, To, Start, Extent,
                Across, Dir, Dirs
  <1>4. CASE x = "column" /\ s = 1
    BY <1>4 DEF Tab!ahead, Tab!overlap, Tab!spansOverlap, Meets, From, To, Start, Extent,
                Across, Dir, Dirs
  <1> QED
    BY <1>1, <1>2, <1>3, <1>4 DEF Axis, Slot

LEMMA Distinct ==
    ASSUME NEW l, Tab!isTree(l), Tab!distinctIds(l)
    PROVE  /\ Cardinality(Leaves(l)) = Cardinality(Tab!paneIds(l))
           /\ \A p \in Leaves(l), q \in Leaves(l) : IdAt(l, p) = IdAt(l, q) => p = q
  <1> DEFINE f == [p \in Leaves(l) |-> IdAt(l, p)]
  <1>1. IsFiniteSet(Leaves(l)) /\ f = [p \in Leaves(l) |-> f[p]]
    BY TreeFacts
  <1>2. {f[p] : p \in Leaves(l)} = Tab!paneIds(l) /\ \A p \in Leaves(l) : f[p] = IdAt(l, p)
    BY DEF Tab!paneIds, IdAt, Leaves
  <1> HIDE DEF f
  <1>3. Cardinality(Leaves(l)) = Cardinality(Tab!paneIds(l))
    BY TabCounts DEF Tab!distinctIds, Leaves
  <1>4. \A p \in Leaves(l), q \in Leaves(l) : f[p] = f[q] => p = q
    BY <1>1, <1>2, <1>3, ImageOf
  <1> QED
    BY <1>2, <1>3, <1>4

(* From a pane of either slot of a split one move leads to one of the other. *)
LEMMA Crossing ==
    ASSUME Tab!PanesHaveRoom, NEW l, Roomy(l), Tab!distinctIds(l),
           NEW q \in Inner(l), NEW s \in Slot
    PROVE  \E f \in Leaves(l), t \in Leaves(l) :
             /\ Leads(Append(q, s), f) /\ Leads(Append(q, 1 - s), t)
             /\ IdAt(l, t) \in Tab!stepFrom(l, IdAt(l, f))
  <1> DEFINE x == l.splits[q].axis
             y == Across(x)
             Faces(f, t) == /\ Edge(l, f, x, s) = Edge(l, t, x, 1 - s)
                            /\ Meets(l, t, y, From(l, f, y), To(l, f, y))
             c == Append(q, s)
             d == Append(q, 1 - s)
  <1>0. /\ x \in Axis /\ 1 - s \in Slot /\ q \in Path /\ Tab!isTree(l) /\ Unit \in Nat
        /\ Leaves(l) \subseteq Nodes(l) /\ Leaves(l) \subseteq Path
    BY InTree DEF Slot
  <1>1. PICK f \in Leaves(l) : /\ Leads(c, f)
                               /\ \E t \in Leaves(l) : Faces(f, t)
                               /\ \A t \in Leaves(l) : Faces(f, t) => Leads(d, t)
    BY Neighbours
  <1>2. PICK t \in Leaves(l) : Faces(f, t)
    BY <1>1
  <1>3. Leads(d, t)
    BY <1>1, <1>2
  <1> DEFINE id == IdAt(l, f)
             k == [l EXCEPT !.focused = id]
             dir == Dir(x, s)
             rects == Tab!computeRects(k)
             near == Tab!neighbors(rects, k.focused, dir)
             far(i) == Tab!ahead(rects[k.focused], rects[i], dir)
  <1>4. id \in Tab!paneIds(l)
    BY <1>0, RectOfPane
  <1>5. /\ k.panes = l.panes /\ k.splits = l.splits /\ k.focused = id
        /\ Tab!isTree(k) /\ Tab!paneIds(k) = Tab!paneIds(l)
    BY <1>0, <1>4, Refocused
  <1>6. dir \in Dirs
    BY <1>0 DEF Dir, Dirs
  <1> HIDE DEF k, x, y, c, d, dir
  <1>7. DOMAIN rects = Tab!paneIds(l)
    BY <1>5, RectOfPane
  <1>8. ASSUME NEW p \in Leaves(l)
        PROVE  rects[IdAt(l, p)] = Tab!rectAt(l, p) /\ IsBox(Tab!rectAt(l, p))
    <2>1. IdAt(l, p) \in Tab!paneIds(k)
      BY <1>0, <1>5, RectOfPane
    <2>2. PICK o \in Leaves(k) : IdAt(k, o) = IdAt(l, p) /\ rects[IdAt(l, p)] = Tab!rectAt(k, o)
      BY <1>5, <2>1, RectOfPane
    <2>3. o \in Leaves(l) /\ IdAt(l, o) = IdAt(l, p)
      BY <1>5, <2>2 DEF Leaves, IdAt
    <2>4. o = p
      BY <1>0, <2>3, Distinct
    <2>5. Tab!rectAt(k, p) = Tab!rectAt(l, p)
      BY <1>0, <1>5, RectsAlike
    <2> QED
      BY <1>0, <2>2, <2>4, <2>5, Boxes
  <1>9. ASSUME NEW p \in Leaves(l)
        PROVE  /\ far(IdAt(l, p)) \in Int
               /\ far(IdAt(l, p)) = 0 <=> Edge(l, f, x, s) = Edge(l, p, x, 1 - s)
               /\ Tab!overlap(rects[k.focused], rects[IdAt(l, p)], dir) <=>
                    Meets(l, p, y, From(l, f, y), To(l, f, y))
    <2>1. rects[k.focused] = Tab!rectAt(l, f) /\ rects[IdAt(l, p)] = Tab!rectAt(l, p)
      BY <1>5, <1>8
    <2>2. IsBox(Tab!rectAt(l, f)) /\ IsBox(Tab!rectAt(l, p))
      BY <1>8
    <2>3. far(IdAt(l, p)) = IF s = 0 THEN From(l, p, x) - To(l, f, x)
                            ELSE From(l, f, x) - To(l, p, x)
      BY <1>0, <2>1, <2>2, AheadIs DEF dir
    <2>4. Tab!overlap(rects[k.focused], rects[IdAt(l, p)], dir) <=>
            Meets(l, p, y, From(l, f, y), To(l, f, y))
      BY <1>0, <2>1, <2>2, AheadIs DEF dir, y
    <2>5. /\ From(l, p, x) \in Nat /\ To(l, f, x) \in Nat
          /\ From(l, f, x) \in Nat /\ To(l, p, x) \in Nat
      BY <1>0, InTree
    <2>6. far(IdAt(l, p)) \in Int
      BY <2>3, <2>5
    <2>7. far(IdAt(l, p)) = 0 <=> Edge(l, f, x, s) = Edge(l, p, x, 1 - s)
      <3>1. s = 0 \/ s = 1
        BY DEF Slot
      <3> QED
        BY <2>3, <2>5, <3>1 DEF Edge
    <2> QED
      BY <2>4, <2>6, <2>7
  <1>10. IdAt(l, t) # id
    <2>1. ~Leads(c, t)
      BY <1>0, <1>3, UnderSlot DEF c, d, Slot
    <2> QED
      BY <1>0, <1>1, <2>1, Distinct
  <1>11. IdAt(l, t) \in near
    <2>1. IdAt(l, t) \in DOMAIN rects
      BY <1>0, <1>7, RectOfPane
    <2>2. far(IdAt(l, t)) = 0 /\ Tab!overlap(rects[k.focused], rects[IdAt(l, t)], dir)
      BY <1>2, <1>9
    <2> HIDE DEF rects
    <2>3. far(IdAt(l, t)) >= 0
      BY <2>2
    <2> QED
      BY <1>5, <1>10, <2>1, <2>2, <2>3 DEF Tab!neighbors
  <1>12. PICK i \in near : /\ Tab!focusMove(k, dir) = [k EXCEPT !.focused = i]
                           /\ i \in Tab!paneIds(k)
                           /\ \A j \in near : far(i) <= far(j)
    BY <1>0, <1>5, <1>6, <1>11, Nearest
  <1>13. PICK p \in Leaves(l) : i = IdAt(l, p)
    BY <1>5, <1>12 DEF Tab!paneIds, IdAt, Leaves
  <1>14. Faces(f, p)
    <2>1. far(i) <= far(IdAt(l, t)) /\ far(IdAt(l, t)) = 0
      BY <1>2, <1>9, <1>11, <1>12
    <2>2. far(i) >= 0 /\ Tab!overlap(rects[k.focused], rects[i], dir)
      BY <1>12 DEF Tab!neighbors
    <2>3. far(i) \in Int
      BY <1>9, <1>13
    <2> HIDE DEF far, rects
    <2>4. far(i) = 0
      BY <2>1, <2>2, <2>3
    <2> QED
      BY <1>9, <1>13, <2>2, <2>4
  <1>15. Leads(d, p)
    BY <1>1, <1>14
  <1>16. IdAt(l, p) \in Tab!stepFrom(l, id)
    <2>1. Tab!focusMove(k, dir).focused = i
      <3>1. k = [panes |-> k.panes, splits |-> k.splits, focused |-> k.focused]
        BY <1>5, TreeFacts
      <3> QED
        BY <1>12, <3>1
    <2>2. Tab!focusMove([l EXCEPT !.focused = id], dir).focused = IdAt(l, p)
      BY <1>13, <2>1 DEF k
    <2> HIDE DEF id
    <2> QED
      BY <1>6, <2>2 DEF Tab!stepFrom, Dirs
  <1> QED
    BY <1>1, <1>15, <1>16 DEF c, d

(* Every pane can be reached from every other: a set of panes that no move  *)
(* leaves has, of every part of the tree, all the panes or none.            *)
LEMMA AllReached ==
    ASSUME Tab!PanesHaveRoom, NEW l, Roomy(l), Tab!distinctIds(l)
    PROVE  Tab!reachesAll(l)
  <1> DEFINE ids == Tab!paneIds(l)
  <1>0. /\ Tab!isTree(l) /\ Leaves(l) \subseteq Nodes(l) /\ Nodes(l) \subseteq Path
        /\ ids = {IdAt(l, p) : p \in Leaves(l)} /\ <<>> \in Nodes(l)
    BY InTree, TreeFacts DEF Tab!paneIds, IdAt, Leaves
  <1>1. SUFFICES ASSUME NEW some \in SUBSET ids, some # {}, some # ids,
                        \A id \in some : Tab!stepFrom(l, id) \subseteq some
                 PROVE  FALSE
    <2> DEFINE step == [id \in ids |-> Tab!stepFrom(l, id)]
    <2>1. ASSUME NEW some \in (SUBSET ids) \ {{}, ids}
          PROVE  \E id \in some : step[id] \ some # {}
      <3>1. PICK id \in some : ~(Tab!stepFrom(l, id) \subseteq some)
        BY <1>1, <2>1
      <3>2. step[id] = Tab!stepFrom(l, id)
        BY <2>1, <3>1
      <3> QED
        BY <3>1, <3>2
    <2> QED
      BY <2>1 DEF Tab!reachesAll
  <1> DEFINE All(q) == \A p \in Leaves(l) : Leads(q, p) => IdAt(l, p) \in some
             Some(q) == \E p \in Leaves(l) : Leads(q, p) /\ IdAt(l, p) \in some
             S == {q \in Nodes(l) : All(q) \/ ~Some(q)}
  <1>2. Leaves(l) \subseteq S
    <2>1. \A q \in Leaves(l), p \in Leaves(l) : Leads(q, p) => q = p
      BY <1>0, LeavesApart
    <2> QED
      BY <1>0, <2>1
  <1>3. ASSUME NEW q \in Inner(l), Append(q, 0) \in S, Append(q, 1) \in S PROVE q \in S
    <2>1. ASSUME NEW s \in Slot, All(Append(q, s)), ~Some(Append(q, 1 - s)) PROVE FALSE
      <3>1. PICK f \in Leaves(l), t \in Leaves(l) :
              /\ Leads(Append(q, s), f) /\ Leads(Append(q, 1 - s), t)
              /\ IdAt(l, t) \in Tab!stepFrom(l, IdAt(l, f))
        BY <2>1, Crossing
      <3> QED
        BY <1>1, <2>1, <3>1
    <2>2. /\ All(Append(q, 0)) \/ ~Some(Append(q, 0))
          /\ All(Append(q, 1)) \/ ~Some(Append(q, 1))
      BY <1>3
    <2>3. /\ ~(All(Append(q, 0)) /\ ~Some(Append(q, 1)))
          /\ ~(All(Append(q, 1)) /\ ~Some(Append(q, 0)))
      <3>1. 0 \in Slot /\ 1 \in Slot /\ 1 - 0 = 1 /\ 1 - 1 = 0
        BY DEF Slot
      <3> HIDE DEF All, Some
      <3> QED
        BY <2>1, <3>1
    <2>4. q \in Nodes(l) /\ q \notin Leaves(l) /\ q \in Path
      BY <1>0, TreeFacts DEF Nodes
    <2>5. \A p \in Leaves(l) : Leads(q, p) => Leads(Append(q, 0), p) \/ Leads(Append(q, 1), p)
      BY <1>0, <2>4, UnderSlot DEF Slot
    <2>6. CASE All(Append(q, 0)) /\ All(Append(q, 1))
      BY <2>4, <2>5, <2>6
    <2>7. CASE ~Some(Append(q, 0)) /\ ~Some(Append(q, 1))
      BY <2>4, <2>5, <2>7
    <2> QED
      BY <2>2, <2>3, <2>6, <2>7
  <1>4. Nodes(l) \subseteq S
    <2> HIDE DEF S
    <2> QED
      BY <1>0, <1>2, <1>3, Ascent
  <1>5. All(<<>>) \/ ~Some(<<>>)
    BY <1>0, <1>4
  <1>6. \A p \in Leaves(l) : Leads(<<>>, p)
    BY <1>0, UnderRoot
  <1> QED
    BY <1>0, <1>1, <1>5, <1>6

LEMMA TabFinite == \A S : Tab!IsFiniteSet(S) <=> IsFiniteSet(S)
  BY DEF Tab!IsFiniteSet, IsFiniteSet

LEMMA OneEnd ==
    ASSUME NEW q \in Path, NEW s \in Slot, NEW r \in Path, NEW t \in Slot,
           Append(q, s) = Append(r, t)
    PROVE  q = r /\ s = t
  <1>1. \A o \in Path, u \in Slot : Append(q, s) = Append(o, u) => q = o /\ s = u
    BY PathBasics
  <1> QED
    BY <1>1

(* What makes a tree of the leaves and the inner nodes.                     *)
LEMMA MakesTree ==
    ASSUME NEW k, k = [panes |-> k.panes, splits |-> k.splits, focused |-> k.focused],
           IsFiniteSet(Nodes(k)), Nodes(k) \subseteq Path, <<>> \in Nodes(k),
           Leaves(k) \cap Inner(k) = {},
           \A p \in Inner(k), s \in Slot : Append(p, s) \in Nodes(k),
           \A p \in Inner(k) : Tab!isSplit(k.splits[p]),
           \A p \in Path, s \in Slot : Append(p, s) \in Nodes(k) => p \in Inner(k),
           k.focused \in Tab!paneIds(k)
    PROVE  Tab!isTree(k)
  <1>1. Tab!nodes(k) = Nodes(k) /\ Path = Seq({0, 1})
    BY DEF Tab!nodes, Nodes, Leaves, Inner, Path, Slot
  <1>2. \A p \in Nodes(k) \ {<<>>} : Tab!Front(p) \in Inner(k)
    <2>1. SUFFICES ASSUME NEW p \in Nodes(k), p # <<>> PROVE Tab!Front(p) \in Inner(k)
      OBVIOUS
    <2>2. /\ Tab!Front(p) \in Path /\ Tab!Last(p) \in Slot
          /\ p = Append(Tab!Front(p), Tab!Last(p))
      BY <2>1, PathEnds
    <2> QED
      BY <2>1, <2>2
  <1>3. \A p \in Inner(k) : {Append(p, 0), Append(p, 1)} \subseteq Nodes(k)
    BY DEF Slot
  <1>4. Tab!IsFiniteSet(Nodes(k))
    BY TabFinite
  <1> QED
    BY <1>1, <1>2, <1>3, <1>4 DEF Tab!isTree, Leaves, Inner

LEMMA SingleIsTree ==
    ASSUME NEW spec, NEW id
    PROVE  Tab!isTree(Tab!singlePane(spec, id)) /\ Tab!paneIds(Tab!singlePane(spec, id)) = {id}
  <1> DEFINE k == Tab!singlePane(spec, id)
  <1>1. k = [panes |-> [p \in {<<>>} |-> [id |-> id, spec |-> spec]], splits |-> <<>>,
             focused |-> id]
    BY DEF Tab!singlePane
  <1> HIDE DEF k
  <1>2. Leaves(k) = {<<>>} /\ Inner(k) = {} /\ Nodes(k) = {<<>>}
    BY <1>1 DEF Leaves, Inner, Nodes
  <1>3. IsFiniteSet(Nodes(k))
    BY <1>2, FS_Singleton
  <1>4. \A p \in Path, s \in Slot : Append(p, s) # <<>>
    BY PathBasics
  <1>5. Tab!paneIds(k) = {id} /\ k.focused = id
    BY <1>1 DEF Tab!paneIds
  <1>6. k = [panes |-> k.panes, splits |-> k.splits, focused |-> k.focused]
    BY <1>1
  <1>7. Tab!isTree(k)
    BY <1>2, <1>3, <1>4, <1>5, <1>6, RootPath, MakesTree
  <1> QED
    BY <1>5, <1>7 DEF k

LEMMA SplitIsTree ==
    ASSUME NEW l, Tab!isTree(l), NEW target, NEW axis \in Axis, NEW spec, NEW new, NEW split
    PROVE  LET k == Tab!splitPane(l, target, axis, spec, new, split)
           IN Tab!isTree(k) /\ Tab!paneIds(k) \subseteq Tab!paneIds(l) \cup {new}
  <1> DEFINE at   == Tab!PathsOf(l, target)
             kept == DOMAIN l.panes \ at
             A    == {Append(q, 0) : q \in at}
             B    == {Append(q, 1) : q \in at}
             pane == [id |-> new, spec |-> spec]
             k    == Tab!splitPane(l, target, axis, spec, new, split)
  <1>0. /\ at \subseteq Leaves(l) /\ \A p \in at : l.panes[p].id = target
        /\ kept = Leaves(l) \ at
    BY DEF Tab!PathsOf, Leaves
  <1>1. CASE at = {}
    <2>1. k = l
      BY <1>1 DEF Tab!splitPane
    <2> QED
      BY <2>1
  <1>2. CASE at # {}
    <2>1. k = [panes   |-> [p \in kept \union A \union B |->
                              IF p \in kept THEN l.panes[p]
                              ELSE IF Tab!Last(p) = 0 THEN l.panes[Tab!Front(p)] ELSE pane],
               splits  |-> [p \in DOMAIN l.splits \union at |->
                              IF p \in at THEN [id |-> split, axis |-> axis, ratio |-> 10]
                              ELSE l.splits[p]],
               focused |-> new]
      BY <1>2 DEF Tab!splitPane
    <2> HIDE DEF at, kept, k
    <2>2. /\ IsFiniteSet(Nodes(l)) /\ Nodes(l) \subseteq Path /\ <<>> \in Nodes(l)
          /\ Nodes(l) = Leaves(l) \cup Inner(l) /\ IsFiniteSet(at)
          /\ Leaves(l) \cap Inner(l) = {} /\ at \subseteq Path
          /\ \A p \in Inner(l), s \in Slot : Append(p, s) \in Nodes(l)
          /\ \A p \in Inner(l) : Tab!isSplit(l.splits[p])
          /\ \A p \in Path, s \in Slot : Append(p, s) \in Nodes(l) => p \in Inner(l)
      BY <1>0, TreeFacts, FS_Subset DEF Nodes
    <2>3. /\ Leaves(k) = kept \cup A \cup B /\ Inner(k) = Inner(l) \cup at
          /\ Nodes(k) = Nodes(l) \cup A \cup B
          /\ k = [panes |-> k.panes, splits |-> k.splits, focused |-> k.focused]
          /\ k.focused = new
      BY <1>0, <2>1, <2>2 DEF Leaves, Inner, Nodes
    <2>4. IsFiniteSet(A) /\ IsFiniteSet(B)
      <3> DEFINE f == [q \in at |-> Append(q, 0)]
                 g == [q \in at |-> Append(q, 1)]
      <3>1. /\ f = [q \in at |-> f[q]] /\ {f[q] : q \in at} = A
            /\ g = [q \in at |-> g[q]] /\ {g[q] : q \in at} = B
        OBVIOUS
      <3> HIDE DEF f, g, A, B
      <3> QED
        BY <2>2, <3>1, ImageOf
    <2>5. \A q \in at, s \in Slot : /\ Append(q, s) \in Path /\ Append(q, s) \notin Nodes(l)
                                    /\ Append(q, s) \in A \cup B
                                    /\ Tab!Front(Append(q, s)) = q
                                    /\ Tab!Last(Append(q, s)) = s
      <3>1. \A q \in at, s \in Slot : Append(q, s) \notin Nodes(l)
        BY <1>0, <2>2
      <3>2. \A q \in at, s \in Slot : Append(q, s) \in Path
        BY <2>2, PathBasics
      <3>3. \A q \in at, s \in Slot : Tab!Front(Append(q, s)) = q /\ Tab!Last(Append(q, s)) = s
        BY <2>2, PathFront
      <3> QED
        BY <3>1, <3>2, <3>3 DEF Slot
    <2>6. \A p \in A \cup B : /\ p \in Path /\ p \notin Nodes(l)
                              /\ \A q \in Path, s \in Slot : p = Append(q, s) => q \in at
      <3>1. SUFFICES ASSUME NEW p \in A \cup B
                     PROVE  /\ p \in Path /\ p \notin Nodes(l)
                            /\ \A q \in Path, s \in Slot : p = Append(q, s) => q \in at
        OBVIOUS
      <3>2. PICK r \in at, t \in Slot : p = Append(r, t)
        BY <3>1 DEF Slot
      <3>3. \A q \in Path, s \in Slot : p = Append(q, s) => q = r
        <4>1. r \in Path /\ t \in Slot
          BY <2>2, <3>2
        <4> QED
          BY <3>2, <4>1, OneEnd
      <3> QED
        BY <2>5, <3>2, <3>3
    <2>7. \A p \in A : Tab!Last(p) = 0 /\ Tab!Front(p) \in at
      BY <2>5 DEF Slot
    <2>8. \A p \in B : Tab!Last(p) = 1
      BY <2>5 DEF Slot
    <2> HIDE DEF A, B
    <2>9. IsFiniteSet(Nodes(k)) /\ Nodes(k) \subseteq Path /\ <<>> \in Nodes(k)
      <3>1. IsFiniteSet(Nodes(l) \cup A)
        BY <2>2, <2>4, FS_Union
      <3>2. IsFiniteSet((Nodes(l) \cup A) \cup B)
        BY <2>4, <3>1, FS_Union
      <3> QED
        BY <2>2, <2>3, <2>6, <3>2
    <2>10. Leaves(k) \cap Inner(k) = {}
      BY <1>0, <2>2, <2>3, <2>6 DEF Nodes
    <2>11. \A p \in Inner(k), s \in Slot : Append(p, s) \in Nodes(k)
      BY <2>2, <2>3, <2>5
    <2>12. \A p \in Inner(k) : Tab!isSplit(k.splits[p])
      <3>1. SUFFICES ASSUME NEW p \in Inner(k) PROVE Tab!isSplit(k.splits[p])
        OBVIOUS
      <3>2. CASE p \in at
        <4>1. k.splits[p] = [id |-> split, axis |-> axis, ratio |-> 10]
          BY <2>1, <3>2
        <4> QED
          BY <4>1 DEF Tab!isSplit, Axis
      <3>3. CASE p \notin at
        <4>1. p \in Inner(l)
          BY <2>3, <3>1, <3>3
        <4>2. k.splits[p] = l.splits[p]
          BY <2>1, <3>3, <4>1 DEF Inner
        <4> QED
          BY <2>2, <4>1, <4>2
      <3> QED
        BY <3>2, <3>3
    <2>13. \A p \in Path, s \in Slot : Append(p, s) \in Nodes(k) => p \in Inner(k)
      BY <2>2, <2>3, <2>6
    <2>14. ASSUME NEW p \in Leaves(k)
           PROVE  k.panes[p].id \in Tab!paneIds(l) \cup {new} /\ (p \in B => k.panes[p].id = new)
      <3>1. k.panes[p] = IF p \in kept THEN l.panes[p]
                         ELSE IF Tab!Last(p) = 0 THEN l.panes[Tab!Front(p)] ELSE pane
        BY <2>1, <2>3, <2>14
      <3>2. CASE p \in kept
        <4>1. p \in Leaves(l) /\ p \notin B
          BY <1>0, <2>6, <3>2 DEF Nodes
        <4> QED
          BY <3>1, <3>2, <4>1 DEF Tab!paneIds, Leaves
      <3>3. CASE p \in A /\ p \notin kept
        <4>1. k.panes[p] = l.panes[Tab!Front(p)] /\ Tab!Front(p) \in Leaves(l) /\ p \notin B
          BY <1>0, <2>7, <2>8, <3>1, <3>3
        <4> QED
          BY <4>1 DEF Tab!paneIds, Leaves
      <3>4. CASE p \in B /\ p \notin kept
        <4>1. k.panes[p] = pane
          BY <2>8, <3>1, <3>4
        <4> QED
          BY <4>1
      <3> QED
        BY <2>3, <2>14, <3>2, <3>3, <3>4
    <2>15. Tab!paneIds(k) = {k.panes[p].id : p \in Leaves(k)}
      BY DEF Tab!paneIds, Leaves
    <2>16. k.focused \in Tab!paneIds(k)
      <3>1. PICK q \in at : TRUE
        BY <1>2
      <3>2. Append(q, 1) \in B
        BY DEF B
      <3>3. Append(q, 1) \in Leaves(k)
        BY <2>3, <3>2
      <3> QED
        BY <2>3, <2>14, <2>15, <3>2, <3>3
    <2>17. Tab!isTree(k)
      BY <2>3, <2>9, <2>10, <2>11, <2>12, <2>13, <2>16, MakesTree
    <2>18. Tab!paneIds(k) \subseteq Tab!paneIds(l) \cup {new}
      BY <2>14, <2>15
    <2> QED
      BY <2>17, <2>18 DEF k
  <1> QED
    BY <1>1, <1>2

LEMMA ResizedIsTree ==
    ASSUME NEW l, Tab!isTree(l), NEW id, NEW ratio \in Int
    PROVE  LET k == Tab!resizeSplit(l, id, ratio)
           IN Tab!isTree(k) /\ Tab!paneIds(k) = Tab!paneIds(l)
  <1> DEFINE k == Tab!resizeSplit(l, id, ratio)
             named(p) == p \in DOMAIN l.splits /\ l.splits[p].id = id
             outer(p) == \A n \in 0..(Len(p) - 1) : ~named(SubSeq(p, 1, n))
             f == [p \in DOMAIN l.splits |->
                    IF named(p) /\ outer(p)
                    THEN [l.splits[p] EXCEPT !.ratio = Tab!clampRatio(ratio)]
                    ELSE l.splits[p]]
  <1>1. l = [panes |-> l.panes, splits |-> l.splits, focused |-> l.focused]
    BY TreeFacts
  <1>2. k = [panes |-> l.panes, splits |-> f, focused |-> l.focused]
    <2>1. k = [l EXCEPT !.splits = f]
      BY DEF Tab!resizeSplit
    <2> HIDE DEF k, f
    <2> QED
      BY <1>1, <2>1
  <1>3. DOMAIN f = Inner(l) /\ \A p \in Inner(l) : Tab!isSplit(f[p])
    <2>1. DOMAIN f = Inner(l)
      BY DEF Inner
    <2>2. SUFFICES ASSUME NEW p \in Inner(l) PROVE Tab!isSplit(f[p])
      BY <2>1
    <2>3. Tab!isSplit(l.splits[p])
      BY TreeFacts
    <2>4. Tab!clampRatio(ratio) \in 1..19
      BY DEF Tab!clampRatio
    <2>5. \/ f[p] = [l.splits[p] EXCEPT !.ratio = Tab!clampRatio(ratio)]
          \/ f[p] = l.splits[p]
      BY DEF Inner
    <2> HIDE DEF f
    <2>6. Tab!isSplit([l.splits[p] EXCEPT !.ratio = Tab!clampRatio(ratio)])
      <3> DEFINE sp == l.splits[p]
                 c == Tab!clampRatio(ratio)
      <3>1. sp = [id |-> sp.id, axis |-> sp.axis, ratio |-> sp.ratio] /\ sp.axis \in {"row", "column"}
        BY <2>3 DEF Tab!isSplit
      <3> HIDE DEF sp, c
      <3>2. [sp EXCEPT !.ratio = c] = [id |-> sp.id, axis |-> sp.axis, ratio |-> c]
        BY <3>1
      <3>3. Tab!isSplit([id |-> sp.id, axis |-> sp.axis, ratio |-> c])
        BY <2>4, <3>1 DEF Tab!isSplit, c
      <3> QED
        BY <3>2, <3>3 DEF sp, c
    <2> QED
      BY <2>3, <2>5, <2>6
  <1> HIDE DEF k, f
  <1>4. /\ k.panes = l.panes /\ k.splits = f /\ k.focused = l.focused
        /\ k = [panes |-> k.panes, splits |-> k.splits, focused |-> k.focused]
    BY <1>2
  <1>5. /\ Leaves(k) = Leaves(l) /\ Inner(k) = Inner(l) /\ Nodes(k) = Nodes(l)
        /\ Tab!paneIds(k) = Tab!paneIds(l)
    BY <1>3, <1>4 DEF Leaves, Inner, Nodes, Tab!paneIds
  <1>6. Tab!isTree(k)
    BY <1>3, <1>4, <1>5, TreeFacts, MakesTree
  <1> QED
    BY <1>5, <1>6 DEF k

(* A path below one node carried below another.                             *)
Graft(a, b, p) == b \o SubSeq(p, Len(a) + 1, Len(p))

LEMMA Grafted ==
    ASSUME NEW a \in Path, NEW b \in Path, NEW p \in Path, Len(a) <= Len(p)
    PROVE  /\ Graft(a, b, p) \in Path /\ Len(Graft(a, b, p)) = Len(b) + (Len(p) - Len(a))
           /\ \A i \in 1..Len(b) : Graft(a, b, p)[i] = b[i]
           /\ \A i \in 1..(Len(p) - Len(a)) : Graft(a, b, p)[Len(b) + i] = p[Len(a) + i]
           /\ Leads(b, Graft(a, b, p))
  <1> DEFINE c == SubSeq(p, Len(a) + 1, Len(p))
  <1>1. Len(a) \in Nat /\ Len(b) \in Nat /\ Len(p) \in Nat /\ \A i \in 1..Len(p) : p[i] \in Slot
    BY DEF Path
  <1>2. /\ c \in Path /\ Len(c) = Len(p) - Len(a)
        /\ \A i \in 1..(Len(p) - Len(a)) : c[i] = p[Len(a) + i]
    <2> DEFINE m == Len(a) + 1
               n == Len(p)
    <2>1. m \in Int /\ n \in Int /\ m <= n + 1 /\ \A i \in m..n : p[i] \in Slot
      BY <1>1
    <2>2. /\ c \in Seq(Slot) /\ Len(c) = IF m <= n THEN n - m + 1 ELSE 0
          /\ \A i \in 1..(n - m + 1) : c[i] = p[m + i - 1]
      <3> HIDE DEF m, n
      <3>1. /\ SubSeq(p, m, n) \in Seq(Slot)
            /\ Len(SubSeq(p, m, n)) = IF m <= n THEN n - m + 1 ELSE 0
            /\ \A i \in 1..(n - m + 1) : SubSeq(p, m, n)[i] = p[m + i - 1]
        BY <2>1, SubSeqProperties
      <3> QED
        BY <3>1 DEF m, n
    <2> HIDE DEF c
    <2>3. n - m + 1 = Len(p) - Len(a) /\ \A i \in Nat : m + i - 1 = Len(a) + i
      BY <1>1
    <2>4. Len(c) = Len(p) - Len(a)
      BY <1>1, <2>2
    <2>5. ASSUME NEW i \in 1..(Len(p) - Len(a)) PROVE c[i] = p[Len(a) + i]
      <3>1. i \in Nat /\ i \in 1..(n - m + 1)
        BY <1>1, <2>3
      <3>2. c[i] = p[m + i - 1] /\ m + i - 1 = Len(a) + i
        BY <2>2, <2>3, <3>1
      <3> QED
        BY <3>2
    <2> QED
      BY <2>2, <2>4, <2>5 DEF Path
  <1>3. Graft(a, b, p) = b \o c
    BY DEF Graft
  <1> HIDE DEF c
  <1>4. /\ b \o c \in Path /\ Len(b \o c) = Len(b) + Len(c)
        /\ \A i \in 1..Len(b) : (b \o c)[i] = b[i]
        /\ \A i \in 1..Len(c) : (b \o c)[Len(b) + i] = c[i]
    <2>1. b \in Seq(Slot) /\ c \in Seq(Slot)
      BY <1>2 DEF Path
    <2>2. /\ b \o c \in Seq(Slot) /\ Len(b \o c) = Len(b) + Len(c)
          /\ \A i \in 1..(Len(b) + Len(c)) :
               (b \o c)[i] = IF i <= Len(b) THEN b[i] ELSE c[i - Len(b)]
      BY <2>1, ConcatProperties
    <2>3. \A i \in 1..Len(c) : /\ Len(b) + i \in 1..(Len(b) + Len(c)) /\ ~(Len(b) + i <= Len(b))
                               /\ (Len(b) + i) - Len(b) = i
      BY <1>1, <1>2
    <2>4. \A i \in 1..Len(c) : (b \o c)[Len(b) + i] = c[i]
      BY <2>2, <2>3
    <2>5. \A i \in 1..Len(b) : (b \o c)[i] = b[i]
      BY <1>1, <1>2, <2>2
    <2> QED
      BY <2>2, <2>4, <2>5 DEF Path
  <1>5. Leads(b, b \o c)
    BY <1>1, <1>2, <1>4 DEF Leads
  <1> QED
    BY <1>1, <1>2, <1>3, <1>4, <1>5

(* It can be carried back.                                                  *)
LEMMA GraftedBack ==
    ASSUME NEW a \in Path, NEW b \in Path, NEW p \in Path, Leads(a, p)
    PROVE  /\ Graft(b, a, Graft(a, b, p)) = p
           /\ \A s \in Slot : Graft(a, b, Append(p, s)) = Append(Graft(a, b, p), s)
  <1> DEFINE g == Graft(a, b, p)
             h == Graft(b, a, g)
  <1>1. /\ Len(a) \in Nat /\ Len(b) \in Nat /\ Len(p) \in Nat /\ Len(a) <= Len(p)
        /\ \A i \in 1..Len(a) : p[i] = a[i]
    BY DEF Path, Leads
  <1>2. /\ g \in Path /\ Len(g) = Len(b) + (Len(p) - Len(a))
        /\ \A i \in 1..Len(b) : g[i] = b[i]
        /\ \A i \in 1..(Len(p) - Len(a)) : g[Len(b) + i] = p[Len(a) + i]
    BY <1>1, Grafted
  <1> HIDE DEF g
  <1>3. /\ h \in Path /\ Len(h) = Len(a) + (Len(g) - Len(b))
        /\ \A i \in 1..Len(a) : h[i] = a[i]
        /\ \A i \in 1..(Len(g) - Len(b)) : h[Len(a) + i] = g[Len(b) + i]
    <2>1. Len(b) <= Len(g) /\ g \in Path
      BY <1>1, <1>2
    <2> QED
      BY <2>1, Grafted
  <1> HIDE DEF h
  <1>4. Len(h) = Len(p) /\ Len(g) - Len(b) = Len(p) - Len(a)
    BY <1>1, <1>2, <1>3
  <1>5. \A i \in 1..Len(p) : h[i] = p[i]
    <2>1. SUFFICES ASSUME NEW i \in 1..Len(p) PROVE h[i] = p[i]
      OBVIOUS
    <2>2. CASE i <= Len(a)
      <3>1. i \in 1..Len(a)
        BY <1>1, <2>1, <2>2
      <3> QED
        BY <1>1, <1>3, <3>1
    <2>3. CASE i > Len(a)
      <3> DEFINE j == i - Len(a)
      <3>1. j \in 1..(Len(p) - Len(a)) /\ i = Len(a) + j
        BY <1>1, <2>1, <2>3
      <3> HIDE DEF j
      <3> QED
        BY <1>2, <1>3, <1>4, <3>1
    <2> QED
      BY <1>1, <2>1, <2>2, <2>3
  <1>6. h = p
    BY <1>3, <1>4, <1>5, SeqEqual DEF Path
  <1>7. ASSUME NEW s \in Slot PROVE Graft(a, b, Append(p, s)) = Append(g, s)
    <2> DEFINE o == Append(p, s)
               u == Graft(a, b, o)
               v == Append(g, s)
    <2>1. /\ o \in Path /\ Len(o) = Len(p) + 1 /\ o[Len(p) + 1] = s
          /\ \A i \in 1..Len(p) : o[i] = p[i]
      BY PathBasics
    <2>2. /\ v \in Path /\ Len(v) = Len(g) + 1 /\ v[Len(g) + 1] = s
          /\ \A i \in 1..Len(g) : v[i] = g[i]
      <3>1. g \in Path
        BY <1>2
      <3> QED
        BY <3>1, PathBasics
    <2> HIDE DEF o, v
    <2>3. /\ u \in Path /\ Len(u) = Len(b) + (Len(o) - Len(a))
          /\ \A i \in 1..Len(b) : u[i] = b[i]
          /\ \A i \in 1..(Len(o) - Len(a)) : u[Len(b) + i] = o[Len(a) + i]
      <3>1. Len(a) <= Len(o) /\ o \in Path
        BY <1>1, <2>1
      <3> QED
        BY <3>1, Grafted
    <2> HIDE DEF u
    <2>4. Len(u) = Len(v) /\ Len(v) = Len(b) + (Len(p) - Len(a)) + 1
      BY <1>1, <1>2, <2>1, <2>2, <2>3
    <2>5. \A i \in 1..Len(v) : u[i] = v[i]
      <3>1. SUFFICES ASSUME NEW i \in 1..Len(v) PROVE u[i] = v[i]
        OBVIOUS
      <3>2. CASE i <= Len(b)
        <4>1. i \in 1..Len(b) /\ i \in 1..Len(g)
          BY <1>1, <1>2, <3>1, <3>2
        <4> QED
          BY <1>2, <2>2, <2>3, <4>1
      <3>3. CASE i > Len(b) /\ i < Len(v)
        <4> DEFINE j == i - Len(b)
        <4>1. /\ j \in 1..(Len(p) - Len(a)) /\ i = Len(b) + j /\ i \in 1..Len(g)
              /\ j \in 1..(Len(o) - Len(a)) /\ Len(a) + j \in 1..Len(p)
          BY <1>1, <1>2, <2>1, <2>4, <3>1, <3>3
        <4> HIDE DEF j
        <4>2. u[i] = o[Len(a) + j] /\ v[i] = p[Len(a) + j]
          BY <1>2, <2>2, <2>3, <4>1
        <4> QED
          BY <2>1, <4>1, <4>2
      <3>4. CASE i = Len(v) /\ i > Len(b)
        <4> DEFINE j == i - Len(b)
        <4>1. /\ j \in 1..(Len(o) - Len(a)) /\ i = Len(b) + j /\ Len(a) + j = Len(p) + 1
              /\ i = Len(g) + 1
          BY <1>1, <1>2, <2>1, <2>4, <3>1, <3>4
        <4> HIDE DEF j
        <4> QED
          BY <2>1, <2>2, <2>3, <4>1
      <3> QED
        BY <1>1, <2>4, <3>1, <3>2, <3>3, <3>4
    <2>6. u = v
      BY <2>2, <2>3, <2>4, <2>5, SeqEqual DEF Path
    <2> QED
      BY <2>6 DEF o, u, v
  <1> QED
    BY <1>6, <1>7 DEF g, h

LEMMA PrefixIsUnder ==
    ASSUME NEW q \in Path, NEW p \in Path
    PROVE  Tab!IsPrefix(q, p) <=> Leads(q, p)
  <1>1. Len(q) \in Nat /\ Len(p) \in Nat
    BY DEF Path
  <1> DEFINE a == SubSeq(q, 1, Len(q))
             b == SubSeq(p, 1, Len(q))
  <1>2. SUFFICES ASSUME Len(q) <= Len(p) PROVE a = b <=> \A i \in 1..Len(q) : p[i] = q[i]
    BY DEF Tab!IsPrefix, Leads
  <1>3. \A i \in 1..Len(q) : q[i] \in Slot /\ p[i] \in Slot
    BY <1>1, <1>2 DEF Path
  <1>4. /\ a \in Path /\ Len(a) = Len(q) /\ b \in Path /\ Len(b) = Len(q)
        /\ \A i \in 1..Len(q) : a[i] = q[i] /\ b[i] = p[i]
    BY <1>1, <1>3, Cut DEF Path
  <1> HIDE DEF a, b
  <1>5. a = b => \A i \in 1..Len(q) : p[i] = q[i]
    BY <1>4
  <1>6. (\A i \in 1..Len(q) : p[i] = q[i]) => a = b
    BY <1>4, SeqEqual DEF Path
  <1> QED
    BY <1>5, <1>6

(* Where a node of the tree that is left was before.                        *)
Lift(top, side, p) == IF Leads(top, p) THEN Graft(top, side, p) ELSE p

LEMMA PromotedIs ==
    ASSUME NEW top \in Path, NEW side \in Path, Leads(top, side),
           NEW fun, DOMAIN fun \subseteq Path
    PROVE  LET m == Tab!promoted(fun, side, top)
           IN /\ DOMAIN m = {p \in Path : Lift(top, side, p) \in DOMAIN fun}
              /\ \A p \in DOMAIN m : m[p] = fun[Lift(top, side, p)]
  <1> DEFINE D == DOMAIN fun
             m == Tab!promoted(fun, side, top)
             stay == {p \in D : ~Tab!IsPrefix(top, p)}
             moved == {Graft(side, top, p) : p \in {q \in D : Tab!IsPrefix(side, q)}}
             all == {p \in Path : Lift(top, side, p) \in D}
  <1>1. m = [p \in stay \cup moved |-> IF p \in stay THEN fun[p] ELSE fun[Graft(top, side, p)]]
    BY DEF Tab!promoted, Graft
  <1>2. side \in Path /\ Leads(top, side)
    OBVIOUS
  <1>3. /\ stay = {p \in D : ~Leads(top, p)}
        /\ moved = {Graft(side, top, p) : p \in {q \in D : Leads(side, q)}}
    <2>1. \A p \in D : /\ Tab!IsPrefix(top, p) <=> Leads(top, p)
                       /\ Tab!IsPrefix(side, p) <=> Leads(side, p)
      BY <1>2, PrefixIsUnder
    <2> QED
      BY <2>1
  <1>4. ASSUME NEW q \in D, Leads(side, q)
        PROVE  LET p == Graft(side, top, q)
               IN p \in Path /\ Leads(top, p) /\ Graft(top, side, p) = q
    <2>1. Len(side) <= Len(q) /\ q \in Path
      BY <1>4 DEF Leads
    <2> QED
      BY <1>2, <1>4, <2>1, Grafted, GraftedBack
  <1>5. ASSUME NEW p \in Path, Leads(top, p)
        PROVE  LET q == Graft(top, side, p)
               IN q \in Path /\ Leads(side, q) /\ Graft(side, top, q) = p
    <2>1. Len(top) <= Len(p)
      BY <1>5 DEF Leads
    <2> QED
      BY <1>2, <1>5, <2>1, Grafted, GraftedBack
  <1> HIDE DEF m, stay, moved, D
  <1>6. ASSUME NEW p \in stay \cup moved
        PROVE  p \in all /\ m[p] = fun[Lift(top, side, p)]
    <2>1. CASE p \in stay
      BY <1>1, <1>3, <2>1 DEF Lift, D
    <2>2. CASE p \in moved
      <3>1. PICK q \in D : Leads(side, q) /\ p = Graft(side, top, q)
        BY <1>3, <2>2
      <3>2. p \in Path /\ Leads(top, p) /\ Graft(top, side, p) = q
        BY <1>4, <3>1
      <3>3. p \notin stay
        BY <1>3, <3>2
      <3> QED
        BY <1>1, <2>2, <3>1, <3>2, <3>3 DEF Lift
    <2> QED
      BY <1>6, <2>1, <2>2
  <1>7. ASSUME NEW p \in all PROVE p \in stay \cup moved
    <2>1. CASE Leads(top, p)
      <3>1. Graft(top, side, p) \in D
        BY <1>7, <2>1 DEF Lift
      <3>2. Leads(side, Graft(top, side, p)) /\ Graft(side, top, Graft(top, side, p)) = p
        BY <1>5, <1>7, <2>1
      <3> QED
        BY <1>3, <3>1, <3>2
    <2>2. CASE ~Leads(top, p)
      BY <1>3, <1>7, <2>2 DEF Lift
    <2> QED
      BY <2>1, <2>2
  <1>8. DOMAIN m = stay \cup moved
    BY <1>1
  <1> HIDE DEF all
  <1>9. DOMAIN m = all
    BY <1>6, <1>7, <1>8
  <1> QED
    BY <1>6, <1>8, <1>9 DEF all, m, D

LEMMA LiftSteps ==
    ASSUME NEW top \in Path, NEW side \in Path, Leads(top, side), NEW p \in Path
    PROVE  /\ Lift(top, side, p) \in Path
           /\ Lift(top, side, top) = side
           /\ \A s \in Slot : Append(p, s) # top =>
                Lift(top, side, Append(p, s)) = Append(Lift(top, side, p), s)
           /\ \A s \in Slot : Append(p, s) = top => Lift(top, side, p) = p
  <1>1. Len(side) \in Nat /\ Len(top) \in Nat
    BY DEF Path
  <1>2. Lift(top, side, p) \in Path
    <2>1. CASE Leads(top, p)
      BY <1>1, <2>1, Grafted DEF Lift, Leads
    <2>2. CASE ~Leads(top, p)
      BY <2>2 DEF Lift
    <2> QED
      BY <2>1, <2>2
  <1>3. Lift(top, side, top) = side
    <2> DEFINE g == Graft(top, side, top)
    <2>1. Leads(top, top)
      BY UnderRoot
    <2>2. Len(top) <= Len(top)
      BY <1>1
    <2>3. g \in Path /\ Len(g) = Len(side) + (Len(top) - Len(top)) /\ \A i \in 1..Len(side) : g[i] = side[i]
      BY <1>1, <2>2, Grafted
    <2> HIDE DEF g
    <2>4. Len(g) = Len(side)
      BY <1>1, <2>3
    <2>5. g = side
      BY <1>1, <2>3, <2>4, SeqEqual DEF Path
    <2> QED
      BY <2>1, <2>5 DEF Lift, g
  <1>4. ASSUME NEW s \in Slot, Append(p, s) # top
        PROVE  Lift(top, side, Append(p, s)) = Append(Lift(top, side, p), s)
    <2>1. Leads(top, Append(p, s)) <=> Leads(top, p)
      BY <1>4, UnderAppend
    <2>2. CASE Leads(top, p)
      BY <1>1, <2>1, <2>2, GraftedBack DEF Lift
    <2>3. CASE ~Leads(top, p)
      BY <2>1, <2>3 DEF Lift
    <2> QED
      BY <2>2, <2>3
  <1>5. ASSUME NEW s \in Slot, Append(p, s) = top PROVE Lift(top, side, p) = p
    <2>1. ~Leads(top, p)
      BY <1>5, UnderAppend
    <2> QED
      BY <2>1 DEF Lift
  <1> QED
    BY <1>2, <1>3, <1>4, <1>5

(* The tree that is left when one side of a split takes the split's place.  *)
LEMMA PromotedIsTree ==
    ASSUME NEW l, Tab!isTree(l), NEW top \in Inner(l), NEW side \in Nodes(l), Leads(top, side),
           NEW id, NEW k,
           k = [panes |-> Tab!promoted(l.panes, side, top),
                splits |-> Tab!promoted(l.splits, side, top), focused |-> id]
    PROVE  /\ \E p \in Leaves(k) : Leads(top, p)
           /\ Tab!paneIds(k) \subseteq Tab!paneIds(l)
           /\ k.focused \in Tab!paneIds(k) => Tab!isTree(k)
  <1> DEFINE L(p) == Lift(top, side, p)
  <1>0. /\ IsFiniteSet(Nodes(l)) /\ Nodes(l) \subseteq Path /\ <<>> \in Nodes(l)
        /\ Leaves(l) \cap Inner(l) = {} /\ top \in Path /\ top \in Nodes(l)
        /\ \A p \in Inner(l), s \in Slot : Append(p, s) \in Nodes(l)
        /\ \A p \in Inner(l) : Tab!isSplit(l.splits[p])
        /\ \A p \in Path, s \in Slot : Append(p, s) \in Nodes(l) => p \in Inner(l)
        /\ DOMAIN l.panes = Leaves(l) /\ DOMAIN l.splits = Inner(l)
        /\ Leaves(l) \subseteq Path /\ Inner(l) \subseteq Path
    BY TreeFacts DEF Nodes, Leaves, Inner
  <1>1. side \in Path /\ side \in Nodes(l) /\ Leads(top, side)
    BY <1>0
  <1>2. /\ k.panes = Tab!promoted(l.panes, side, top)
        /\ k.splits = Tab!promoted(l.splits, side, top)
        /\ k = [panes |-> k.panes, splits |-> k.splits, focused |-> k.focused]
    OBVIOUS
  <1>3. /\ Leaves(k) = {p \in Path : L(p) \in Leaves(l)}
        /\ \A p \in Leaves(k) : k.panes[p] = l.panes[L(p)]
    <2>1. /\ DOMAIN k.panes = {p \in Path : Lift(top, side, p) \in DOMAIN l.panes}
          /\ \A p \in DOMAIN k.panes : k.panes[p] = l.panes[Lift(top, side, p)]
      <3> DEFINE was == l.panes
                 made == Tab!promoted(was, side, top)
      <3>1. top \in Path /\ DOMAIN was \subseteq Path
        BY <1>0
      <3> HIDE DEF was
      <3>2. /\ DOMAIN made = {p \in Path : Lift(top, side, p) \in DOMAIN was}
            /\ \A p \in DOMAIN made : made[p] = was[Lift(top, side, p)]
        BY <1>1, <3>1, PromotedIs
      <3> QED
        BY <1>2, <3>2 DEF was
    <2> QED
      BY <1>0, <2>1 DEF Leaves
  <1>4. /\ Inner(k) = {p \in Path : L(p) \in Inner(l)}
        /\ \A p \in Inner(k) : k.splits[p] = l.splits[L(p)]
    <2>1. /\ DOMAIN k.splits = {p \in Path : Lift(top, side, p) \in DOMAIN l.splits}
          /\ \A p \in DOMAIN k.splits : k.splits[p] = l.splits[Lift(top, side, p)]
      <3> DEFINE was == l.splits
                 made == Tab!promoted(was, side, top)
      <3>1. top \in Path /\ DOMAIN was \subseteq Path
        BY <1>0
      <3> HIDE DEF was
      <3>2. /\ DOMAIN made = {p \in Path : Lift(top, side, p) \in DOMAIN was}
            /\ \A p \in DOMAIN made : made[p] = was[Lift(top, side, p)]
        BY <1>1, <3>1, PromotedIs
      <3> QED
        BY <1>2, <3>2 DEF was
    <2> QED
      BY <1>0, <2>1 DEF Inner
  <1>5. Nodes(k) = {p \in Path : L(p) \in Nodes(l)}
    BY <1>3, <1>4 DEF Nodes
  <1>6. /\ L(top) = side
        /\ \A p \in Path, s \in Slot : Append(p, s) # top => L(Append(p, s)) = Append(L(p), s)
        /\ \A p \in Path, s \in Slot : Append(p, s) = top => L(p) = p
        /\ \A p \in Path : L(p) \in Path
    <2>1. ASSUME NEW p \in Path
          PROVE  /\ L(p) \in Path /\ L(top) = side
                 /\ \A s \in Slot : Append(p, s) # top => L(Append(p, s)) = Append(L(p), s)
                 /\ \A s \in Slot : Append(p, s) = top => L(p) = p
      <3>1. top \in Path
        BY <1>0
      <3> QED
        BY <1>1, <2>1, <3>1, LiftSteps
    <2> HIDE DEF L
    <2> QED
      BY <1>0, <2>1
  <1> HIDE DEF L
  <1>7. IsFiniteSet(Nodes(k))
    <2> DEFINE f == [n \in Nodes(l) |-> IF Leads(side, n) THEN Graft(side, top, n) ELSE n]
    <2>1. IsFiniteSet({f[n] : n \in Nodes(l)})
      <3>1. f = [n \in Nodes(l) |-> f[n]]
        OBVIOUS
      <3> HIDE DEF f
      <3> QED
        BY <1>0, <3>1, ImageOf
    <2>2. ASSUME NEW p \in Nodes(k) PROVE \E n \in Nodes(l) : p = f[n]
      <3>1. p \in Path /\ L(p) \in Nodes(l)
        BY <1>5, <2>2
      <3>2. CASE Leads(top, p)
        <4>1. L(p) = Graft(top, side, p)
          BY <3>2 DEF L, Lift
        <4>2. Graft(side, top, Graft(top, side, p)) = p
          BY <1>0, <1>1, <3>1, <3>2, GraftedBack
        <4>3. Leads(side, Graft(top, side, p))
          <5>1. Len(top) <= Len(p) /\ top \in Path
            BY <1>0, <3>2 DEF Leads
          <5> QED
            BY <1>1, <3>1, <5>1, Grafted
        <4> QED
          BY <3>1, <4>1, <4>2, <4>3
      <3>3. CASE ~Leads(top, p)
        <4>1. L(p) = p /\ ~Leads(side, p)
          BY <1>0, <1>1, <3>1, <3>3, UnderTrans DEF L, Lift
        <4> QED
          BY <3>1, <4>1
      <3> QED
        BY <3>2, <3>3
    <2> HIDE DEF f
    <2>3. Nodes(k) \subseteq {f[n] : n \in Nodes(l)}
      BY <2>2
    <2> QED
      BY <2>1, <2>3, FS_Subset
  <1>8. <<>> \in Nodes(k)
    <2>1. CASE top = <<>>
      BY <1>0, <1>1, <1>5, <1>6, <2>1
    <2>2. CASE top # <<>>
      <3>1. ~Leads(top, <<>>)
        BY <1>0, <2>2, UnderRoot
      <3> QED
        BY <1>0, <1>5, <3>1, RootPath DEF L, Lift
    <2> QED
      BY <2>1, <2>2
  <1>9. \A p \in Path, s \in Slot : Append(p, s) \in Path
    BY PathBasics
  <1>10. \A p \in Inner(k), s \in Slot : Append(p, s) \in Nodes(k)
    <2>1. SUFFICES ASSUME NEW p \in Inner(k), NEW s \in Slot PROVE L(Append(p, s)) \in Nodes(l)
      BY <1>4, <1>5, <1>9
    <2>2. p \in Path /\ L(p) \in Inner(l)
      BY <1>4, <2>1
    <2>3. CASE Append(p, s) = top
      BY <1>1, <1>6, <2>2, <2>3
    <2>4. CASE Append(p, s) # top
      <3>1. L(Append(p, s)) = Append(L(p), s)
        BY <1>6, <2>2, <2>4
      <3> QED
        BY <1>0, <2>2, <3>1
    <2> QED
      BY <2>3, <2>4
  <1>11. \A p \in Path, s \in Slot : Append(p, s) \in Nodes(k) => p \in Inner(k)
    <2>1. SUFFICES ASSUME NEW p \in Path, NEW s \in Slot, L(Append(p, s)) \in Nodes(l)
                   PROVE  L(p) \in Inner(l)
      BY <1>4, <1>5
    <2>2. CASE Append(p, s) = top
      BY <1>0, <1>6, <2>1, <2>2
    <2>3. CASE Append(p, s) # top
      <3>1. L(Append(p, s)) = Append(L(p), s) /\ L(p) \in Path
        BY <1>6, <2>3
      <3> QED
        BY <1>0, <2>1, <3>1
    <2> QED
      BY <2>2, <2>3
  <1>12. Leaves(k) \cap Inner(k) = {} /\ Nodes(k) \subseteq Path
         /\ \A p \in Inner(k) : Tab!isSplit(k.splits[p])
    BY <1>0, <1>3, <1>4, <1>5
  <1>13. k.focused \in Tab!paneIds(k) => Tab!isTree(k)
    BY <1>2, <1>7, <1>8, <1>10, <1>11, <1>12, MakesTree
  <1>14. \E p \in Leaves(k) : Leads(top, p)
    <2>1. PICK n \in Leaves(l) : Leads(side, n)
      BY <1>1, LeafUnder
    <2> DEFINE p == Graft(side, top, n)
    <2>2. n \in Path /\ Len(side) <= Len(n)
      BY <1>0, <2>1 DEF Leads
    <2>3. p \in Path /\ Leads(top, p) /\ Graft(top, side, p) = n
      <3>1. top \in Path
        BY <1>0
      <3>2. p \in Path /\ Leads(top, p)
        BY <1>1, <2>2, <3>1, Grafted
      <3>3. Graft(top, side, p) = n
        BY <1>1, <2>1, <2>2, <3>1, GraftedBack
      <3> QED
        BY <3>2, <3>3
    <2> HIDE DEF p
    <2>4. L(p) = n
      BY <2>3 DEF L, Lift
    <2> QED
      BY <1>3, <2>3, <2>4
  <1>15. Tab!paneIds(k) \subseteq Tab!paneIds(l)
    <2>1. \A p \in Leaves(k) : L(p) \in Leaves(l) /\ k.panes[p].id = l.panes[L(p)].id
      BY <1>3
    <2> QED
      BY <2>1 DEF Tab!paneIds, Leaves
  <1> QED
    BY <1>13, <1>14, <1>15

LEMMA ClosedIsTree ==
    ASSUME NEW l, Tab!isTree(l), NEW target
    PROVE  LET k == Tab!closePane(l, target)
           IN \/ k = Tab!emptyLayout
              \/ Tab!isTree(k) /\ Tab!paneIds(k) \subseteq Tab!paneIds(l)
  <1> DEFINE at    == Tab!PathsOf(l, target)
             gone  == Tab!firstOf(at)
             top   == Tab!Front(gone)
             side  == Append(top, 1 - Tab!Last(gone))
             kept == Tab!promoted(l.panes, side, top)
             below == {p \in DOMAIN kept : Tab!IsPrefix(top, p)}
             next  == kept[Tab!firstOf(below)].id
             keeps == /\ l.focused # target
                      /\ \E p \in DOMAIN kept : kept[p].id = l.focused
             k == Tab!closePane(l, target)
             shape(id) == [panes |-> kept, splits |-> Tab!promoted(l.splits, side, top),
                           focused |-> id]
  <1>1. CASE at = {}
    BY <1>1 DEF Tab!closePane
  <1>2. CASE at # {} /\ DOMAIN l.splits = {}
    BY <1>2 DEF Tab!closePane
  <1>3. CASE at # {} /\ DOMAIN l.splits # {}
    <2>1. k = shape(IF keeps THEN l.focused ELSE next)
      BY <1>3 DEF Tab!closePane
    <2>2. /\ Nodes(l) \subseteq Path /\ Leaves(l) \subseteq Nodes(l) /\ Inner(l) \subseteq Nodes(l)
          /\ Leaves(l) \cap Inner(l) = {} /\ DOMAIN l.splits = Inner(l)
          /\ \A p \in Path, s \in Slot : Append(p, s) \in Nodes(l) => p \in Inner(l)
          /\ \A p \in Inner(l), s \in Slot : Append(p, s) \in Nodes(l)
      BY TreeFacts DEF Nodes, Inner
    <2>3. gone \in Leaves(l)
      <3>1. at \in SUBSET Leaves(l)
        BY DEF Tab!PathsOf, Leaves
      <3> HIDE DEF at
      <3>2. Tab!firstOf(at) \in at
        BY <1>3, <3>1, FirstLeaf
      <3> QED
        BY <3>1, <3>2
    <2>4. gone # <<>>
      <3>1. PICK p \in Inner(l) : TRUE
        BY <1>3, <2>2
      <3>2. p # gone /\ p \in Nodes(l) /\ p \in Path
        BY <2>2, <2>3, <3>1
      <3>3. ~Leads(gone, p)
        BY <2>3, <3>2, LeavesApart
      <3> HIDE DEF gone
      <3> QED
        BY <3>2, <3>3, UnderRoot
    <2> HIDE DEF gone, k, at
    <2>5. top \in Path /\ Tab!Last(gone) \in Slot /\ gone = Append(top, Tab!Last(gone))
      BY <2>2, <2>3, <2>4, PathEnds
    <2>6. top \in Inner(l) /\ top \in Path
      BY <2>2, <2>3, <2>5
    <2>7. side \in Nodes(l) /\ Leads(top, side)
      <3>1. 1 - Tab!Last(gone) \in Slot
        BY <2>5 DEF Slot
      <3> QED
        BY <2>2, <2>6, <3>1, UnderAppend
    <2> HIDE DEF top, side
    <2>8. ASSUME NEW id
          PROVE  LET j == shape(id)
                 IN /\ \E p \in Leaves(j) : Leads(top, p)
                    /\ Tab!paneIds(j) \subseteq Tab!paneIds(l)
                    /\ j.focused \in Tab!paneIds(j) => Tab!isTree(j)
      <3> DEFINE j == shape(id)
      <3>1. j = [panes |-> Tab!promoted(l.panes, side, top),
                 splits |-> Tab!promoted(l.splits, side, top), focused |-> id]
        OBVIOUS
      <3> HIDE DEF j
      <3> QED
        BY <2>6, <2>7, <3>1, PromotedIsTree
    <2> DEFINE ids == {kept[p].id : p \in DOMAIN kept}
    <2>9. \A id : Tab!paneIds(shape(id)) = ids /\ shape(id).focused = id
                  /\ Leaves(shape(id)) = DOMAIN kept
      BY DEF Tab!paneIds, Leaves
    <2> HIDE DEF shape
    <2>10. PICK o \in DOMAIN kept : Leads(top, o)
      BY <2>8, <2>9
    <2>11. next \in ids
      <3> DEFINE j == shape(kept[o].id)
      <3>1. kept[o].id \in ids
        BY <2>10
      <3>2. Tab!isTree(j) /\ Leaves(j) = DOMAIN kept
        BY <2>8, <2>9, <3>1
      <3> HIDE DEF j
      <3>3. o \in Path
        BY <2>10, <3>2, TreeFacts DEF Nodes
      <3>4. Tab!IsPrefix(top, o)
        BY <2>6, <2>10, <3>3, PrefixIsUnder
      <3>5. below \in SUBSET Leaves(j) /\ below # {}
        BY <2>10, <3>2, <3>4
      <3> HIDE DEF below
      <3>6. Tab!firstOf(below) \in below
        BY <3>2, <3>5, FirstLeaf
      <3> QED
        BY <3>2, <3>5, <3>6
    <2>12. (IF keeps THEN l.focused ELSE next) \in ids
      <3> HIDE DEF next
      <3>1. keeps => l.focused \in ids
        BY Zenon
      <3> HIDE DEF keeps, ids
      <3> QED
        BY <2>11, <3>1
    <2> DEFINE id == IF keeps THEN l.focused ELSE next
    <2>13. Tab!isTree(shape(id)) /\ Tab!paneIds(shape(id)) \subseteq Tab!paneIds(l)
      <3> HIDE DEF keeps, next, ids
      <3> QED
        BY <2>8, <2>9, <2>12
    <2> QED
      BY <2>1, <2>13 DEF k
  <1> QED
    BY <1>1, <1>2, <1>3

-----------------------------------------------------------------------------
(* The layouts of this version.                                             *)

Sound(l) == (l = Tab!emptyLayout \/ Tab!isTree(l)) /\ Cardinality(Tab!paneIds(l)) <= MaxPanes

LEMMA SoundIsLayout == \A l : Tab!isLayout(l) <=> Sound(l)
  BY TabCounts DEF Tab!isLayout, Sound

LEMMA EmptyIsSound ==
    ASSUME Tab!PanesHaveRoom
    PROVE  /\ Sound(Tab!emptyLayout) /\ Leaves(Tab!emptyLayout) = {}
           /\ Inner(Tab!emptyLayout) = {} /\ Tab!paneIds(Tab!emptyLayout) = {}
           /\ ~Tab!isTree(Tab!emptyLayout)
  <1> DEFINE l == Tab!emptyLayout
  <1>1. l = [panes |-> <<>>, splits |-> <<>>, focused |-> "none"]
    BY DEF Tab!emptyLayout
  <1>2. Leaves(l) = {} /\ Inner(l) = {} /\ Tab!paneIds(l) = {}
    BY <1>1 DEF Leaves, Inner, Tab!paneIds
  <1>3. Cardinality({}) = 0 /\ 0 <= MaxPanes
    BY FS_EmptySet DEF Tab!PanesHaveRoom
  <1>4. ~Tab!isTree(l)
    <2> HIDE DEF l
    <2>1. Tab!isTree(l) => Nodes(l) # {}
      BY TreeFacts
    <2> QED
      BY <1>2, <2>1 DEF Nodes
  <1> QED
    BY <1>2, <1>3, <1>4 DEF Sound

(* A layout with no more panes than there is room for, and one with one more. *)
LEMMA FewerAreSound ==
    ASSUME Tab!PanesHaveRoom, NEW l, Tab!isTree(l), Sound(l), NEW k, Tab!isTree(k),
           Tab!paneIds(k) \subseteq Tab!paneIds(l)
    PROVE  Sound(k)
  <1>1. IsFiniteSet(Tab!paneIds(l)) /\ IsFiniteSet(Tab!paneIds(k))
    BY RectOfPane
  <1>2. Cardinality(Tab!paneIds(k)) <= Cardinality(Tab!paneIds(l))
    BY <1>1, FS_Subset
  <1>3. Cardinality(Tab!paneIds(k)) \in Nat /\ Cardinality(Tab!paneIds(l)) \in Nat
    BY <1>1, FS_CardinalityType
  <1>4. Cardinality(Tab!paneIds(k)) <= MaxPanes
    BY <1>2, <1>3 DEF Sound, Tab!PanesHaveRoom
  <1> QED
    BY <1>4 DEF Sound

LEMMA OneMoreIsSound ==
    ASSUME Tab!PanesHaveRoom, NEW l, Tab!isTree(l), Cardinality(Leaves(l)) < MaxPanes,
           NEW k, Tab!isTree(k), NEW id, Tab!paneIds(k) \subseteq Tab!paneIds(l) \cup {id}
    PROVE  Sound(k)
  <1>1. IsFiniteSet(Tab!paneIds(l)) /\ IsFiniteSet(Tab!paneIds(k)) /\ IsFiniteSet(Leaves(l))
    BY RectOfPane, TreeFacts
  <1>2. Cardinality(Tab!paneIds(l)) <= Cardinality(Leaves(l))
    <2> DEFINE f == [p \in Leaves(l) |-> IdAt(l, p)]
    <2>1. f = [p \in Leaves(l) |-> f[p]] /\ {f[p] : p \in Leaves(l)} = Tab!paneIds(l)
      BY DEF Tab!paneIds, IdAt, Leaves
    <2> HIDE DEF f
    <2> QED
      BY <1>1, <2>1, ImageOf
  <1>3. /\ IsFiniteSet(Tab!paneIds(l) \cup {id})
        /\ Cardinality(Tab!paneIds(l) \cup {id}) <= Cardinality(Tab!paneIds(l)) + 1
    <2>1. Cardinality(Tab!paneIds(l)) \in Nat
      BY <1>1, FS_CardinalityType
    <2>2. /\ IsFiniteSet(Tab!paneIds(l) \cup {id})
          /\ Cardinality(Tab!paneIds(l) \cup {id}) =
               IF id \in Tab!paneIds(l) THEN Cardinality(Tab!paneIds(l))
               ELSE Cardinality(Tab!paneIds(l)) + 1
      BY <1>1, FS_AddElement
    <2> QED
      BY <2>1, <2>2
  <1>4. Cardinality(Tab!paneIds(k)) <= Cardinality(Tab!paneIds(l) \cup {id})
    BY <1>3, FS_Subset
  <1>5. /\ Cardinality(Tab!paneIds(k)) \in Nat /\ Cardinality(Tab!paneIds(l)) \in Nat
        /\ Cardinality(Tab!paneIds(l) \cup {id}) \in Nat /\ Cardinality(Leaves(l)) \in Nat
        /\ MaxPanes \in Nat
    BY <1>1, <1>3, FS_CardinalityType DEF Tab!PanesHaveRoom
  <1>6. Cardinality(Tab!paneIds(k)) <= MaxPanes
    BY <1>2, <1>3, <1>4, <1>5
  <1> QED
    BY <1>6 DEF Sound

(* Each operation on a layout makes a layout.                               *)
LEMMA SinglePaneSound ==
    ASSUME Tab!PanesHaveRoom, NEW spec, NEW id
    PROVE  Sound(Tab!singlePane(spec, id))
  <1>1. Cardinality({id}) = 1
    BY FS_Singleton
  <1>2. 1 <= MaxPanes
    BY DEF Tab!PanesHaveRoom
  <1> QED
    BY <1>1, <1>2, SingleIsTree DEF Sound

LEMMA FocusSound ==
    ASSUME NEW l, Sound(l), NEW id
    PROVE  Sound(Tab!focusPane(l, id))
  <1>1. CASE id \in Tab!paneIds(l) /\ Tab!isTree(l)
    <2> DEFINE k == [l EXCEPT !.focused = id]
    <2>1. Tab!isTree(k) /\ Tab!paneIds(k) = Tab!paneIds(l)
      BY <1>1, Refocused
    <2>2. Tab!focusPane(l, id) = k
      BY <1>1 DEF Tab!focusPane
    <2> HIDE DEF k
    <2> QED
      BY <1>1, <2>1, <2>2 DEF Sound
  <1>2. CASE id \notin Tab!paneIds(l)
    BY <1>2 DEF Tab!focusPane
  <1>3. CASE ~Tab!isTree(l)
    <2>1. Tab!paneIds(l) = {}
      BY <1>3 DEF Sound, Tab!emptyLayout, Tab!paneIds
    <2> QED
      BY <2>1 DEF Tab!focusPane
  <1> QED
    BY <1>1, <1>2, <1>3

LEMMA MoveSound ==
    ASSUME Tab!PanesHaveRoom, NEW l, Sound(l), Tab!isTree(l), NEW dir \in Dirs
    PROVE  Sound(Tab!focusMove(l, dir))
  <1> DEFINE near == Tab!neighbors(Tab!computeRects(l), l.focused, dir)
  <1>0. Unit \in Nat
    BY DEF Tab!PanesHaveRoom
  <1>1. CASE near = {}
    BY <1>0, <1>1, Nearest
  <1>2. CASE near # {}
    <2>1. PICK i \in near : /\ Tab!focusMove(l, dir) = [l EXCEPT !.focused = i]
                            /\ i \in Tab!paneIds(l)
      BY <1>0, <1>2, Nearest
    <2> DEFINE k == [l EXCEPT !.focused = i]
    <2>2. Tab!isTree(k) /\ Tab!paneIds(k) = Tab!paneIds(l)
      BY <2>1, Refocused
    <2> HIDE DEF k
    <2>3. Sound(k)
      BY <2>2 DEF Sound
    <2> QED
      BY <2>1, <2>3 DEF k
  <1> QED
    BY <1>1, <1>2

LEMMA SplitSound ==
    ASSUME Tab!PanesHaveRoom, NEW l, Tab!isTree(l), Cardinality(Leaves(l)) < MaxPanes,
           NEW target, NEW axis \in Axis, NEW spec, NEW new, NEW split
    PROVE  Sound(Tab!splitPane(l, target, axis, spec, new, split))
  BY SplitIsTree, OneMoreIsSound

LEMMA CloseSound ==
    ASSUME Tab!PanesHaveRoom, NEW l, Sound(l), Tab!isTree(l), NEW target
    PROVE  Sound(Tab!closePane(l, target))
  BY ClosedIsTree, EmptyIsSound, FewerAreSound

LEMMA ResizeSound ==
    ASSUME NEW l, Sound(l), Tab!isTree(l), NEW id, NEW ratio \in Int
    PROVE  Sound(Tab!resizeSplit(l, id, ratio))
  BY ResizedIsTree DEF Sound

LEMMA PlaceSound ==
    ASSUME Tab!PanesHaveRoom, NEW l, Sound(l), Cardinality(Leaves(l)) < MaxPanes,
           NEW spec, NEW new, NEW split
    PROVE  Sound(Tab!autoPlace(l, spec, new, split))
  <1>1. CASE DOMAIN l.panes = {}
    BY <1>1, SinglePaneSound DEF Tab!autoPlace
  <1>2. CASE DOMAIN l.panes # {}
    <2>1. Tab!isTree(l)
      BY <1>2 DEF Sound, Tab!emptyLayout
    <2>2. \E target : \E axis \in Axis :
            Tab!autoPlace(l, spec, new, split) = Tab!splitPane(l, target, axis, spec, new, split)
      <3> DEFINE rects == Tab!computeRects(l)
                 area(i) == rects[i].w * rects[i].h
                 first(i) == Tab!firstOf(Tab!PathsOf(l, i))
                 target == CHOOSE i \in DOMAIN rects : \A j \in DOMAIN rects \ {i} :
                             \/ area(i) > area(j)
                             \/ area(i) = area(j) /\ Tab!Before(first(i), first(j))
                 axis == IF rects[target].w * 16 >= rects[target].h * 9
                         THEN "row" ELSE "column"
      <3>1. Tab!autoPlace(l, spec, new, split) = Tab!splitPane(l, target, axis, spec, new, split)
        BY <1>2 DEF Tab!autoPlace
      <3>2. axis \in Axis
        BY DEF Axis
      <3> HIDE DEF target, axis
      <3> QED
        BY <3>1, <3>2
    <2> QED
      BY <2>1, <2>2, SplitSound
  <1> QED
    BY <1>1, <1>2

-----------------------------------------------------------------------------
(* Wherever a layout is kept or on its way, there is none or a layout of    *)
(* this version.                                                            *)
Known(x) == x = None \/ Sound(x)

LayoutInv == /\ \E S : saves \in Seq(Seq(S)) /\ \A x \in S : Sound(x)
             /\ Known(layout) /\ Known(remote) /\ Known(query.data)
             /\ query.flight # None => Known(query.flight.got)
             /\ inst # None => Sound(layout) /\ Known(inst.timer)

LEMMA EnqueuedSound ==
    ASSUME NEW S, NEW cs \in Seq(Seq(S)), cs # <<>>, \A x \in S : Sound(x),
           NEW saved, NEW what, Sound(what)
    PROVE  \E U : Tab!enqueueSave(cs, saved, what) \in Seq(Seq(U)) /\ \A x \in U : Sound(x)
  <1> DEFINE U == S \cup {what}
             more == [cs EXCEPT ![Len(cs)] = Append(@, what)]
  <1>1. cs \in Seq(Seq(U)) /\ what \in U /\ \A x \in U : Sound(x)
    BY Widened
  <1> HIDE DEF U
  <1>2. Append(cs[Len(cs)], what) \in Seq(U) /\ Len(cs) \in 1..Len(cs)
    BY <1>1
  <1>3. more \in Seq(Seq(U))
    BY <1>1, <1>2, ExceptSeq
  <1>4. Tab!enqueueSave(cs, saved, what) = cs \/ Tab!enqueueSave(cs, saved, what) = more
    BY DEF Tab!enqueueSave
  <1> HIDE DEF more
  <1> QED
    BY <1>1, <1>3, <1>4

LEMMA DefaultSound == Tab!PanesHaveRoom => Sound(Tab!defaultLayout)
  BY SinglePaneSound DEF Tab!defaultLayout

LEMMA HydratedSound ==
    ASSUME NEW i, i = [hydrated |-> i.hydrated, initial |-> i.initial,
                       lastSaved |-> i.lastSaved, timer |-> i.timer, sync |-> i.sync],
           NEW q, Known(q.data), NEW l, Sound(l)
    PROVE  /\ Sound(Tab!hydrate(i, q, l).layout)
           /\ Tab!hydrate(i, q, l).inst.timer = i.timer
  <1> DEFINE restored == Tab!deserializeLayout(q.data)
             kept == IF restored = None THEN l ELSE restored
  <1>1. restored # None => Sound(restored)
    BY DEF Tab!deserializeLayout, Known
  <1> HIDE DEF restored
  <1>2. /\ \/ Tab!hydrate(i, q, l).layout = l
           \/ restored # None /\ Tab!hydrate(i, q, l).layout = restored
        /\ \/ Tab!hydrate(i, q, l).inst = i
           \/ Tab!hydrate(i, q, l).inst =
                [i EXCEPT !.hydrated = TRUE, !.sync = "saved", !.lastSaved = kept]
    BY DEF Tab!hydrate, restored
  <1> HIDE DEF kept
  <1>3. [i EXCEPT !.hydrated = TRUE, !.sync = "saved", !.lastSaved = kept].timer = i.timer
    <2> DEFINE a == i.hydrated
               b == i.initial
               c == i.lastSaved
               d == i.timer
               e == i.sync
    <2>1. i = [hydrated |-> a, initial |-> b, lastSaved |-> c, timer |-> d, sync |-> e]
      OBVIOUS
    <2> HIDE DEF a, b, c, d, e
    <2>2. i.timer = d
      BY <2>1
    <2> QED
      BY <2>1, <2>2
  <1> QED
    BY <1>1, <1>2, <1>3

LEMMA OpenKeepsLayouts ==
    ASSUME Tab!PanesHaveRoom, TabInv, LayoutInv, Tab!openComputer
    PROVE  LayoutInv'
  <1> DEFINE l == IF layout = None THEN Tab!defaultLayout ELSE layout
             i == [hydrated |-> FALSE, initial |-> l, lastSaved |-> None,
                   timer |-> None, sync |-> "loading"]
             h == Tab!hydrate(i, query, l)
  <1>1. /\ inst' = h.inst /\ layout' = h.layout /\ saves' = Append(saves, <<>>)
        /\ UNCHANGED <<query, remote>>
    BY DEF Tab!openComputer
  <1>2. Sound(l)
    BY DefaultSound DEF LayoutInv, Known
  <1>3. Known(query.data)
    BY DEF LayoutInv
  <1> HIDE DEF l
  <1>4. /\ i = [hydrated |-> i.hydrated, initial |-> i.initial, lastSaved |-> i.lastSaved,
                timer |-> i.timer, sync |-> i.sync]
        /\ i.timer = None
    OBVIOUS
  <1> HIDE DEF i
  <1>5. Sound(layout') /\ inst'.timer = None
    BY <1>1, <1>2, <1>3, <1>4, HydratedSound
  <1>6. \E S : saves' \in Seq(Seq(S)) /\ \A x \in S : Sound(x)
    <2>1. PICK S : saves \in Seq(Seq(S)) /\ \A x \in S : Sound(x)
      BY DEF LayoutInv
    <2>2. Append(saves, <<>>) \in Seq(Seq(S))
      BY <2>1
    <2> QED
      BY <1>1, <2>1, <2>2
  <1> QED
    BY <1>1, <1>5, <1>6 DEF LayoutInv, Known

LEMMA LeaveKeepsLayouts ==
    ASSUME TabInv, LayoutInv, Tab!goFleet \/ Tab!resetForSession
    PROVE  LayoutInv'
  <1>1. /\ inst # None /\ inst' = None /\ UNCHANGED remote
        /\ saves' = saves \/ saves' = Tab!enqueueSave(saves, inst.lastSaved, layout)
    BY DEF Tab!goFleet, Tab!resetForSession, Tab!unmounted
  <1>2. PICK S : saves \in Seq(Seq(S)) /\ \A x \in S : Sound(x)
    BY DEF LayoutInv
  <1>3. Sound(layout) /\ saves # <<>>
    BY <1>1 DEF LayoutInv, TabInv
  <1>4. \E U : saves' \in Seq(Seq(U)) /\ \A x \in U : Sound(x)
    BY <1>1, <1>2, <1>3, EnqueuedSound
  <1>5. Known(layout')
    BY <1>3 DEF Known, Tab!goFleet, Tab!resetForSession
  <1>6. Known(query'.data) /\ query'.flight = None
    <2>1. CASE Tab!goFleet
      BY <2>1 DEF Tab!goFleet, LayoutInv, TabInv, Asked
    <2>2. CASE Tab!resetForSession
      BY <2>2 DEF Tab!resetForSession, Tab!NoQuery, Known
    <2> QED
      BY <2>1, <2>2
  <1> QED
    BY <1>1, <1>4, <1>5, <1>6 DEF LayoutInv

LEMMA ReloadKeepsLayouts ==
    ASSUME TabInv, LayoutInv, Tab!Reload
    PROVE  LayoutInv'
  <1>1. /\ saves' = <<>> /\ inst' = None /\ layout' = None /\ UNCHANGED remote
        /\ query' = [status |-> "pending", data |-> None, flight |-> None]
    BY DEF Tab!Reload, Tab!NoQuery
  <1>2. saves' \in Seq(Seq({})) /\ \A x \in {} : Sound(x)
    BY <1>1
  <1>3. Known(layout') /\ Known(remote') /\ Known(query'.data) /\ query'.flight = None
    BY <1>1 DEF LayoutInv, Known
  <1> QED
    BY <1>1, <1>2, <1>3 DEF LayoutInv

LEMMA FetchKeepsLayouts ==
    ASSUME TabInv, LayoutInv, Tab!fetchLayout
    PROVE  LayoutInv'
  <1>1. /\ query' = [query EXCEPT !.flight = [got |-> remote]]
        /\ UNCHANGED <<layout, inst, saves, remote>>
    BY DEF Tab!fetchLayout
  <1>2. query'.data = query.data /\ query'.flight = [got |-> remote]
    BY <1>1 DEF TabInv, Asked
  <1>3. query'.flight.got = remote
    BY <1>2
  <1> QED
    BY <1>1, <1>2, <1>3 DEF LayoutInv

LEMMA AnswerKeepsLayouts ==
    ASSUME TabInv, LayoutInv, Tab!Read \/ Tab!ReadFails
    PROVE  LayoutInv'
  <1>1. /\ inst # None /\ UNCHANGED <<saves, remote>>
        /\ inst' = Tab!hydrate(inst, query', layout).inst
        /\ layout' = Tab!hydrate(inst, query', layout).layout
    BY DEF Tab!Read, Tab!ReadFails, Tab!answer
  <1>2. Known(query'.data) /\ query'.flight = None
    <2>1. CASE Tab!Read
      <3>1. /\ query.flight # None
            /\ query' = [status |-> "success", data |-> query.flight.got, flight |-> None]
        BY <2>1 DEF Tab!Read, Tab!answer
      <3>2. Known(query.flight.got)
        BY <3>1 DEF LayoutInv
      <3> QED
        BY <3>1, <3>2
    <2>2. CASE Tab!ReadFails
      BY <2>2 DEF Tab!ReadFails, Tab!answer, LayoutInv, TabInv, Asked
    <2> QED
      BY <2>1, <2>2
  <1>3. /\ inst = Rendered /\ Sound(layout) /\ Known(inst.timer)
    BY <1>1 DEF TabInv, LayoutInv
  <1>4. Sound(layout') /\ inst'.timer = inst.timer
    BY <1>1, <1>2, <1>3, HydratedSound DEF Rendered
  <1> QED
    BY <1>1, <1>2, <1>3, <1>4 DEF LayoutInv, Known

(* Whatever the user does to a layout makes a layout.                       *)
LEMMA EditIsSound ==
    ASSUME Tab!PanesHaveRoom, LayoutInv, Tab!Edit
    PROVE  \E l, n : Sound(l) /\ Tab!set(l, n)
  <1>0. inst # None /\ Sound(layout)
    BY DEF LayoutInv, Tab!Edit, Tab!addPane, Tab!splitFocused, Tab!closeFocused,
           Tab!moveFocus, Tab!pointAt, Tab!resizeFocusedSplit
  <1>1. layout # Tab!emptyLayout => Tab!isTree(layout)
    BY <1>0 DEF Sound
  <1>2. CASE Tab!addPane
    <2>1. PICK spec \in Specs :
            LET there == Tab!findPaneBy(layout, spec)
            IN \/ Tab!set(Tab!focusPane(layout, layout.panes[Tab!firstOf(there)].id), 0)
               \/ /\ Tab!Cardinality(DOMAIN layout.panes) < MaxPanes
                  /\ Tab!set(Tab!autoPlace(layout, spec, minted + 1, minted + 2),
                             IF layout = Tab!emptyLayout THEN 1 ELSE 2)
      BY <1>2 DEF Tab!addPane
    <2>2. Sound(Tab!focusPane(layout, layout.panes[Tab!firstOf(Tab!findPaneBy(layout, spec))].id))
      BY <1>0, FocusSound
    <2>3. Tab!Cardinality(DOMAIN layout.panes) < MaxPanes =>
            Sound(Tab!autoPlace(layout, spec, minted + 1, minted + 2))
      BY <1>0, TabCounts, PlaceSound DEF Leaves
    <2> QED
      BY <2>1, <2>2, <2>3
  <1>3. CASE Tab!splitFocused
    <2>1. PICK spec \in Specs, axis \in {"row", "column"} :
            /\ Tab!Cardinality(DOMAIN layout.panes) < MaxPanes
            /\ \/ Tab!set(Tab!singlePane(spec, minted + 1), 1)
               \/ /\ layout # Tab!emptyLayout
                  /\ Tab!set(Tab!splitPane(layout, layout.focused, axis, spec,
                                           minted + 1, minted + 2), 2)
      BY <1>3 DEF Tab!splitFocused
    <2>2. Sound(Tab!singlePane(spec, minted + 1))
      BY SinglePaneSound
    <2>3. layout # Tab!emptyLayout =>
            Sound(Tab!splitPane(layout, layout.focused, axis, spec, minted + 1, minted + 2))
      <3>1. Cardinality(Leaves(layout)) < MaxPanes /\ axis \in Axis
        BY <2>1, TabCounts DEF Leaves, Axis
      <3> QED
        BY <1>1, <3>1, SplitSound
    <2> QED
      BY <2>1, <2>2, <2>3
  <1>4. CASE Tab!closeFocused
    <2>1. layout # Tab!emptyLayout /\ Tab!set(Tab!closePane(layout, layout.focused), 0)
      BY <1>4 DEF Tab!closeFocused
    <2>2. Sound(Tab!closePane(layout, layout.focused))
      BY <1>0, <1>1, <2>1, CloseSound
    <2> QED
      BY <2>1, <2>2
  <1>5. CASE Tab!moveFocus
    <2>1. PICK dir \in Dirs : layout # Tab!emptyLayout /\ Tab!set(Tab!focusMove(layout, dir), 0)
      BY <1>5 DEF Tab!moveFocus, Dirs
    <2>2. Sound(Tab!focusMove(layout, dir))
      BY <1>0, <1>1, <2>1, MoveSound
    <2> QED
      BY <2>1, <2>2
  <1>6. CASE Tab!pointAt
    <2>1. PICK id : Tab!set(Tab!focusPane(layout, id), 0)
      BY <1>6 DEF Tab!pointAt
    <2>2. Sound(Tab!focusPane(layout, id))
      BY <1>0, FocusSound
    <2> QED
      BY <2>1, <2>2
  <1>7. CASE Tab!resizeFocusedSplit
    <2>1. PICK p \in DOMAIN layout.splits, ratio \in {0, 10, 20} :
            Tab!set(Tab!resizeSplit(layout, layout.splits[p].id, ratio), 0)
      BY <1>7 DEF Tab!resizeFocusedSplit
    <2>2. layout # Tab!emptyLayout /\ ratio \in Int
      BY <2>1 DEF Tab!emptyLayout
    <2>3. Sound(Tab!resizeSplit(layout, layout.splits[p].id, ratio))
      BY <1>0, <1>1, <2>2, ResizeSound
    <2> QED
      BY <2>1, <2>3
  <1> QED
    BY <1>2, <1>3, <1>4, <1>5, <1>6, <1>7 DEF Tab!Edit

LEMMA EditKeepsLayouts ==
    ASSUME Tab!PanesHaveRoom, TabInv, LayoutInv, Tab!Edit
    PROVE  LayoutInv'
  <1>1. PICK l, n : Sound(l) /\ Tab!set(l, n)
    BY EditIsSound
  <1>2. /\ inst # None /\ layout' = l
        /\ inst' = inst \/ inst' = Tab!persist(inst, l)
        /\ UNCHANGED <<query, saves, remote>>
    BY <1>1 DEF Tab!set
  <1>3. inst = Rendered /\ Known(inst.timer)
    BY <1>2 DEF TabInv, LayoutInv
  <1>4. Tab!persist(inst, l).timer \in {inst.timer, None, l}
    BY <1>3 DEF Tab!persist, Rendered
  <1>5. Known(inst'.timer)
    BY <1>1, <1>2, <1>3, <1>4 DEF Known
  <1> QED
    BY <1>1, <1>2, <1>5 DEF LayoutInv, Known

LEMMA TimerKeepsLayouts ==
    ASSUME TabInv, LayoutInv, Tab!SaveTimer \/ Tab!RetrySave
    PROVE  LayoutInv'
  <1>1. inst # None /\ UNCHANGED <<layout, query, remote>>
    BY DEF Tab!SaveTimer, Tab!RetrySave
  <1>2. inst = Rendered /\ saves # <<>> /\ Sound(layout) /\ Known(inst.timer)
    BY <1>1 DEF TabInv, LayoutInv
  <1>3. PICK what : Sound(what) /\ saves' = Tab!enqueueSave(saves, inst.lastSaved, what)
    BY <1>2 DEF Tab!SaveTimer, Tab!RetrySave, Known
  <1>4. inst'.timer \in {inst.timer, None}
    BY <1>2 DEF Tab!SaveTimer, Tab!RetrySave, Rendered
  <1>5. PICK S : saves \in Seq(Seq(S)) /\ \A x \in S : Sound(x)
    BY DEF LayoutInv
  <1>6. \E U : saves' \in Seq(Seq(U)) /\ \A x \in U : Sound(x)
    BY <1>2, <1>3, <1>5, EnqueuedSound
  <1> QED
    BY <1>1, <1>2, <1>4, <1>6 DEF LayoutInv, Known

LEMMA SaveKeepsLayouts ==
    ASSUME TabInv, LayoutInv, NEW k \in DOMAIN saves, NEW taken, NEW answered,
           Tab!saveLayout(k, taken, answered)
    PROVE  LayoutInv'
  <1>1. /\ saves[k] # <<>> /\ saves' = [saves EXCEPT ![k] = Tail(@)]
        /\ remote' \in {remote, Head(saves[k])}
        /\ UNCHANGED <<layout, query>>
        /\ \/ inst' = inst
           \/ inst # None /\ inst' = [inst EXCEPT !.lastSaved = Head(saves[k]), !.sync = "saved"]
           \/ inst # None /\ inst' = [inst EXCEPT !.sync = "error"]
    BY DEF Tab!saveLayout
  <1>2. PICK S : saves \in Seq(Seq(S)) /\ \A x \in S : Sound(x)
    BY DEF LayoutInv
  <1>3. /\ k \in 1..Len(saves) /\ saves[k] \in Seq(S) /\ Head(saves[k]) \in S
        /\ Tail(saves[k]) \in Seq(S)
    BY <1>1, <1>2
  <1>4. saves' \in Seq(Seq(S))
    BY <1>1, <1>2, <1>3, ExceptSeq
  <1>5. Known(remote')
    BY <1>1, <1>2, <1>3 DEF LayoutInv, Known
  <1>6. inst' # None => inst # None /\ inst'.timer = inst.timer
    <2>1. inst # None => inst = Rendered
      BY DEF TabInv
    <2> QED
      BY <1>1, <2>1 DEF Rendered
  <1> QED
    BY <1>1, <1>2, <1>4, <1>5, <1>6 DEF LayoutInv

LEMMA KeepsLayouts ==
    ASSUME Tab!PanesHaveRoom, TabInv, LayoutInv, Tab!Next \/ UNCHANGED tab
    PROVE  LayoutInv' /\ Tab!EndsReachable
  <1>1. LayoutInv'
    <2>1. CASE UNCHANGED tab
      BY <2>1 DEF LayoutInv, tab
    <2>2. CASE Tab!Next
      BY <2>2, OpenKeepsLayouts, LeaveKeepsLayouts, ReloadKeepsLayouts, FetchKeepsLayouts,
         AnswerKeepsLayouts, EditKeepsLayouts, TimerKeepsLayouts, SaveKeepsLayouts
      DEF Tab!Next, Tab!Save
    <2> QED
      BY <2>1, <2>2
  <1>2. SUFFICES ASSUME layout' # None, layout' # Tab!emptyLayout, Tab!distinctIds(layout')
                 PROVE  layout'.focused \in Tab!paneIds(layout') /\ Tab!reachesAll(layout')
    BY <1>1 DEF Tab!EndsReachable
  <1> DEFINE l == layout'
  <1>3. Sound(l) /\ Tab!isTree(l)
    BY <1>1, <1>2 DEF LayoutInv, Known, Sound
  <1> HIDE DEF l
  <1>4. Roomy(l)
    BY <1>2, <1>3, Distinct DEF Sound, Roomy, l
  <1> QED
    BY <1>2, <1>3, <1>4, TreeFacts, AllReached DEF l

(* Whatever edits, reads, remounts and reloads a tab goes through, every    *)
(* layout it shows is a tree whose focused pane is a pane of it; where no   *)
(* two panes have one id, the focus keys reach each pane from each (tree.ts,*)
(* pane-actions.ts); and only an edit of a layout that was read is put over *)
(* the stored one (ui.ts, Workspace.tsx). A split never leaves a pane less  *)
(* than a twentieth of its room, and no other version's layout is stored.   *)
THEOREM LayoutStandsEver ==
    ASSUME Tab!PanesHaveRoom, Tab!StoredAreLayouts
    PROVE  Spec => LayoutStands
  <1> DEFINE J == focus = "workspace" => TabInv /\ LayoutInv
             Step == focus = "workspace" => Tab!EndsReachable /\ Tab!SavesOnlyChanges
  <1>1. Init => J
    <2>1. Tab!Init => TabInv
      <3>1. <<>> \in Seq(Seq({}))
        OBVIOUS
      <3> QED
        BY <3>1 DEF Tab!Init, TabInv, Tab!NoQuery, Visited, Asked
    <2>2. Tab!Init => LayoutInv
      <3>1. <<>> \in Seq(Seq({})) /\ \A x \in {} : Sound(x)
        OBVIOUS
      <3>2. Tab!Init => Known(remote)
        BY SoundIsLayout DEF Tab!Init, Tab!StoredAreLayouts, Known
      <3> SUFFICES ASSUME Tab!Init PROVE LayoutInv
        OBVIOUS
      <3>3. /\ layout = None /\ query = Tab!NoQuery /\ inst = None /\ saves = <<>>
            /\ Known(remote)
        BY <3>2 DEF Tab!Init
      <3> QED
        <4>1. query.data = None /\ query.flight = None
          BY <3>3 DEF Tab!NoQuery
        <4>2. Known(layout) /\ Known(query.data)
          BY <3>3, <4>1 DEF Known
        <4> QED
          BY <3>1, <3>3, <4>1, <4>2 DEF LayoutInv
    <2> QED
      BY <2>1, <2>2 DEF Init
  <1>2. J /\ [Next]_vars => J' /\ [Step]_vars
    BY FocusStays, StepTab, KeepsLayouts
  <1> QED
    BY <1>1, <1>2, PTL DEF Spec, LayoutStands

================================================================================
