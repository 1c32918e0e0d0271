------------------------------- MODULE PaneTree -------------------------------
(* The tiling layout of one workspace: the pure operations of wm/tree.ts.     *)
(*                                                                            *)
(* The binary tree of the code is kept as two functions on paths: `panes`     *)
(* maps the path of every leaf to its pane, `splits` that of every inner node *)
(* to its axis and ratio; a path is the sequence of slots (0 for `a`, 1 for   *)
(* `b`) that leads there from the root.  Ratios are counted in twentieths, so *)
(* that the code's 5% and 95% are 1 and 19, and the unit square is Unit wide. *)
EXTENDS Integers, Sequences, FiniteSets, SequencesExt

CONSTANT Unit   \* 20 to the depth of the deepest tree: every edge is a number

----------------------------------------------------------------------------
(* A layout with no pane, and one with a single pane. *)
emptyLayout == [panes |-> <<>>, splits |-> <<>>, focused |-> "none"]

singlePane(spec, id) ==
  [panes |-> [p \in {<<>>} |-> [id |-> id, spec |-> spec]], splits |-> <<>>,
   focused |-> id]

(* Left-to-right depth-first order of two leaves of a tree. *)
Before(p, q) ==
  \E n \in 1..Len(p) : /\ SubSeq(p, 1, n - 1) = SubSeq(q, 1, n - 1)
                       /\ p[n] < q[n]

firstOf(paths) == CHOOSE p \in paths : \A q \in paths \ {p} : Before(p, q)

PathsOf(l, id) == {p \in DOMAIN l.panes : l.panes[p].id = id}

paneIds(l) == {l.panes[p].id : p \in DOMAIN l.panes}

(* The panes that show a given thing; the first one is the one reused. *)
findPaneBy(l, spec) == {p \in DOMAIN l.panes : l.panes[p].spec = spec}

(* What a layout with a pane is: a binary tree, whose inner nodes have both   *)
(* slots and a share for each, and a focus on one of the panes.               *)
nodes(l) == DOMAIN l.panes \union DOMAIN l.splits

isSplit(s) == /\ s = [id |-> s.id, axis |-> s.axis, ratio |-> s.ratio]
              /\ s.axis \in {"row", "column"} /\ s.ratio \in 1..19

isTree(l) ==
  /\ l = [panes |-> l.panes, splits |-> l.splits, focused |-> l.focused]
  /\ IsFiniteSet(nodes(l)) /\ nodes(l) \subseteq Seq({0, 1}) /\ <<>> \in nodes(l)
  /\ DOMAIN l.panes \intersect DOMAIN l.splits = {}
  /\ \A p \in DOMAIN l.splits : /\ {Append(p, 0), Append(p, 1)} \subseteq nodes(l)
                               /\ isSplit(l.splits[p])
  /\ \A p \in nodes(l) \ {<<>>} : Front(p) \in DOMAIN l.splits
  /\ l.focused \in paneIds(l)

----------------------------------------------------------------------------
(* Operations *)

(* Every leaf that bears the target's id is split: its pane keeps slot `a`,   *)
(* the new pane takes slot `b` and the focus.                                 *)
splitPane(l, target, axis, spec, newId, splitId) ==
  LET at   == PathsOf(l, target)
      kept == DOMAIN l.panes \ at
      a(p) == Append(p, 0)
      b(p) == Append(p, 1)
      new  == [id |-> newId, spec |-> spec]
  IN IF at = {} THEN l ELSE
     [panes   |-> [p \in kept \union {a(q) : q \in at} \union {b(q) : q \in at} |->
                     IF p \in kept THEN l.panes[p]
                     ELSE IF Last(p) = 0 THEN l.panes[Front(p)] ELSE new],
      splits  |-> [p \in DOMAIN l.splits \union at |->
                     IF p \in at THEN [id |-> splitId, axis |-> axis, ratio |-> 10]
                     ELSE l.splits[p]],
      focused |-> newId]

(* The subtree at `from` moves up to `to`; whatever else was below goes. *)
promoted(tree, from, to) ==
  LET below(p) == IsPrefix(from, p)
      put(p)   == to \o SubSeq(p, Len(from) + 1, Len(p))
      stay     == {p \in DOMAIN tree : ~IsPrefix(to, p)}
      moved    == {put(p) : p \in {q \in DOMAIN tree : below(q)}}
  IN [p \in stay \union moved |->
        IF p \in stay THEN tree[p]
        ELSE tree[from \o SubSeq(p, Len(to) + 1, Len(p))]]

(* Mutant: the focus is left where it was. *)
closePaneUnfocused(l, target) ==
  IF PathsOf(l, target) = {} THEN l
  ELSE IF DOMAIN l.splits = {} THEN emptyLayout
  ELSE LET gone == firstOf(PathsOf(l, target))
           up   == Front(gone)
           side == Append(up, 1 - Last(gone))
       IN [l EXCEPT !.panes = promoted(l.panes, side, up),
                    !.splits = promoted(l.splits, side, up)]

(* Close a pane: its sibling takes the parent's slot, and the first pane of   *)
(* the sibling the focus, unless another live pane has it.                    *)
closePane(l, target) ==
  IF PathsOf(l, target) = {} THEN l
  ELSE IF DOMAIN l.splits = {} THEN emptyLayout
  ELSE LET gone  == firstOf(PathsOf(l, target))
           up    == Front(gone)
           side  == Append(up, 1 - Last(gone))
           panes == promoted(l.panes, side, up)
           next  == panes[firstOf({p \in DOMAIN panes : IsPrefix(up, p)})].id
           keeps == /\ l.focused # target
                    /\ \E p \in DOMAIN panes : panes[p].id = l.focused
       IN [panes |-> panes, splits |-> promoted(l.splits, side, up),
           focused |-> IF keeps THEN l.focused ELSE next]

clampRatio(ratio) == IF ratio < 1 THEN 1 ELSE IF ratio > 19 THEN 19 ELSE ratio

(* The outermost splits of the id take the ratio. *)
resizeSplit(l, id, ratio) ==
  LET named(p) == p \in DOMAIN l.splits /\ l.splits[p].id = id
      outer(p) == \A n \in 0..(Len(p) - 1) : ~named(SubSeq(p, 1, n))
  IN [l EXCEPT !.splits =
        [p \in DOMAIN l.splits |->
           IF named(p) /\ outer(p)
           THEN [l.splits[p] EXCEPT !.ratio = clampRatio(ratio)]
           ELSE l.splits[p]]]

focusPane(l, id) == IF id \in paneIds(l) THEN [l EXCEPT !.focused = id] ELSE l

----------------------------------------------------------------------------
(* Geometry *)

half(r, s, slot) ==
  LET aw == (r.w * s.ratio) \div 20
      ah == (r.h * s.ratio) \div 20
  IN CASE s.axis = "row" /\ slot = 0    -> [r EXCEPT !.w = aw]
       [] s.axis = "row" /\ slot = 1    -> [r EXCEPT !.x = r.x + aw, !.w = r.w - aw]
       [] s.axis = "column" /\ slot = 0 -> [r EXCEPT !.h = ah]
       [] OTHER                         -> [r EXCEPT !.y = r.y + ah, !.h = r.h - ah]

rectAt(l, p) ==
  LET r[n \in 0..Len(p)] ==
        IF n = 0 THEN [x |-> 0, y |-> 0, w |-> Unit, h |-> Unit]
        ELSE half(r[n - 1], l.splits[SubSeq(p, 1, n - 1)], p[n])
  IN r[Len(p)]

(* Rectangles by pane id: of two leaves of one id the later one counts. *)
computeRects(l) ==
  [id \in paneIds(l) |->
     rectAt(l, CHOOSE p \in PathsOf(l, id) :
                 \A q \in PathsOf(l, id) \ {p} : Before(q, p))]

spansOverlap(a0, al, b0, bl) == a0 < b0 + bl /\ b0 < a0 + al

perpDistance(a0, al, b0, bl) ==
  LET d == (2 * a0 + al) - (2 * b0 + bl) IN IF d < 0 THEN -d ELSE d

(* How far r is from `from` in a direction, and how far off the axis. *)
ahead(from, r, dir) ==
  CASE dir = "right" -> r.x - (from.x + from.w)
    [] dir = "left"  -> from.x - (r.x + r.w)
    [] dir = "down"  -> r.y - (from.y + from.h)
    [] dir = "up"    -> from.y - (r.y + r.h)

overlap(from, r, dir) ==
  IF dir \in {"left", "right"} THEN spansOverlap(from.y, from.h, r.y, r.h)
                               ELSE spansOverlap(from.x, from.w, r.x, r.w)

aside(from, r, dir) ==
  IF dir \in {"left", "right"} THEN perpDistance(from.y, from.h, r.y, r.h)
                               ELSE perpDistance(from.x, from.w, r.x, r.w)

neighbors(rects, from, dir) ==
  {id \in DOMAIN rects \ {from} :
     /\ ahead(rects[from], rects[id], dir) >= 0
     /\ overlap(rects[from], rects[id], dir)}

(* The nearest neighbor in a direction takes the focus: the least distance    *)
(* ahead, then the least aside, then the first in the tree.                   *)
focusMove(l, dir) ==
  LET rects == computeRects(l)
      from  == rects[l.focused]
      near  == neighbors(rects, l.focused, dir)
      first(id) == firstOf(PathsOf(l, id))
      closer(i, j) ==
        LET ai == ahead(from, rects[i], dir)
            aj == ahead(from, rects[j], dir)
            pi == aside(from, rects[i], dir)
            pj == aside(from, rects[j], dir)
        IN \/ ai < aj
           \/ ai = aj /\ pi < pj
           \/ ai = aj /\ pi = pj /\ Before(first(i), first(j))
  IN IF l.focused \notin DOMAIN rects \/ near = {} THEN l
     ELSE [l EXCEPT !.focused =
             CHOOSE i \in near : \A j \in near \ {i} : closer(i, j)]

(* A new pane splits the pane of the largest area along its longer side. *)
autoPlace(l, spec, newId, splitId) ==
  LET rects == computeRects(l)
      area(id) == rects[id].w * rects[id].h
      first(id) == firstOf(PathsOf(l, id))
      target == CHOOSE i \in DOMAIN rects : \A j \in DOMAIN rects \ {i} :
                  \/ area(i) > area(j)
                  \/ area(i) = area(j) /\ Before(first(i), first(j))
      axis == IF rects[target].w * 16 >= rects[target].h * 9 THEN "row" ELSE "column"
  IN IF DOMAIN l.panes = {} THEN singlePane(spec, newId)
     ELSE splitPane(l, target, axis, spec, newId, splitId)
=============================================================================
