------------------------------ MODULE Workspace ------------------------------
(* The pane layout of one computer in one browser tab: the layout store       *)
(* (store/ui.ts), the Workspace component that restores the saved layout and  *)
(* saves changes behind a debounce (components/Workspace.tsx), the query      *)
(* cache behind useLayout, and the layout the Durable Object keeps.           *)
(*                                                                            *)
(* A reload is a new page: the store, the cache and the counter of node ids   *)
(* start again.  Leaving the workspace unmounts the component and keeps them. *)
EXTENDS PaneTree

CONSTANTS
  None,       \* no layout, no component, no request
  Specs,      \* what a pane shows
  Stored,     \* layouts earlier pages may have left, or None
  MaxEdits,   \* bounds: pane actions of the user,
  MaxPanes,   \* panes of a layout,
  MaxFetches, \* reads of the stored layout,
  MaxMounts,  \* openings of the workspace in one page,
  MaxLoads    \* page loads

(* Every pane can be seen: as deep as a layout goes, the shortest edge, of a   *)
(* twentieth at every split, is more than nothing.                            *)
shortest(n) == Unit \div 20^n
PanesHaveRoom ==
  /\ MaxPanes \in Nat \ {0} /\ Unit \in Nat \ {0} /\ shortest(0) = Unit
  /\ \A n \in 1..(MaxPanes - 1) : /\ shortest(n) \in Nat \ {0}
                                  /\ 20 * shortest(n) <= shortest(n - 1)

(* What earlier pages left are layouts of this version. *)
isLayout(l) == /\ l = emptyLayout \/ isTree(l)
               /\ Cardinality(paneIds(l)) <= MaxPanes
StoredAreLayouts == \A l \in Stored \ {None} : isLayout(l)

VARIABLES
  layout,   \* layouts[computer] of the store; None before the first opening
  minted,   \* idCounter of the page
  inst,     \* the mounted component's refs; None in the fleet view
  query,    \* the cached query: its status, its data and its request
  chains,   \* saves queued by each component of the page, oldest first
  remote,   \* the layout the Durable Object keeps
  page,     \* what happened in this page: read, edited
  edits, fetches, loads

vars == <<layout, minted, inst, query, chains, remote, page, edits, fetches, loads>>

(* The seed of a freshly opened computer: a file browser. *)
defaultLayout == singlePane("files", minted + 1)

NoQuery == [status |-> "pending", data |-> None, flight |-> None]

Init == /\ layout = None
        /\ minted = 0
        /\ inst = None
        /\ query = NoQuery
        /\ chains = <<>>
        /\ remote \in Stored
        /\ page = [read |-> FALSE, edited |-> FALSE]
        /\ edits = 0
        /\ fetches = 0
        /\ loads = 1

----------------------------------------------------------------------------
(* The effects of the component *)

(* Append a save unless it is what was saved last. *)
enqueueSave(cs, saved, what) ==
  IF what = saved THEN cs
  ELSE [cs EXCEPT ![Len(cs)] = Append(@, what)]

(* A stored layout that is not a tree of this version, or has no pane, is not *)
(* restored.                                                                  *)
deserializeLayout(data) ==
  IF data # None /\ data # emptyLayout THEN data ELSE None

(* Mutant: a read that failed counts as hydration. *)
hydrateFetched(i, q, l) ==
  LET restored == deserializeLayout(q.data)
      fresh    == q.status # "pending" /\ ~i.hydrated
      wins     == fresh /\ restored # None /\ l = i.initial
  IN [inst   |-> IF fresh
                 THEN [i EXCEPT !.hydrated = TRUE, !.sync = "saved",
                                !.lastSaved = IF restored = None THEN l ELSE restored]
                 ELSE i,
      layout |-> IF wins THEN restored ELSE l]

(* Restore after a successful read: the stored layout replaces the layout the *)
(* component was mounted with, a layout changed since then stays.             *)
hydrate(i, q, l) ==
  LET restored == deserializeLayout(q.data)
      fresh    == q.status = "success" /\ ~i.hydrated
      wins     == fresh /\ restored # None /\ l = i.initial
  IN [inst   |-> IF fresh
                 THEN [i EXCEPT !.hydrated = TRUE, !.sync = "saved",
                                !.lastSaved = IF restored = None THEN l ELSE restored]
                 ELSE i,
      layout |-> IF wins THEN restored ELSE l]

(* A changed layout replaces the pending save; one equal to what was saved    *)
(* last only cancels it.  Before hydration nothing is saved.                  *)
persist(i, l) ==
  IF ~i.hydrated THEN i
  ELSE [i EXCEPT !.timer = IF l = i.lastSaved THEN None ELSE l]

----------------------------------------------------------------------------
(* Opening, leaving and reloading *)

(* The workspace is shown: a new component, whose query answers at once when  *)
(* the cache has data and is read again either way.                           *)
openComputer ==
  LET l  == IF layout = None THEN defaultLayout ELSE layout
      i  == [hydrated |-> FALSE, initial |-> l, lastSaved |-> None,
             timer |-> None, sync |-> "loading"]
      h  == hydrate(i, query, l)
  IN /\ inst = None
     /\ Len(chains) < MaxMounts
     /\ minted' = IF layout = None THEN minted + 1 ELSE minted
     /\ inst' = h.inst
     /\ layout' = h.layout
     /\ chains' = Append(chains, <<>>)
     /\ UNCHANGED <<query, remote, page, edits, fetches, loads>>

(* Unmounting flushes the latest layout into the chain and aborts the read. *)
unmounted ==
  /\ inst # None
  /\ chains' = IF inst.hydrated THEN enqueueSave(chains, inst.lastSaved, layout)
                                ELSE chains
  /\ inst' = None

goFleet == /\ unmounted
           /\ query' = [query EXCEPT !.flight = None]
           /\ UNCHANGED <<layout, minted, remote, page, edits, fetches, loads>>

(* The session ends: every account-scoped layout and the cache are dropped. *)
resetForSession ==
  /\ unmounted
  /\ layout' = None
  /\ query' = NoQuery
  /\ page' = [read |-> FALSE, edited |-> FALSE]
  /\ UNCHANGED <<minted, remote, edits, fetches, loads>>

(* A reload drops the page with the saves it has not sent. *)
Reload == /\ loads < MaxLoads
          /\ layout # None
          /\ layout' = None
          /\ minted' = 0
          /\ inst' = None
          /\ query' = NoQuery
          /\ chains' = <<>>
          /\ page' = [read |-> FALSE, edited |-> FALSE]
          /\ loads' = loads + 1
          /\ UNCHANGED <<remote, edits, fetches>>

----------------------------------------------------------------------------
(* Reading the stored layout *)

(* On mount, on focus of the window, or by the Retry button. *)
fetchLayout == /\ inst # None
               /\ query.flight = None
               /\ fetches < MaxFetches
               /\ query' = [query EXCEPT !.flight = [got |-> remote]]
               /\ fetches' = fetches + 1
               /\ UNCHANGED <<layout, minted, inst, chains, remote, page, edits, loads>>

(* The answer, or the failure once the retry has failed too; data once read   *)
(* stays in the cache.                                                        *)
answer(q) ==
  LET h == hydrate(inst, q, layout)
  IN /\ inst # None
     /\ query.flight # None
     /\ query' = q
     /\ inst' = h.inst
     /\ layout' = h.layout
     /\ UNCHANGED <<minted, chains, remote, edits, fetches, loads>>

Read == /\ query.flight # None
        /\ answer([status |-> "success", data |-> query.flight.got, flight |-> None])
        /\ page' = [page EXCEPT !.read = TRUE]

ReadFails == /\ query.flight # None
             /\ answer([query EXCEPT !.status = "error", !.flight = None])
             /\ UNCHANGED page

----------------------------------------------------------------------------
(* The user's pane actions: the store replaces the layout, and the component  *)
(* is rendered with it.                                                       *)

set(l, n) == /\ inst # None
             /\ edits < MaxEdits
             /\ layout' = l
             /\ minted' = minted + n
             /\ inst' = IF l = layout THEN inst ELSE persist(inst, l)
             /\ page' = [page EXCEPT !.edited = @ \/ l # layout]
             /\ edits' = edits + 1
             /\ UNCHANGED <<query, chains, remote, fetches, loads>>

(* A pane that already shows the thing is focused; otherwise a new one is     *)
(* placed.  openRunTerminal and openRunDiff do the same for a run's pane.     *)
addPane == \E spec \in Specs :
  LET there == findPaneBy(layout, spec)
  IN /\ inst # None
     /\ \/ /\ there # {}
           /\ set(focusPane(layout, layout.panes[firstOf(there)].id), 0)
        \/ /\ there = {}
           /\ Cardinality(DOMAIN layout.panes) < MaxPanes
           /\ set(autoPlace(layout, spec, minted + 1, minted + 2),
                  IF layout = emptyLayout THEN 1 ELSE 2)

splitFocused == \E spec \in Specs, axis \in {"row", "column"} :
  /\ inst # None
  /\ Cardinality(DOMAIN layout.panes) < MaxPanes
  /\ \/ /\ layout = emptyLayout
        /\ set(singlePane(spec, minted + 1), 1)
     \/ /\ layout # emptyLayout
        /\ set(splitPane(layout, layout.focused, axis, spec, minted + 1, minted + 2), 2)

closeFocused == /\ inst # None
                /\ layout # emptyLayout
                /\ set(closePane(layout, layout.focused), 0)

moveFocus == \E dir \in {"left", "right", "up", "down"} :
               /\ inst # None
               /\ layout # emptyLayout
               /\ set(focusMove(layout, dir), 0)

pointAt == /\ inst # None
           /\ \E id \in paneIds(layout) : set(focusPane(layout, id), 0)

(* A divider is dragged; the ratio is counted in twentieths. *)
resizeFocusedSplit ==
  /\ inst # None
  /\ \E p \in DOMAIN layout.splits, ratio \in {0, 10, 20} :
       set(resizeSplit(layout, layout.splits[p].id, ratio), 0)

----------------------------------------------------------------------------
(* Saving *)

(* The debounce runs out. *)
SaveTimer == /\ inst # None
             /\ inst.timer # None
             /\ chains' = enqueueSave(chains, inst.lastSaved, inst.timer)
             /\ inst' = [inst EXCEPT !.timer = None,
                           !.sync = IF inst.timer = inst.lastSaved THEN @ ELSE "saving"]
             /\ UNCHANGED <<layout, minted, query, remote, page, edits, fetches, loads>>

(* The Retry button of a save that failed. *)
RetrySave == /\ inst # None
             /\ inst.sync = "error"
             /\ query.status # "error"
             /\ layout # inst.lastSaved
             /\ chains' = enqueueSave(chains, inst.lastSaved, layout)
             /\ inst' = [inst EXCEPT !.sync = "saving"]
             /\ UNCHANGED <<layout, minted, query, remote, page, edits, fetches, loads>>

(* The chain of a component sends its saves one at a time: the server takes   *)
(* the layout and answers, or the answer or the request is lost.              *)
saveLayout(k, taken, answered) ==
  LET what    == Head(chains[k])
      current == inst # None /\ k = Len(chains)
  IN /\ chains[k] # <<>>
     /\ taken \/ ~answered
     /\ remote' = IF taken THEN what ELSE remote
     /\ chains' = [chains EXCEPT ![k] = Tail(@)]
     /\ inst' = IF ~current THEN inst
                ELSE IF answered
                THEN [inst EXCEPT !.lastSaved = what, !.sync = "saved"]
                ELSE [inst EXCEPT !.sync = "error"]
     /\ UNCHANGED <<layout, minted, query, page, edits, fetches, loads>>

Save == \E k \in DOMAIN chains, taken, answered \in BOOLEAN :
          saveLayout(k, taken, answered)

Edit == addPane \/ splitFocused \/ closeFocused \/ moveFocus \/ pointAt
        \/ resizeFocusedSplit

Next == \/ openComputer \/ goFleet \/ resetForSession \/ Reload
        \/ fetchLayout \/ Read \/ ReadFails
        \/ Edit \/ SaveTimer \/ RetrySave \/ Save

Spec == Init /\ [][Next]_vars

----------------------------------------------------------------------------
(* Properties *)

(* Every pane can be reached from every other with the four focus keys, and   *)
(* the focus is on a pane as long as there is one -- in every layout whose    *)
(* ids are distinct (wm/tree.ts: "directional focus resolves to the           *)
(* geometrically nearest pane"; store/pane-actions.ts: "every action be       *)
(* keyboard-reachable").                                                      *)
distinctIds(l) == Cardinality(paneIds(l)) = Cardinality(DOMAIN l.panes)

stepFrom(l, id) ==
  {focusMove([l EXCEPT !.focused = id], dir).focused :
     dir \in {"left", "right", "up", "down"}}

reachesAll(l) ==
  LET step == [id \in paneIds(l) |-> stepFrom(l, id)]
  IN \A some \in (SUBSET paneIds(l)) \ {{}, paneIds(l)} :
       \E id \in some : step[id] \ some # {}

EndsReachable ==
  layout' \notin {layout, None, emptyLayout} /\ distinctIds(layout') =>
    layout'.focused \in paneIds(layout') /\ reachesAll(layout')
FocusReaches == [][EndsReachable]_vars

(* A save is only queued by a page that has read the stored layout and whose  *)
(* user has changed it: a failed read, an unmount before the read, a restored *)
(* layout or a sign-out never puts the default over the stored one.           *)
SavesOnlyChanges ==
  \A k \in DOMAIN chains \intersect DOMAIN chains' :
    Len(chains'[k]) > Len(chains[k]) => page.read /\ page.edited
NeverClobbers == [][SavesOnlyChanges]_vars

(* What the code says of leaving the workspace: "Navigation/unmount must not  *)
(* cancel the last layout change".  The layout the user changed is the one    *)
(* shown when the workspace is opened again.                                  *)
LastChangeKept ==
  [][inst = None /\ page.edited => layout' \in {layout, None}]_vars
=============================================================================
