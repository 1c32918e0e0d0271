----------------------------- MODULE SavedLayouts -----------------------------
(* The instance of a layout an earlier page saved: four panes in a grid. *)
EXTENDS TLC

Pane(id, spec) == [id |-> id, spec |-> spec]
Split(id, axis) == [id |-> id, axis |-> axis, ratio |-> 10]
Grid == [panes |-> (<<0, 0>> :> Pane(1, "files") @@ <<0, 1>> :> Pane(4, "runs")
                    @@ <<1, 0>> :> Pane(2, "runs") @@ <<1, 1>> :> Pane(6, "files")),
         splits |-> (<<>> :> Split(3, "row") @@ <<0>> :> Split(5, "column")
                     @@ <<1>> :> Split(7, "column")),
         focused |-> 4]
================================================================================
