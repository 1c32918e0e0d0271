------------------------------ MODULE MCWorkspace ------------------------------
(* The instance of Workspace TLC checks. *)
EXTENDS Workspace, SavedLayouts

StoredLayouts == {None, Grid}
================================================================================
