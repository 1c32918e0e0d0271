--------------------------- MODULE MCJournalIngest ----------------------------
(* Model checking of JournalIngest: the constants are in the .cfg files.    *)
EXTENDS JournalIngest
===============================================================================
