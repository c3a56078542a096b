------------------------- MODULE MCNotePublication -------------------------
(* Values for TLC: one request after the other from the tab, and beside it *)
(* one after the other from everybody else.                                *)
EXTENDS NotePublication

CONSTANTS r1, r2

TabAndOthers == [r \in Requests |-> IF r = r1 THEN {"autoPublish"}
                                   ELSE {"publish", "delete", "restore", "purge", "revert"}]
=============================================================================
