------------------------- MODULE MCDocumentJournal -------------------------
(* Instances of DocumentJournal for TLC: the cfg files give the constants. *)
EXTENDS DocumentJournal

=============================================================================
