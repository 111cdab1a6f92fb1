-------------------------- MODULE MCDocumentSync --------------------------
EXTENDS DocumentSync

CONSTANTS ana, ben

(* Two views with one event; one view with two, which can touch its edits; *)
(* and two views on links that hold, where changes touch the other's edits. *)
MCBudgets == {[clients |-> {ana, ben}, edits |-> 2, events |-> 1, touches |-> 0],
              [clients |-> {ana}, edits |-> 2, events |-> 2, touches |-> 1],
              [clients |-> {ana, ben}, edits |-> 2, events |-> 0, touches |-> 2]}
=============================================================================
