---------------------------- MODULE SharedOrder ----------------------------
(***************************************************************************)
(* What a live document promises to the people who have it open: there is  *)
(* one order of changes, it only grows at its end, and what a view was     *)
(* given is always a beginning of that order that only gets longer.  Views *)
(* may be away, jump ahead and be behind for any time, but they never see  *)
(* two orders, miss a change in between, or go back.                       *)
(***************************************************************************)
EXTENDS Integers, Sequences

CONSTANT Views

VARIABLES order,   \* every change of the document, oldest first
          seen     \* seen[v]: the changes that view v was given

vars == <<order, seen>>

Init == order = <<>> /\ seen = [v \in Views |-> <<>>]

(* One change gets its place at the end of the order. *)
Add == /\ Len(order') = Len(order) + 1
       /\ SubSeq(order', 1, Len(order)) = order
       /\ UNCHANGED seen

(* A view is given one or more of the changes that come next for it. *)
Show(v) == \E n \in Len(seen[v]) + 1 .. Len(order) :
             /\ seen' = [seen EXCEPT ![v] = SubSeq(order, 1, n)]
             /\ UNCHANGED order

Next == Add \/ \E v \in Views : Show(v)

Spec == Init /\ [][Next]_vars

(* View v catches up with the document again and again. *)
Reaches(v) == []<>(seen[v] = order)
=============================================================================
