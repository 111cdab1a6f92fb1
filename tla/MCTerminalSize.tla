--------------------------- MODULE MCTerminalSize ---------------------------
(* Instances of TerminalSize for TLC. *)
EXTENDS TerminalSize, TLC

\* Views of this computer are alike.
ViewSymmetry == Permutations(View)

=============================================================================
