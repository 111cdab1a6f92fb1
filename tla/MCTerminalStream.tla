------------------------- MODULE MCTerminalStream -------------------------
(* Instances of TerminalStream for TLC. *)
EXTENDS TerminalStream, TLC

StreamSymmetry == Permutations(Size)

=============================================================================
