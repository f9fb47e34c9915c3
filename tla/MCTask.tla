------------------------------- MODULE MCTask -------------------------------
(* Ranges for the instances of Task that TLC checks. *)
EXTENDS Task, TLC

\* Safety does not tell the readers apart.
Symmetry == Permutations(Readers)

Ask(pos, len) == [pos |-> pos, len |-> len]

\* From the start of a piece.
Aligned == {Ask(0, 0), Ask(2 * PIECE, 0)}

\* From the middle of one.
MidPiece == {Ask(0, 0), Ask(2 * PIECE + 1, 0)}
=============================================================================
