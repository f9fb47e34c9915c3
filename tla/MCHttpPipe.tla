----------------------------- MODULE MCHttpPipe -----------------------------
(* Ranges for the instances of HttpPipe that TLC checks. *)
EXTENDS HttpPipe

Ask(pos, len) == [pos |-> pos, len |-> len]

\* What dispatch_reader() asks for when its readers stand at piece starts:
\* all of a file of unknown size, a window, the rest, the last piece.
AtPieces ==
    {Ask(0, 0), Ask(PIECE, 0), Ask(0, 2 * PIECE), Ask(PIECE, FileSize - PIECE),
     Ask(FileSize - (FileSize % PIECE), FileSize % PIECE)}

\* The window of a reader that stands inside its first piece.
InsidePiece == {Ask(0, 2 * PIECE + 1)}
=============================================================================
