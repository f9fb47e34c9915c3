----------------------------- MODULE MCSession -----------------------------
(* Ranges for the instances of Session that TLC checks. *)
EXTENDS Session

Ask(pos, len) == [pos |-> pos, len |-> len]

\* To the end of the file, explicitly to its last byte, and ranges that fit
\* in a buffer beside the head.
WholeAndShort ==
    {Ask(0, 0), Ask(3, 0), Ask(1, LIMIT - HEADER), Ask(FileSize - 5, 5)}

\* A range that ends before the file does and fills the buffer.
Inner == {Ask(1, LIMIT)}

ToTheEnd == {Ask(0, 0)}
=============================================================================
