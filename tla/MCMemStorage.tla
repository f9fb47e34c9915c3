---------------------------- MODULE MCMemStorage ----------------------------
(* Bounds for model-checking MemStorage: pieces of 2 bytes, blocks of 2     *)
(* pieces, a file of 9 pieces and a half.                                    *)
EXTENDS MemStorage, FiniteSetsExt

\* The closed form Bytes is the sum of piece_len() over the pieces, of any
\* set of pieces that start inside a file of any size.
ASSUME BytesIsTheSum ==
    \A size \in 1..FileSize :
        LET of == [filesize |-> size]
        IN  \A pieces \in SUBSET {p \in 0..PieceAt(size) : p * PIECE < size} :
                Bytes(of, pieces) = MapThenSumSet(LAMBDA p : PieceLen(of, p), pieces)
=============================================================================
