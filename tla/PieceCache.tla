----------------------------- MODULE PieceCache -----------------------------
(***************************************************************************)
(* The in-memory piece cache of one task (src/src/ms_mem_storage.c).       *)
(*                                                                         *)
(* A file is cut into blocks of PIECES_PER_BLOCK pieces of PIECE bytes.    *)
(* A block is allocated when its first piece is written and freed when     *)
(* clear_buffer_for() releases its last one.  A piece is known by its      *)
(* index in the file, which stands for the pair (index_for_block,          *)
(* index_for_piece).  The C struct ms_mem_storage is the record            *)
(*     [filesize, estimate_size, completed_size, blocks, pieces]           *)
(* where blocks is the set of block indexes whose pointer is not null and  *)
(* pieces the set of pieces whose buf is not null.                         *)
(*                                                                         *)
(* The module defines what each function of the storage returns, as an     *)
(* operator on such a record.  Module MemStorage drives them as a state    *)
(* machine of their own, module Task as the cache of its downloads.        *)
(***************************************************************************)
EXTENDS Integers, FiniteSets, Sequences

CONSTANTS
    PIECE,             \* MS_PIECE_UNIT_SIZE, bytes in a piece
    PIECES_PER_BLOCK,  \* MS_PIECE_NUM_OF_PER_BLOCK
    MAX_CACHE_LEN,     \* max_cache_len(): bytes kept ahead of a reader
    MAX_CACHE_LEFT,    \* max_cache_left(): bytes kept behind a reader
    HOLD_HEAD_SIZE,    \* hold_head_size(): bytes at the start of the file
    FileSize,          \* the size of the resource at the origin
    MaxRecv            \* bound: bytes handed over by one on_recv()

ASSUME PieceAssumption ==
    PIECE \in Nat \ {0} /\ PIECES_PER_BLOCK \in Nat \ {0}
ASSUME CacheAssumption ==
    MAX_CACHE_LEN \in Nat /\ MAX_CACHE_LEFT \in Nat /\ HOLD_HEAD_SIZE \in Nat
ASSUME FileAssumption == FileSize \in Nat \ {0} /\ MaxRecv \in Nat

BLOCK == PIECE * PIECES_PER_BLOCK

Least(a, b) == IF a < b THEN a ELSE b

-----------------------------------------------------------------------------
(* Positions, pieces and blocks.                                           *)

BlockNum(size) == (size + BLOCK - 1) \div BLOCK

PieceAt(pos) == pos \div PIECE

BlockOf(piece) == piece \div PIECES_PER_BLOCK

\* One past the last piece the array of blocks has room for.
PieceLimit(st) == BlockNum(st.estimate_size) * PIECES_PER_BLOCK

\* piece_len(): the last piece of the file is cut at filesize.
PieceLen(st, piece) ==
    IF (piece + 1) * PIECE > st.filesize
    THEN st.filesize - piece * PIECE
    ELSE PIECE

\* The sum of piece_len() over a set of pieces that start inside the file:
\* all are full but the one that holds the end of the file.
Bytes(st, pieces) ==
    LET end == PieceAt(st.filesize)
    IN  PIECE * Cardinality(pieces)
          - (IF end \in pieces THEN (end + 1) * PIECE - st.filesize ELSE 0)

\* The pieces a file of n bytes is made of.
PiecesOf(n) == { p \in 0..n : p * PIECE < n }

Storages ==
    [filesize : {0, FileSize}, estimate_size : 0..FileSize,
     completed_size : Int, blocks : SUBSET Nat, pieces : SUBSET Nat]

-----------------------------------------------------------------------------
(* Sizes.                                                                  *)

EmptyStorage ==
    [filesize |-> 0, estimate_size |-> 0, completed_size |-> 0,
     blocks |-> {}, pieces |-> {}]

\* Mutant: the array of blocks is not grown.
FilesizeOnly(st, filesize) == [st EXCEPT !.filesize = filesize]

\* set_filesize(): realloc_blocks() adds null pointers only.
SetFilesize(st, filesize) ==
    [st EXCEPT !.filesize = filesize, !.estimate_size = filesize]

\* set_content_size(): the estimate grows until the real size is known.
SetContentSize(st, from, size) ==
    IF st.filesize > 0 \/ from + size <= st.estimate_size
    THEN st
    ELSE [st EXCEPT !.estimate_size = from + size]

-----------------------------------------------------------------------------
(* clear_buffer_for().                                                     *)

HoldSize(n) == HOLD_HEAD_SIZE + (MAX_CACHE_LEFT + MAX_CACHE_LEN) * n

HoldFrom(pos) == IF pos < MAX_CACHE_LEFT THEN 0 ELSE pos - MAX_CACHE_LEFT

HoldEnd(pos) == pos + MAX_CACHE_LEN

HeldBy(pos, piece) ==
    /\ HoldFrom(pos) <= piece * PIECE
    /\ (piece + 1) * PIECE <= HoldEnd(pos)

ShouldHoldPiece(piece, hold_pos) ==
    \E i \in 1..Len(hold_pos) : HeldBy(hold_pos[i], piece)

ShouldHoldBlock(block, hold_pos) ==
    \E i \in 1..Len(hold_pos) :
        /\ HoldFrom(hold_pos[i]) <= block * BLOCK
        /\ (block + 1) * BLOCK <= HoldEnd(hold_pos[i])

\* The blocks the loop looks into, when it is not stopped earlier.
Visited(st, hold_pos) ==
    { b \in st.blocks : /\ b >= HOLD_HEAD_SIZE \div BLOCK
                        /\ ~ShouldHoldBlock(b, hold_pos) }

Releasable(st, hold_pos) ==
    { p \in st.pieces : /\ BlockOf(p) \in Visited(st, hold_pos)
                        /\ ~ShouldHoldPiece(p, hold_pos) }

\* What is released once the block b has been gone through.
ReleasedUpTo(st, hold_pos, b) ==
    { p \in Releasable(st, hold_pos) : BlockOf(p) <= b }

\* Mutants: the loop does not stop once it has made room; it stops after the
\* first block, whatever that gave.
ReleasedToTheEnd(st, len, hold_pos) == Releasable(st, hold_pos)

ReleasedFromFirstBlock(st, len, hold_pos) ==
    { p \in Releasable(st, hold_pos) :
        \A b \in Visited(st, hold_pos) : b >= BlockOf(p) }

\* The loop returns after the first visited block at which at least len
\* bytes have been released.
Released(st, len, hold_pos) ==
    { p \in Releasable(st, hold_pos) :
        \A b \in Visited(st, hold_pos) :
            b < BlockOf(p) => Bytes(st, ReleasedUpTo(st, hold_pos, b)) < len }

\* Mutants: a whole piece is taken off for each one released; blocks without
\* pieces are kept.
ClearFullPieces(st, len, hold_pos) ==
    IF st.completed_size + len <= HoldSize(Len(hold_pos))
    THEN st
    ELSE LET gone == Released(st, len, hold_pos)
             left == st.pieces \ gone
         IN  [st EXCEPT !.pieces = left,
                        !.blocks = { BlockOf(p) : p \in left },
                        !.completed_size = @ - PIECE * Cardinality(gone)]

ClearPiecesOnly(st, len, hold_pos) ==
    IF st.completed_size + len <= HoldSize(Len(hold_pos))
    THEN st
    ELSE LET gone == Released(st, len, hold_pos)
         IN  [st EXCEPT !.pieces = @ \ gone, !.completed_size = @ - Bytes(st, gone)]

ClearBufferFor(st, len, hold_pos) ==
    IF st.completed_size + len <= HoldSize(Len(hold_pos))
    THEN st
    ELSE LET gone == Released(st, len, hold_pos)
             left == st.pieces \ gone
         IN  [st EXCEPT
                !.pieces = left,
                !.blocks = { b \in @ : \/ \E p \in left : BlockOf(p) = b
                                       \/ ~\E p \in gone : BlockOf(p) = b },
                !.completed_size = @ - Bytes(st, gone)]

-----------------------------------------------------------------------------
(* storage_write(), storage_read() and cached_from().                      *)

\* What the asserts at the top of storage_write() allow.
Writes ==
    { w \in [pos : 0..FileSize, len : 0..MaxRecv] :
        /\ w.pos % PIECE = 0
        /\ w.pos + w.len <= FileSize
        /\ w.pos + w.len = FileSize \/ w.len % PIECE = 0 }

\* The write stops at the end of the array of blocks.
WriteLen(st, pos, len) == Least(len, PieceLimit(st) * PIECE - pos)

WrittenPieces(st, pos, len) ==
    { p \in 0..PieceLimit(st) :
        pos <= p * PIECE /\ p * PIECE < pos + WriteLen(st, pos, len) }

\* completed_size counts, for each piece that had no buffer, the bytes
\* copied into it.
Write(st, pos, len) ==
    LET end   == pos + WriteLen(st, pos, len)
        fresh == WrittenPieces(st, pos, len) \ st.pieces
        short == { p \in fresh : (p + 1) * PIECE > end }
    IN  [st EXCEPT
           !.pieces = @ \cup fresh,
           !.blocks = @ \cup { BlockOf(p) : p \in WrittenPieces(st, pos, len) },
           !.completed_size = @ + PIECE * Cardinality(fresh)
              - (IF short = {} THEN 0 ELSE (PieceAt(end) + 1) * PIECE - end)]

\* The pieces from the one at pos on that are in no buffer.
MissingFrom(st, pos) == (PieceAt(pos)..PieceLimit(st)) \ st.pieces

\* storage_read(): the bytes copied before the first missing piece.
ReadLen(st, pos, len) ==
    IF st.estimate_size = 0 THEN 0
    ELSE LET gap == CHOOSE g \in MissingFrom(st, pos) :
                        \A h \in MissingFrom(st, pos) : g <= h
         IN  IF gap = PieceAt(pos) THEN 0 ELSE Least(len, gap * PIECE - pos)

\* Mutant: the run is announced from the start of its first piece.
CachedFromPiece(st, from) ==
    LET found == { p \in st.pieces : p >= PieceAt(from) }
        first == CHOOSE p \in found : \A q \in found : p <= q
        pos   == first * PIECE
        gap   == CHOOSE g \in MissingFrom(st, pos) :
                    \A h \in MissingFrom(st, pos) : g <= h
    IN  IF st.estimate_size = 0 THEN [pos |-> from, len |-> -1]
        ELSE IF found = {} THEN [pos |-> 0, len |-> 0]
        ELSE [pos |-> pos, len |-> Least(gap * PIECE, st.estimate_size) - pos]

\* cached_from(): the first run of cached bytes at or after from.
CachedFrom(st, from) ==
    LET found == { p \in st.pieces : p >= PieceAt(from) }
        first == CHOOSE p \in found : \A q \in found : p <= q
        pos   == IF first * PIECE < from THEN from ELSE first * PIECE
        gap   == CHOOSE g \in MissingFrom(st, pos) :
                    \A h \in MissingFrom(st, pos) : g <= h
    IN  IF st.estimate_size = 0 THEN [pos |-> from, len |-> -1]
        ELSE IF found = {} THEN [pos |-> 0, len |-> 0]
        ELSE [pos |-> pos,
              len |-> Least(gap * PIECE, st.estimate_size) - pos]
=============================================================================
