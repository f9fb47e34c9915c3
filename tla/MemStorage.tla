----------------------------- MODULE MemStorage -----------------------------
(***************************************************************************)
(* The in-memory storage as a state machine: the functions of module       *)
(* PieceCache called in the orders src/src/ms_task.c may call them.  Its   *)
(* on_recv() makes room with clear_buffer_for() and then writes, so a      *)
(* write always follows the clearing made for it.                          *)
(***************************************************************************)
EXTENDS PieceCache

CONSTANTS
    Positions,    \* the positions readers may hold
    MaxReaders    \* bound: readers one task has at a time

ASSUME EnvAssumption == MaxReaders \in Nat /\ Positions \subseteq Nat

VARIABLES
    st,       \* the struct ms_mem_storage
    pending   \* the write that room was last made for, or NoWrite

vars == <<st, pending>>

NoWrite == [pos |-> -1, len |-> 0]

HoldPos == UNION { [1..n -> Positions] : n \in 0..MaxReaders }

-----------------------------------------------------------------------------

Init == st = EmptyStorage /\ pending = NoWrite

\* on_filesize(), and on_content_size() of a request without an end: every
\* response gives the same size.
GotFilesize ==
    /\ pending = NoWrite
    /\ st' = SetFilesize(st, FileSize)
    /\ UNCHANGED pending

GotContentSize(from, size) ==
    /\ pending = NoWrite
    /\ from + size <= FileSize
    /\ st' = SetContentSize(st, from, size)
    /\ UNCHANGED pending

\* A pipe hands over data only after it has reported the size of the file.
MakeRoom(w, hold_pos) ==
    /\ pending = NoWrite
    /\ st.filesize > 0
    /\ st' = ClearBufferFor(st, w.len, hold_pos)
    /\ pending' = w

StoreData ==
    /\ pending # NoWrite
    /\ st' = Write(st, pending.pos, pending.len)
    /\ pending' = NoWrite

\* storage_close(), and ms_mem_storage_open() for the task that follows.
Reopen ==
    /\ pending = NoWrite
    /\ st' = EmptyStorage
    /\ UNCHANGED pending

Next ==
    \/ GotFilesize
    \/ \E from, size \in 0..FileSize : GotContentSize(from, size)
    \/ \E w \in Writes, hold_pos \in HoldPos : MakeRoom(w, hold_pos)
    \/ StoreData
    \/ Reopen

Spec == Init /\ [][Next]_vars

-----------------------------------------------------------------------------

\* Every field of the storage and of the pending write has its type; only
\* pieces of the file are buffered, and none before its size is known.
TypeOK ==
    /\ st \in Storages
    /\ st.filesize > 0 => st.estimate_size = st.filesize
    /\ st.pieces \subseteq PiecesOf(st.filesize)
    /\ pending \in Writes \cup {NoWrite}
    /\ pending # NoWrite => st.filesize > 0

\* completed_size is the number of bytes the buffered pieces hold: what a
\* write adds for a piece is what clear_buffer_for() takes away for it, for
\* the cut piece at the end of the file too.
CompletedSizeIsExact == st.completed_size = Bytes(st, st.pieces)

\* A block is allocated exactly while one of its pieces has a buffer: none
\* is leaked empty, none is freed under a piece.
BlocksFollowPieces == st.blocks = { BlockOf(p) : p \in st.pieces }

\* The cache is bounded: data of any number of downloads never takes more
\* than the head and the windows clear_buffer_for() keeps for the largest
\* number of readers, and one delivery more.
CacheIsBounded == st.completed_size + pending.len <= HoldSize(MaxReaders) + MaxRecv

\* Making room evicts front to back and stops in time: beyond the bytes
\* asked for it drops at most one more block of useful data.
EvictsNoMoreThanNeeded ==
    [][ pending = NoWrite /\ pending' # NoWrite =>
          st.completed_size - st'.completed_size <= pending'.len + BLOCK ]_vars

\* Reading and cached_from() agree: from a cached position a read of any
\* length returns what cached_from() announced, cut at that length, and the
\* run it announces is followed by a hole or by the end of the file.
ReadsWhatIsAnnounced ==
    st.filesize > 0 =>
      \A from \in 0..FileSize - 1 :
        LET c == CachedFrom(st, from)
        IN  IF c.len > 0 /\ c.pos = from
            THEN /\ \A len \in 0..FileSize - from :
                       ReadLen(st, from, len) = Least(len, c.len)
                 /\ c.pos + c.len < FileSize
                       => ReadLen(st, c.pos + c.len, 1) = 0
            ELSE /\ ReadLen(st, from, FileSize - from) = 0
                 /\ \A p \in st.pieces :
                       p * PIECE >= from => c.len > 0 /\ c.pos <= p * PIECE
=============================================================================
