-------------------------- MODULE MemStorageProofs --------------------------
(***************************************************************************)
(* Proofs about the storage, for every size of piece, block, cache and     *)
(* file, every set of positions and every number of readers.               *)
(***************************************************************************)
EXTENDS MemStorage, PieceCacheProofs

-----------------------------------------------------------------------------
(* The inductive invariant.                                                *)

\* completed_size is only exact because no piece is buffered before the
\* size of the file is known, and the freeing of blocks is only right
\* because blocks and pieces agreed before: both are conjuncts of Sound.
\* The write room was made for keeps to the asserts of storage_write().
IInv ==
    /\ Sound(st)
    /\ pending \in Writes \cup {NoWrite}
    /\ pending # NoWrite => st.filesize > 0

\* It is the conjunction of three of the invariants of MemStorage.
LEMMA IInvIs == IInv <=> TypeOK /\ CompletedSizeIsExact /\ BlocksFollowPieces
  BY DEF IInv, TypeOK, CompletedSizeIsExact, BlocksFollowPieces, Sound

\* ms_mem_storage_open() establishes the invariant: nothing is buffered.
LEMMA InitIInv == Init => IInv
  BY EmptySound DEF Init, IInv

\* Every function of the storage, and every stutter, keeps the invariant.
LEMMA NextIInv == IInv /\ [Next]_vars => IInv'
  <1> SUFFICES ASSUME IInv, [Next]_vars PROVE IInv'
    OBVIOUS
  <1>0. /\ Sound(st) /\ st \in Storages
        /\ pending \in Writes \cup {NoWrite}
        /\ pending # NoWrite => st.filesize > 0
    BY DEF IInv, Sound
  <1>1. CASE GotFilesize
    <2>1. Sound(st)' /\ pending' = NoWrite
      BY <1>0, <1>1, SetFilesizeSound DEF GotFilesize
    <2> QED
      BY <2>1 DEF IInv, NoWrite
  <1>2. ASSUME NEW from \in 0..FileSize, NEW size \in 0..FileSize,
               GotContentSize(from, size)
        PROVE  IInv'
    <2>1. pending' = NoWrite /\ from + size \in 0..FileSize
      BY <1>2, FileAssumption DEF GotContentSize
    <2>2. CASE st' = st
      BY <1>0, <2>1, <2>2 DEF IInv
    <2>3. CASE ~(st.filesize > 0) /\ st' = [st EXCEPT !.estimate_size = from + size]
      <3>1. /\ st'.pieces = st.pieces /\ st'.blocks = st.blocks
            /\ st'.completed_size = st.completed_size /\ st'.filesize = st.filesize
            /\ st' \in Storages
        BY <1>0, <2>1, <2>3 DEF Storages
      <3>2. Bytes(st, st.pieces)' = Bytes(st, st.pieces)
        BY <3>1 DEF Bytes
      <3>3. Sound(st)'
        BY <1>0, <2>3, <3>1, <3>2 DEF Sound
      <3> QED
        BY <2>1, <3>3 DEF IInv
    <2> QED
      BY <1>2, <2>2, <2>3 DEF GotContentSize, SetContentSize
  <1>3. ASSUME NEW w \in Writes, NEW hold_pos \in HoldPos, MakeRoom(w, hold_pos)
        PROVE  IInv'
    <2>1. /\ pending' = w /\ st.filesize > 0
          /\ st' = ClearBufferFor(st, w.len, hold_pos)
      BY <1>3 DEF MakeRoom
    <2>2. Sound(st)' /\ st'.filesize > 0
      BY <1>0, <2>1, ClearSound
    <2> QED
      BY <2>1, <2>2 DEF IInv
  <1>4. CASE StoreData
    <2>1. /\ pending \in Writes /\ pending' = NoWrite /\ st.filesize > 0
          /\ st' = Write(st, pending.pos, pending.len)
      BY <1>0, <1>4 DEF StoreData
    <2>2. Sound(st)'
      BY <1>0, <2>1, WriteSound
    <2> QED
      BY <2>1, <2>2 DEF IInv
  <1>5. CASE Reopen
    BY <1>5, EmptySound DEF Reopen, IInv
  <1>6. CASE UNCHANGED vars
    BY <1>0, <1>6 DEF vars, IInv
  <1> QED
    BY <1>1, <1>2, <1>3, <1>4, <1>5, <1>6 DEF Next

\* The storage is well typed, counts its bytes exactly and has a block
\* allocated exactly while it has a buffered piece of that block.
THEOREM StorageInvariant ==
    Spec => [](TypeOK /\ CompletedSizeIsExact /\ BlocksFollowPieces)
  BY InitIInv, NextIInv, IInvIs, PTL DEF Spec

-----------------------------------------------------------------------------
(* The bound on the cache.                                                 *)

\* A position list has one position per reader.
LEMMA HoldPosLen ==
    ASSUME NEW hold_pos \in HoldPos
    PROVE  /\ Len(hold_pos) \in 0..MaxReaders
           /\ hold_pos \in [1..Len(hold_pos) -> Nat]
  <1>1. PICK n \in 0..MaxReaders : hold_pos \in [1..n -> Positions]
    BY DEF HoldPos
  <1>2. hold_pos \in Seq(Positions) /\ Len(hold_pos) = n
    BY <1>1, EnvAssumption
  <1> QED
    BY <1>1, <1>2, EnvAssumption

\* clear_buffer_for() keeps the bound: it frees at least the bytes that will
\* be written, or all but the head and the windows of the readers.
LEMMA MakeRoomBound ==
    ASSUME IInv, CacheIsBounded,
           NEW w \in Writes, NEW hold_pos \in HoldPos, MakeRoom(w, hold_pos)
    PROVE  CacheIsBounded'
  <1>1. /\ Len(hold_pos) <= MaxReaders /\ hold_pos \in Seq(Nat)
        /\ w.len \in 0..MaxRecv /\ MaxReaders \in Nat
    BY HoldPosLen, EnvAssumption DEF Writes
  <1>2. /\ pending' = w /\ pending.len = 0
        /\ st' = ClearBufferFor(st, w.len, hold_pos)
        /\ Sound(st) /\ st.completed_size \in Int
    BY DEF IInv, MakeRoom, NoWrite, Sound, Storages
  <1>3. st.completed_size <= HoldSize(MaxReaders) + MaxRecv
    BY <1>2 DEF CacheIsBounded
  <1> QED
    BY <1>1, <1>2, <1>3, ClearBound DEF CacheIsBounded

\* storage_write() keeps the bound: it adds no more than room was made for.
LEMMA StoreDataBound ==
    ASSUME IInv, CacheIsBounded, StoreData
    PROVE  CacheIsBounded'
  <1>1. /\ pending \in Writes /\ pending'.len = 0 /\ Sound(st)
        /\ st.filesize > 0 /\ st.completed_size \in Int /\ pending.len \in Nat
        /\ st' = Write(st, pending.pos, pending.len)
    BY FileAssumption DEF IInv, StoreData, NoWrite, Sound, Storages, Writes
  <1>2. st'.completed_size \in Int /\ st'.completed_size <= st.completed_size + pending.len
    BY <1>1, WriteBound
  <1>3. HoldSize(MaxReaders) + MaxRecv \in Nat
    BY EnvAssumption, FileAssumption, HoldSizeMonotone
  <1> QED
    BY <1>1, <1>2, <1>3 DEF CacheIsBounded

\* Every function of the storage, and every stutter, keeps the bound.
LEMMA NextBound == IInv /\ CacheIsBounded /\ [Next]_vars => CacheIsBounded'
  <1> SUFFICES ASSUME IInv, CacheIsBounded, [Next]_vars PROVE CacheIsBounded'
    OBVIOUS
  <1>1. CASE GotFilesize
    BY <1>1 DEF GotFilesize, SetFilesize, CacheIsBounded, IInv, Sound, Storages
  <1>2. CASE \E from, size \in 0..FileSize : GotContentSize(from, size)
    BY <1>2 DEF GotContentSize, SetContentSize, CacheIsBounded, IInv, Sound, Storages
  <1>3. CASE \E w \in Writes, hold_pos \in HoldPos : MakeRoom(w, hold_pos)
    BY <1>3, MakeRoomBound
  <1>4. CASE StoreData
    BY <1>4, StoreDataBound
  <1>5. CASE Reopen
    <2>1. HoldSize(MaxReaders) + MaxRecv \in Nat
      BY EnvAssumption, FileAssumption, HoldSizeMonotone
    <2> QED
      BY <1>5, <2>1 DEF Reopen, EmptyStorage, NoWrite, CacheIsBounded
  <1>6. CASE UNCHANGED vars
    BY <1>6 DEF vars, CacheIsBounded
  <1> QED
    BY <1>1, <1>2, <1>3, <1>4, <1>5, <1>6 DEF Next

\* Whatever the order of downloads and the number of readers up to
\* MaxReaders, the cache never outgrows hold_size() by more than one
\* delivery.
THEOREM CacheBound == Spec => []CacheIsBounded
  <1>1. Init => CacheIsBounded
    <2>1. HoldSize(MaxReaders) + MaxRecv \in Nat
      BY EnvAssumption, FileAssumption, HoldSizeMonotone
    <2> QED
      BY <2>1 DEF Init, EmptyStorage, NoWrite, CacheIsBounded
  <1> QED
    BY <1>1, InitIInv, NextIInv, NextBound, PTL DEF Spec

-----------------------------------------------------------------------------
(* What is evicted.                                                        *)

\* Making room for a delivery drops at most one block of data more than the
\* delivery is long, whatever is cached and whoever reads.
THEOREM EvictsLittle == Spec => EvictsNoMoreThanNeeded
  <1> DEFINE A == pending = NoWrite /\ pending' # NoWrite =>
                    st.completed_size - st'.completed_size <= pending'.len + BLOCK
  <1>1. IInv /\ [Next]_vars => A
    <2> SUFFICES ASSUME IInv, [Next]_vars, pending = NoWrite, pending' # NoWrite
                 PROVE  st.completed_size - st'.completed_size <= pending'.len + BLOCK
      OBVIOUS
    <2>1. PICK w \in Writes, hold_pos \in HoldPos : MakeRoom(w, hold_pos)
      BY DEF Next, vars, GotFilesize, GotContentSize, StoreData, Reopen
    <2>2. /\ pending' = w /\ w.len \in Nat /\ BLOCK \in Nat
          /\ st' = ClearBufferFor(st, w.len, hold_pos)
          /\ st \in Storages /\ st.pieces \subseteq PiecesOf(st.filesize)
          /\ st.completed_size \in Int
      BY <2>1, PieceAssumption DEF MakeRoom, Writes, IInv, Sound, Storages, BLOCK
    <2>3. CASE st' = st
      BY <2>2, <2>3
    <2>4. CASE st'.completed_size
                = st.completed_size - Bytes(st, Released(st, w.len, hold_pos))
      <3> DEFINE n == Bytes(st, Released(st, w.len, hold_pos))
      <3>1. n <= w.len + BLOCK
        BY <2>2, OneBlockMore
      <3>2. n \in Int
        BY <2>2, FileAssumption, ReleasedIsBuffered, BytesType DEF Storages
      <3> HIDE DEF n
      <3> QED
        BY <2>2, <2>4, <3>1, <3>2 DEF n
    <2> QED
      BY <2>2, <2>3, <2>4 DEF ClearBufferFor, Storages
  <1>2. IInv /\ [Next]_vars => [A]_vars
    BY <1>1
  <1> HIDE DEF A
  <1>3. Spec => [][A]_vars
    BY <1>2, InitIInv, NextIInv, PTL DEF Spec
  <1> QED
    BY <1>3 DEF EvictsNoMoreThanNeeded, A

\* The storage is well typed: no piece is buffered before the size of the
\* file is known, and none beyond it.
THEOREM StorageTypeOK == Spec => []TypeOK
  BY StorageInvariant, PTL

\* No block is leaked empty and none is freed under a piece.
THEOREM BlocksAlwaysFollow == Spec => []BlocksFollowPieces
  BY StorageInvariant, PTL

-----------------------------------------------------------------------------
(* What is read.                                                           *)

\* What cached_from() tells the task is cached is what storage_read() hands
\* out, from every position and for every length.
THEOREM ReadsAsAnnounced == Spec => []ReadsWhatIsAnnounced
  <1>1. IInv => ReadsWhatIsAnnounced
    <2> SUFFICES ASSUME IInv, st.filesize > 0 PROVE ReadsWhatIsAnnounced
      BY DEF ReadsWhatIsAnnounced
    <2>1. Known(st)
      BY FileAssumption DEF IInv, Sound, Storages, Known
    <2>2. st.filesize = FileSize
      BY <2>1 DEF Known
    <2> QED
      BY <2>1, ReadsAgree DEF ReadsWhatIsAnnounced
  <1> QED
    BY <1>1, InitIInv, NextIInv, PTL DEF Spec
=============================================================================
