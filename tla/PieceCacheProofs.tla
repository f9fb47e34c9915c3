-------------------------- MODULE PieceCacheProofs --------------------------
(***************************************************************************)
(* Lemmas about the functions of the storage, for every size of piece,     *)
(* block, cache and file: what making room releases and leaves, what a     *)
(* write adds, and what a read finds.  The proofs of the storage and of    *)
(* the download task rest on them.                                         *)
(***************************************************************************)
EXTENDS PieceCache, FiniteSetTheorems, TLAPS

-----------------------------------------------------------------------------
(* Arithmetic the provers do not find inside larger steps.                 *)

\* Multiplying by the piece size keeps the order, and the strict order
\* leaves a whole piece between.
LEMMA TimesPiece ==
    ASSUME NEW a \in Int, NEW b \in Int, NEW k \in Nat \ {0}
    PROVE  /\ a <= b <=> a * k <= b * k
           /\ a < b <=> a * k < b * k
           /\ (a + 1) * k = a * k + k
           /\ a * k < b * k => (a + 1) * k <= b * k
  OBVIOUS

\* A position lies in the piece its index names.
LEMMA DivBounds ==
    ASSUME NEW n \in Nat, NEW k \in Nat \ {0}
    PROVE  /\ n \div k \in Nat
           /\ (n \div k) * k <= n
           /\ n < (n \div k) * k + k
           /\ n % k \in 0..(k - 1)
           /\ n = (n \div k) * k + (n % k)
  OBVIOUS

-----------------------------------------------------------------------------
(* Bytes, the closed form of what a set of pieces holds.                   *)

\* The pieces of a file are finitely many.
LEMMA PiecesFinite ==
    ASSUME NEW n \in Nat, NEW S, S \subseteq PiecesOf(n)
    PROVE  IsFiniteSet(S) /\ Cardinality(S) \in Nat
  <1>1. IsFiniteSet(0..n)
    BY FS_Interval
  <1>2. S \in SUBSET (0..n)
    BY DEF PiecesOf
  <1> QED
    BY <1>1, <1>2, FS_Subset, FS_CardinalityType

\* The piece in which the file ends.
LEMMA EndPiece ==
    ASSUME NEW n \in Nat
    PROVE  /\ PieceAt(n) \in Nat
           /\ PieceAt(n) * PIECE <= n
           /\ (PieceAt(n) + 1) * PIECE \in Nat
           /\ n < (PieceAt(n) + 1) * PIECE
           /\ \A p \in PiecesOf(n) : (p + 1) * PIECE > n => p = PieceAt(n)
  <1>1. /\ PieceAt(n) \in Nat
        /\ PieceAt(n) * PIECE <= n
        /\ n < PieceAt(n) * PIECE + PIECE
    BY PieceAssumption, DivBounds DEF PieceAt
  <1>2. (PieceAt(n) + 1) * PIECE = PieceAt(n) * PIECE + PIECE
    BY <1>1, PieceAssumption
  <1>3. (PieceAt(n) + 1) * PIECE \in Nat
    BY <1>1, PieceAssumption
  <1>4. ASSUME NEW p \in PiecesOf(n), (p + 1) * PIECE > n
        PROVE  p = PieceAt(n)
    <2>1. p \in Nat /\ p * PIECE < n /\ p * PIECE \in Nat
      BY PieceAssumption DEF PiecesOf
    <2>2. p * PIECE < (PieceAt(n) + 1) * PIECE
      BY <1>1, <1>2, <1>3, <2>1
    <2>3. PieceAt(n) * PIECE < (p + 1) * PIECE
      BY <1>1, <1>4, <2>1, PieceAssumption
    <2>4. p < PieceAt(n) + 1
      BY <1>1, <2>1, <2>2, PieceAssumption, TimesPiece
    <2>5. PieceAt(n) < p + 1
      BY <1>1, <2>1, <2>3, PieceAssumption, TimesPiece
    <2> QED
      BY <1>1, <2>1, <2>4, <2>5
  <1> QED
    BY <1>1, <1>2, <1>3, <1>4

\* Bytes is an integer.
LEMMA BytesType ==
    ASSUME NEW s, s.filesize \in Nat, NEW S, S \subseteq PiecesOf(s.filesize)
    PROVE  Bytes(s, S) \in Int
  <1>1. Cardinality(S) \in Nat
    BY PiecesFinite
  <1>2. PIECE * Cardinality(S) \in Int
    BY <1>1, PieceAssumption
  <1>3. (PieceAt(s.filesize) + 1) * PIECE \in Nat
    BY EndPiece
  <1> QED
    BY <1>2, <1>3 DEF Bytes

\* The bytes of what is left when some pieces go.
LEMMA BytesDifference ==
    ASSUME NEW s, s.filesize \in Nat,
           NEW S, S \subseteq PiecesOf(s.filesize), NEW T, T \subseteq S
    PROVE  Bytes(s, S \ T) = Bytes(s, S) - Bytes(s, T)
  <1>1. /\ IsFiniteSet(S) /\ Cardinality(S) \in Nat
        /\ IsFiniteSet(T) /\ Cardinality(T) \in Nat
    BY PiecesFinite
  <1>2. Cardinality(S \ T) = Cardinality(S) - Cardinality(T)
    <2>1. S \cap T = T
      OBVIOUS
    <2> QED
      BY <1>1, <2>1, FS_Difference
  <1>3. PIECE * Cardinality(S \ T) = PIECE * Cardinality(S) - PIECE * Cardinality(T)
    BY <1>1, <1>2, PieceAssumption
  <1>4. PieceAt(s.filesize) \in Nat /\ (PieceAt(s.filesize) + 1) * PIECE \in Nat
    BY EndPiece
  <1>5. /\ PIECE * Cardinality(S) \in Int /\ PIECE * Cardinality(T) \in Int
        /\ s.filesize \in Int
    BY <1>1, PieceAssumption
  <1> QED
    BY <1>3, <1>4, <1>5 DEF Bytes

\* The bytes of what is there when new pieces come.
LEMMA BytesUnion ==
    ASSUME NEW s, s.filesize \in Nat,
           NEW S, S \subseteq PiecesOf(s.filesize),
           NEW T, T \subseteq PiecesOf(s.filesize), S \cap T = {}
    PROVE  Bytes(s, S \cup T) = Bytes(s, S) + Bytes(s, T)
  <1>1. S \cup T \subseteq PiecesOf(s.filesize) /\ T \subseteq S \cup T
    OBVIOUS
  <1>2. (S \cup T) \ T = S
    OBVIOUS
  <1>3. Bytes(s, S) = Bytes(s, S \cup T) - Bytes(s, T)
    BY <1>1, <1>2, BytesDifference
  <1> QED
    BY <1>1, <1>3, BytesType

-----------------------------------------------------------------------------
(* What one write and one clearing do.                                     *)

\* The array of blocks has room for the whole file.
LEMMA RoomForTheFile ==
    ASSUME NEW s, s.estimate_size = FileSize
    PROVE  PieceLimit(s) \in Nat /\ FileSize <= PieceLimit(s) * PIECE
  <1> DEFINE n == FileSize + BLOCK - 1
             b == n \div BLOCK
  <1>1. BLOCK \in Nat \ {0} /\ n \in Nat /\ FileSize \in Nat
    BY PieceAssumption, FileAssumption DEF BLOCK
  <1>2. b \in Nat /\ n < b * BLOCK + BLOCK
    BY <1>1, DivBounds
  <1>3. FileSize <= b * BLOCK
    BY <1>1, <1>2
  <1>4. (b * PIECES_PER_BLOCK) * PIECE = b * BLOCK
    BY <1>2, PieceAssumption DEF BLOCK
  <1>5. PieceLimit(s) = b * PIECES_PER_BLOCK
    BY DEF PieceLimit, BlockNum
  <1> QED
    BY <1>2, <1>3, <1>4, <1>5, PieceAssumption

\* A write that keeps to the asserts of storage_write() is never cut, and
\* it fills pieces of the file only.
LEMMA WriteIsWhole ==
    ASSUME NEW s, s.estimate_size = FileSize, NEW w \in Writes
    PROVE  /\ WriteLen(s, w.pos, w.len) = w.len
           /\ WrittenPieces(s, w.pos, w.len) \subseteq PiecesOf(FileSize)
  <1>1. /\ w.pos \in Nat /\ w.len \in Nat /\ w.pos + w.len <= FileSize
        /\ FileSize \in Nat
    BY FileAssumption DEF Writes
  <1>2. WriteLen(s, w.pos, w.len) = w.len
    <2>1. /\ PieceLimit(s) \in Nat /\ FileSize <= PieceLimit(s) * PIECE
          /\ PieceLimit(s) * PIECE \in Nat
      BY RoomForTheFile, PieceAssumption
    <2> QED
      BY <1>1, <2>1 DEF WriteLen, Least
  <1>3. ASSUME NEW p \in WrittenPieces(s, w.pos, w.len)
        PROVE  p \in PiecesOf(FileSize)
    <2>1. p \in Nat /\ p * PIECE < FileSize /\ p * PIECE \in Nat
      BY <1>1, <1>2, PieceAssumption, RoomForTheFile DEF WrittenPieces
    <2>2. p <= p * PIECE
      BY <2>1, PieceAssumption
    <2> QED
      BY <1>1, <2>1, <2>2 DEF PiecesOf
  <1> QED
    BY <1>2, <1>3

\* What a write adds to completed_size is what the new pieces hold.
LEMMA WriteAccounting ==
    ASSUME NEW s \in Storages, s.filesize = FileSize, s.estimate_size = FileSize,
           NEW w \in Writes
    PROVE  Write(s, w.pos, w.len).completed_size
             = s.completed_size
                 + Bytes(s, WrittenPieces(s, w.pos, w.len) \ s.pieces)
  <1> DEFINE fresh == WrittenPieces(s, w.pos, w.len) \ s.pieces
             end   == w.pos + w.len
             last  == PieceAt(FileSize)
             short == { p \in fresh : (p + 1) * PIECE > end }
             cut   == IF short = {} THEN 0 ELSE (PieceAt(end) + 1) * PIECE - end
             tail  == IF last \in fresh THEN (last + 1) * PIECE - FileSize ELSE 0
  <1>1. /\ w.pos \in Nat /\ w.len \in Nat /\ FileSize \in Nat
        /\ end \in Nat /\ end <= FileSize
        /\ end = FileSize \/ w.len % PIECE = 0
        /\ w.pos % PIECE = 0
    BY FileAssumption DEF Writes
  <1>2. WriteLen(s, w.pos, w.len) = w.len /\ fresh \subseteq PiecesOf(FileSize)
    BY WriteIsWhole
  <1>3. \A p \in fresh : p \in Nat /\ p * PIECE < end
    BY <1>2 DEF WrittenPieces, PiecesOf
  <1>4. cut = tail
    <2>1. CASE end = FileSize
      <3>1. short = {} <=> last \notin fresh
        BY <1>1, <1>2, <2>1, EndPiece
      <3> QED
        BY <2>1, <3>1
    <2>2. CASE end < FileSize
      <3>1. PICK k \in Int : end = k * PIECE
        <4>1. /\ w.pos = (w.pos \div PIECE) * PIECE + (w.pos % PIECE)
              /\ w.len = (w.len \div PIECE) * PIECE + (w.len % PIECE)
              /\ w.pos \div PIECE \in Nat /\ w.len \div PIECE \in Nat
          BY <1>1, PieceAssumption, DivBounds
        <4>2. w.pos % PIECE = 0 /\ w.len % PIECE = 0
          BY <1>1, <2>2
        <4>3. end = (w.pos \div PIECE + w.len \div PIECE) * PIECE
          BY <1>1, <4>1, <4>2, PieceAssumption
        <4> QED
          BY <4>1, <4>3
      <3>2. \A p \in fresh : (p + 1) * PIECE <= end
        BY <1>3, <3>1, TimesPiece, PieceAssumption
      <3>3. \A p \in fresh : (p + 1) * PIECE \in Int
        BY <1>3, PieceAssumption
      <3>4. short = {}
        BY <1>1, <3>2, <3>3
      <3>5. last \notin fresh
        BY <1>1, <2>2, <3>2, <3>3, EndPiece
      <3> QED
        BY <3>4, <3>5
    <2> QED
      BY <1>1, <2>1, <2>2
  <1>5. Bytes(s, fresh) = PIECE * Cardinality(fresh) - tail
    BY DEF Bytes
  <1>6. Write(s, w.pos, w.len).completed_size
          = s.completed_size + PIECE * Cardinality(fresh) - cut
    BY <1>2 DEF Write, Storages
  <1>7. /\ PIECE * Cardinality(fresh) \in Int /\ tail \in Int
        /\ s.completed_size \in Int
    <2>1. Cardinality(fresh) \in Nat
      BY <1>1, <1>2, PiecesFinite
    <2>2. tail \in Int
      BY <1>1, EndPiece
    <2> QED
      BY <2>1, <2>2, PieceAssumption DEF Storages
  <1> QED
    BY <1>4, <1>5, <1>6, <1>7

\* What is released is buffered.
LEMMA ReleasedIsBuffered ==
    ASSUME NEW s, NEW len, NEW hold_pos
    PROVE  Released(s, len, hold_pos) \subseteq s.pieces
  BY DEF Released, Releasable

-----------------------------------------------------------------------------
(* Counting the pieces that making room leaves.                            *)

\* A set of pieces never holds less than nothing.
LEMMA BytesNatural ==
    ASSUME NEW s, s.filesize \in Nat, NEW S, S \subseteq PiecesOf(s.filesize)
    PROVE  Bytes(s, S) \in Nat /\ Bytes(s, S) <= PIECE * Cardinality(S)
  <1> DEFINE last == PieceAt(s.filesize)
             tail == (last + 1) * PIECE - s.filesize
  <1>1. IsFiniteSet(S) /\ Cardinality(S) \in Nat /\ PIECE * Cardinality(S) \in Nat
    BY PiecesFinite, PieceAssumption
  <1>2. tail \in Nat /\ tail <= PIECE
    <2>1. /\ last \in Nat /\ last * PIECE <= s.filesize
          /\ s.filesize < (last + 1) * PIECE
      BY EndPiece
    <2> HIDE DEF last
    <2>2. /\ (last + 1) * PIECE = last * PIECE + PIECE
          /\ last * PIECE \in Nat /\ (last + 1) * PIECE \in Nat
      BY <2>1, PieceAssumption
    <2> QED
      BY <2>1, <2>2, PieceAssumption
  <1>3. CASE last \in S
    <2>1. Cardinality(S) >= 1
      BY <1>1, <1>3, FS_EmptySet
    <2>2. PIECE * Cardinality(S) >= PIECE
      BY <1>1, <2>1, PieceAssumption
    <2> QED
      BY <1>1, <1>2, <1>3, <2>2, PieceAssumption DEF Bytes
  <1>4. CASE last \notin S
    BY <1>1, <1>4 DEF Bytes
  <1> QED
    BY <1>3, <1>4

\* More pieces never hold fewer bytes.
LEMMA BytesMonotone ==
    ASSUME NEW s, s.filesize \in Nat,
           NEW S, S \subseteq PiecesOf(s.filesize), NEW T, T \subseteq S
    PROVE  Bytes(s, T) <= Bytes(s, S)
  <1>1. Bytes(s, S \ T) = Bytes(s, S) - Bytes(s, T)
    BY BytesDifference
  <1>2. Bytes(s, S \ T) \in Nat /\ Bytes(s, S) \in Nat /\ Bytes(s, T) \in Nat
    BY BytesNatural
  <1> QED
    BY <1>1, <1>2

\* A piece lies inside its block.
LEMMA PieceInBlock ==
    ASSUME NEW p \in Nat
    PROVE  /\ BlockOf(p) \in Nat
           /\ BlockOf(p) * BLOCK <= p * PIECE
           /\ (p + 1) * PIECE <= (BlockOf(p) + 1) * BLOCK
  <1> DEFINE b == BlockOf(p)
  <1>1. /\ b \in Nat /\ b * PIECES_PER_BLOCK <= p
        /\ p < b * PIECES_PER_BLOCK + PIECES_PER_BLOCK
    BY PieceAssumption, DivBounds DEF BlockOf
  <1>2. b * PIECES_PER_BLOCK \in Nat /\ (b + 1) * PIECES_PER_BLOCK \in Nat
        /\ (b + 1) * PIECES_PER_BLOCK = b * PIECES_PER_BLOCK + PIECES_PER_BLOCK
    BY <1>1, PieceAssumption
  <1>3. (b * PIECES_PER_BLOCK) * PIECE <= p * PIECE
    BY <1>1, <1>2, TimesPiece, PieceAssumption
  <1>4. (p + 1) * PIECE <= ((b + 1) * PIECES_PER_BLOCK) * PIECE
    <2>1. p + 1 <= (b + 1) * PIECES_PER_BLOCK
      BY <1>1, <1>2, PieceAssumption
    <2> QED
      BY <1>2, <2>1, TimesPiece, PieceAssumption
  <1>5. /\ (b * PIECES_PER_BLOCK) * PIECE = b * BLOCK
        /\ ((b + 1) * PIECES_PER_BLOCK) * PIECE = (b + 1) * BLOCK
    BY <1>1, PieceAssumption DEF BLOCK
  <1> QED
    BY <1>1, <1>3, <1>4, <1>5

\* 0..k-1 has k elements.
LEMMA CountFromZero ==
    ASSUME NEW k \in Nat
    PROVE  IsFiniteSet(0..(k - 1)) /\ Cardinality(0..(k - 1)) = k
  <1> DEFINE top == k - 1
  <1>1. top \in Int /\ 0 \in Int
    OBVIOUS
  <1> HIDE DEF top
  <1>2. /\ IsFiniteSet(0..top)
        /\ Cardinality(0..top) = IF 0 > top THEN 0 ELSE top - 0 + 1
    BY <1>1, FS_Interval
  <1> QED
    BY <1>2 DEF top

\* The pieces before the block of hold_head_size() fit in the head.
LEMMA HeadCount ==
    ASSUME NEW S, S \subseteq { p \in Nat : BlockOf(p) < HOLD_HEAD_SIZE \div BLOCK }
    PROVE  /\ IsFiniteSet(S)
           /\ Cardinality(S) \in Nat
           /\ PIECE * Cardinality(S) <= HOLD_HEAD_SIZE
  <1> DEFINE h == HOLD_HEAD_SIZE \div BLOCK
             m == h * PIECES_PER_BLOCK
  <1>1. /\ BLOCK \in Nat \ {0} /\ h \in Nat /\ h * BLOCK <= HOLD_HEAD_SIZE
        /\ m \in Nat /\ PIECE * m = h * BLOCK
    <2>1. BLOCK \in Nat \ {0}
      BY PieceAssumption DEF BLOCK
    <2>2. h \in Nat /\ h * BLOCK <= HOLD_HEAD_SIZE
      BY <2>1, CacheAssumption, DivBounds
    <2> QED
      BY <2>1, <2>2, PieceAssumption DEF BLOCK
  <1>2. ASSUME NEW p \in S
        PROVE  p \in 0..(m - 1)
    <2>1. p \in Nat /\ BlockOf(p) < h /\ BlockOf(p) \in Nat
      BY PieceInBlock
    <2>2. p < BlockOf(p) * PIECES_PER_BLOCK + PIECES_PER_BLOCK
      BY <2>1, PieceAssumption, DivBounds DEF BlockOf
    <2>3. (BlockOf(p) + 1) * PIECES_PER_BLOCK <= h * PIECES_PER_BLOCK
      BY <1>1, <2>1, TimesPiece, PieceAssumption
    <2>4. (BlockOf(p) + 1) * PIECES_PER_BLOCK
            = BlockOf(p) * PIECES_PER_BLOCK + PIECES_PER_BLOCK
      BY <2>1, PieceAssumption
    <2>5. BlockOf(p) * PIECES_PER_BLOCK \in Nat
      BY <2>1, PieceAssumption
    <2> QED
      BY <1>1, <2>1, <2>2, <2>3, <2>4, <2>5, PieceAssumption
  <1>3. IsFiniteSet(0..(m - 1)) /\ Cardinality(0..(m - 1)) = m
    <2> HIDE DEF m
    <2> QED
      BY <1>1, CountFromZero
  <1>4. IsFiniteSet(S) /\ Cardinality(S) <= m
    BY <1>2, <1>3, FS_Subset
  <1>5. Cardinality(S) \in Nat
    BY <1>4, FS_CardinalityType
  <1>6. PIECE * Cardinality(S) <= PIECE * m
    BY <1>1, <1>4, <1>5, PieceAssumption
  <1> QED
    BY <1>1, <1>4, <1>5, <1>6, CacheAssumption, PieceAssumption

\* A piece inside a window lies fewer than window \div PIECE pieces from the
\* first piece that starts in it.
LEMMA WindowSlot ==
    ASSUME NEW p \in Nat, NEW from \in Nat, NEW window \in Nat,
           from <= p * PIECE, (p + 1) * PIECE <= from + window
    PROVE  /\ (from + PIECE - 1) \div PIECE \in Nat
           /\ p - ((from + PIECE - 1) \div PIECE) \in 0..((window \div PIECE) - 1)
  <1> DEFINE up == from + PIECE - 1
             c  == up \div PIECE
             k  == window \div PIECE
  <1>1. up \in Nat /\ PIECE \in Nat \ {0}
    BY PieceAssumption
  <1>2. c \in Nat /\ c * PIECE <= up /\ up < c * PIECE + PIECE
    <2> HIDE DEF up
    <2> QED
      BY <1>1, DivBounds
  <1>3. k \in Nat /\ window < k * PIECE + PIECE
    BY <1>1, DivBounds
  <1>4. from <= c * PIECE /\ c * PIECE < from + PIECE /\ c * PIECE \in Nat
    BY <1>1, <1>2
  <1> HIDE DEF c, k, up
  <1>5. c <= p
    <2>1. (p + 1) * PIECE = p * PIECE + PIECE /\ p * PIECE \in Nat
      BY <1>1
    <2>2. c * PIECE < (p + 1) * PIECE
      BY <1>1, <1>4, <2>1
    <2>3. c < p + 1
      BY <1>1, <1>2, <2>2, TimesPiece
    <2> QED
      BY <1>2, <2>3
  <1>6. p < c + k
    <2>1. (c + k + 1) * PIECE = c * PIECE + (k * PIECE + PIECE)
      BY <1>1, <1>2, <1>3
    <2>2. k * PIECE \in Nat /\ (p + 1) * PIECE \in Nat
      BY <1>1, <1>3
    <2>3. (p + 1) * PIECE < (c + k + 1) * PIECE
      BY <1>1, <1>3, <1>4, <2>1, <2>2
    <2>4. p + 1 < c + k + 1
      BY <1>1, <1>2, <1>3, <2>3, TimesPiece
    <2> QED
      BY <1>2, <1>3, <2>4
  <1> QED
    BY <1>2, <1>3, <1>5, <1>6 DEF c, k, up

\* The pieces that n held positions keep fit in n windows: a piece is named
\* by one position that holds it and its distance from the window's start.
LEMMA HeldCount ==
    ASSUME NEW n \in Nat, NEW hold_pos \in [1..n -> Nat], NEW S, S \subseteq Nat,
           \A p \in S : \E i \in 1..n : HeldBy(hold_pos[i], p)
    PROVE  /\ IsFiniteSet(S)
           /\ Cardinality(S) \in Nat
           /\ PIECE * Cardinality(S) <= (MAX_CACHE_LEFT + MAX_CACHE_LEN) * n
  <1> DEFINE window == MAX_CACHE_LEFT + MAX_CACHE_LEN
             k      == window \div PIECE
             T      == (1..n) \X (0..(k - 1))
             by(p)  == CHOOSE i \in 1..n : HeldBy(hold_pos[i], p)
             a(i)   == (HoldFrom(hold_pos[i]) + PIECE - 1) \div PIECE
             f      == [p \in S |-> <<by(p), p - a(by(p))>>]
  <1>1. window \in Nat /\ k \in Nat /\ k * PIECE <= window
    <2>1. window \in Nat
      BY CacheAssumption
    <2> HIDE DEF window
    <2> QED
      BY <2>1, PieceAssumption, DivBounds
  <1>2. ASSUME NEW p \in S
        PROVE  /\ by(p) \in 1..n
               /\ a(by(p)) \in Nat
               /\ p - a(by(p)) \in 0..(k - 1)
    <2> DEFINE i    == by(p)
               from == HoldFrom(hold_pos[i])
    <2>1. i \in 1..n /\ HeldBy(hold_pos[i], p)
      OBVIOUS
    <2> HIDE DEF i
    <2>2. /\ from \in Nat /\ hold_pos[i] \in Nat
          /\ HoldEnd(hold_pos[i]) <= from + window
          /\ HoldEnd(hold_pos[i]) \in Nat
      BY <2>1, CacheAssumption DEF HoldFrom, HoldEnd
    <2>3. p \in Nat /\ from <= p * PIECE
          /\ (p + 1) * PIECE <= HoldEnd(hold_pos[i])
          /\ (p + 1) * PIECE \in Nat
      BY <2>1, PieceAssumption DEF HeldBy
    <2>4. (p + 1) * PIECE <= from + window
      BY <1>1, <2>2, <2>3
    <2> HIDE DEF from, window
    <2>5. /\ (from + PIECE - 1) \div PIECE \in Nat
          /\ p - ((from + PIECE - 1) \div PIECE) \in 0..((window \div PIECE) - 1)
      BY <1>1, <2>2, <2>3, <2>4, WindowSlot
    <2> QED
      BY <2>1, <2>5 DEF i, from
  <1> HIDE DEF k, by, a
  <1>3. IsFiniteSet(T) /\ Cardinality(T) = n * k
    <2> DEFINE A == 1..n
               B == 0..(k - 1)
    <2>1. IsFiniteSet(A) /\ Cardinality(A) = n
      BY FS_Interval
    <2>2. IsFiniteSet(B) /\ Cardinality(B) = k
      BY <1>1, CountFromZero
    <2> HIDE DEF A, B
    <2>3. IsFiniteSet(A \X B) /\ Cardinality(A \X B) = Cardinality(A) * Cardinality(B)
      BY <2>1, <2>2, FS_Product
    <2> QED
      BY <2>1, <2>2, <2>3 DEF A, B
  <1>4. f \in Injection(S, T)
    <2>1. f \in [S -> T]
      BY <1>2
    <2>2. ASSUME NEW p \in S, NEW q \in S, f[p] = f[q]
          PROVE  p = q
      <3>1. by(p) = by(q) /\ p - a(by(p)) = q - a(by(q))
        BY <2>2
      <3>2. p \in Nat /\ q \in Nat /\ a(by(p)) \in Nat
        BY <1>2
      <3> QED
        BY <3>1, <3>2
    <2> QED
      BY <2>1, <2>2 DEF Injection, IsInjective
  <1> HIDE DEF f, T
  <1>5. IsFiniteSet(S) /\ Cardinality(S) <= n * k
    BY <1>3, <1>4, FS_Injection
  <1>6. Cardinality(S) \in Nat
    BY <1>5, FS_CardinalityType
  <1>7. PIECE * Cardinality(S) <= window * n
    <2> HIDE DEF window
    <2>1. n * k \in Nat /\ PIECE * Cardinality(S) <= PIECE * (n * k)
      BY <1>1, <1>5, <1>6, PieceAssumption
    <2>2. PIECE * (n * k) = n * (k * PIECE)
      BY <1>1, PieceAssumption
    <2>3. n * (k * PIECE) <= n * window
      BY <1>1, PieceAssumption
    <2>4. n * window = window * n
      BY <1>1
    <2>5. PIECE * Cardinality(S) \in Nat /\ n * window \in Nat
          /\ PIECE * (n * k) \in Nat
      BY <1>1, <1>6, <2>1, PieceAssumption
    <2> QED
      BY <2>1, <2>2, <2>3, <2>4, <2>5
  <1> QED
    BY <1>5, <1>6, <1>7

\* Making room releases either as many bytes as were asked for or every
\* piece that no reader holds.  The loop over the blocks stops at the first
\* block that brings the count to len; that there is a first one is the
\* well-foundedness of the block indexes.
LEMMA EnoughOrAll ==
    ASSUME NEW s \in Storages, s.pieces \subseteq PiecesOf(s.filesize),
           NEW len \in Nat, NEW hold_pos
    PROVE  \/ Released(s, len, hold_pos) = Releasable(s, hold_pos)
           \/ Bytes(s, Released(s, len, hold_pos)) >= len
  <1> DEFINE gone  == Released(s, len, hold_pos)
             all   == Releasable(s, hold_pos)
             upto(b) == ReleasedUpTo(s, hold_pos, b)
             stops == { b \in Visited(s, hold_pos) : ~(Bytes(s, upto(b)) < len) }
  <1>1. s.filesize \in Nat /\ gone \subseteq all /\ all \subseteq s.pieces
    BY FileAssumption DEF Storages, Released, Releasable
  <1>2. stops \subseteq Nat
    BY DEF Visited, Storages
  <1>3. \A p \in all : BlockOf(p) \in Nat
    BY DEF Releasable, Visited, Storages
  <1>4. CASE stops = {}
    <2>1. \A b \in Visited(s, hold_pos) : Bytes(s, upto(b)) < len
      BY <1>4
    <2>2. gone = all
      BY <2>1 DEF Released
    <2> QED
      BY <2>2
  <1>5. CASE stops # {}
    <2>1. PICK m \in stops : \A y \in stops : ~(<<y, m>> \in OpToRel(<, Nat))
      BY <1>2, <1>5, NatLessThanWellFounded, WFMin
    <2>2. \A y \in stops : ~(y < m)
      BY <1>2, <2>1 DEF OpToRel
    <2>3. m \in Nat /\ \A b \in Visited(s, hold_pos) : b \in Nat
      BY <1>2 DEF Visited, Storages
    <2>4. upto(m) \subseteq gone
      <3> SUFFICES ASSUME NEW q \in upto(m),
                          NEW b \in Visited(s, hold_pos), b < BlockOf(q)
                   PROVE  Bytes(s, upto(b)) < len
        BY DEF Released, ReleasedUpTo
      <3>1. q \in all /\ BlockOf(q) <= m /\ BlockOf(q) \in Nat
        BY <1>3 DEF ReleasedUpTo
      <3>2. b < m
        BY <2>3, <3>1
      <3> QED
        BY <2>2, <3>2
    <2>5. upto(m) \subseteq PiecesOf(s.filesize) /\ gone \subseteq PiecesOf(s.filesize)
      BY <1>1, <2>4
    <2>6. Bytes(s, upto(m)) <= Bytes(s, gone)
      BY <1>1, <2>4, <2>5, BytesMonotone
    <2>7. /\ Bytes(s, upto(m)) \in Nat /\ Bytes(s, gone) \in Nat
          /\ ~(Bytes(s, upto(m)) < len)
      BY <1>1, <2>5, BytesNatural
    <2> QED
      BY <2>6, <2>7
  <1> QED
    BY <1>4, <1>5

\* What may not be released fits in hold_size(): the head of the file and
\* one window for each position held.
LEMMA HeldFits ==
    ASSUME NEW s \in Storages, s.pieces \subseteq PiecesOf(s.filesize),
           s.blocks = { BlockOf(p) : p \in s.pieces },
           NEW n \in Nat, NEW hold_pos \in [1..n -> Nat], Len(hold_pos) = n
    PROVE  Bytes(s, s.pieces \ Releasable(s, hold_pos)) <= HoldSize(n)
  <1> DEFINE left == s.pieces \ Releasable(s, hold_pos)
             head == { p \in left : BlockOf(p) < HOLD_HEAD_SIZE \div BLOCK }
             held == { p \in left : ShouldHoldPiece(p, hold_pos) }
  <1>1. s.filesize \in Nat /\ s.pieces \subseteq Nat
    BY FileAssumption DEF Storages
  <1>2. left \subseteq head \cup held
    <2> SUFFICES ASSUME NEW p \in left, p \notin head
                 PROVE  ShouldHoldPiece(p, hold_pos)
      OBVIOUS
    <2> DEFINE b == BlockOf(p)
    <2>1. p \in Nat /\ p \in s.pieces /\ b \in s.blocks
      BY <1>1
    <2>2. /\ b \in Nat
          /\ b * BLOCK <= p * PIECE
          /\ (p + 1) * PIECE <= (b + 1) * BLOCK
      BY <2>1, PieceInBlock
    <2>3. HOLD_HEAD_SIZE \div BLOCK \in Nat
      <3>1. BLOCK \in Nat \ {0} /\ HOLD_HEAD_SIZE \in Nat
        BY CacheAssumption, PieceAssumption DEF BLOCK
      <3> QED
        BY <3>1, DivBounds
    <2> HIDE DEF b
    <2>4. b >= HOLD_HEAD_SIZE \div BLOCK
      BY <2>2, <2>3 DEF b
    <2>5. CASE ShouldHoldBlock(b, hold_pos)
      <3>1. PICK i \in 1..n : /\ HoldFrom(hold_pos[i]) <= b * BLOCK
                              /\ (b + 1) * BLOCK <= HoldEnd(hold_pos[i])
        BY <2>5 DEF ShouldHoldBlock
      <3>2. /\ HoldFrom(hold_pos[i]) \in Nat /\ HoldEnd(hold_pos[i]) \in Nat
            /\ b * BLOCK \in Nat /\ (b + 1) * BLOCK \in Nat
            /\ p * PIECE \in Nat /\ (p + 1) * PIECE \in Nat
        BY <2>1, <2>2, CacheAssumption, PieceAssumption DEF HoldFrom, HoldEnd, BLOCK
      <3>3. HeldBy(hold_pos[i], p)
        BY <2>2, <3>1, <3>2 DEF HeldBy
      <3> QED
        BY <3>3 DEF ShouldHoldPiece
    <2>6. CASE ~ShouldHoldBlock(b, hold_pos)
      <3>1. b \in Visited(s, hold_pos)
        BY <2>1, <2>4, <2>6 DEF Visited
      <3> QED
        BY <2>1, <3>1 DEF Releasable, b
    <2> QED
      BY <2>5, <2>6
  <1>3. /\ IsFiniteSet(head) /\ Cardinality(head) \in Nat
        /\ PIECE * Cardinality(head) <= HOLD_HEAD_SIZE
    <2>1. head \subseteq { p \in Nat : BlockOf(p) < HOLD_HEAD_SIZE \div BLOCK }
      BY <1>1
    <2> HIDE DEF head
    <2> QED
      BY <2>1, HeadCount
  <1>4. /\ IsFiniteSet(held) /\ Cardinality(held) \in Nat
        /\ PIECE * Cardinality(held) <= (MAX_CACHE_LEFT + MAX_CACHE_LEN) * n
    <2>1. held \subseteq Nat /\ \A p \in held : \E i \in 1..n : HeldBy(hold_pos[i], p)
      BY <1>1 DEF ShouldHoldPiece
    <2> HIDE DEF held
    <2> QED
      BY <2>1, HeldCount
  <1>5. left \subseteq PiecesOf(s.filesize) /\ IsFiniteSet(left) /\ Cardinality(left) \in Nat
    BY <1>1, PiecesFinite
  <1> HIDE DEF left, head, held
  <1>6. Cardinality(left) <= Cardinality(head) + Cardinality(held)
    <2>1. /\ IsFiniteSet(head \cup held)
          /\ Cardinality(head \cup held)
               = Cardinality(head) + Cardinality(held) - Cardinality(head \cap held)
      BY <1>3, <1>4, FS_Union
    <2>2. Cardinality(head \cap held) \in Nat
      <3>1. IsFiniteSet(head \cap held)
        BY <1>3, FS_Intersection
      <3> QED
        BY <3>1, FS_CardinalityType
    <2>3. Cardinality(left) <= Cardinality(head \cup held)
      BY <1>2, <2>1, FS_Subset
    <2> QED
      BY <1>3, <1>4, <1>5, <2>1, <2>2, <2>3
  <1>7. PIECE * Cardinality(left)
          <= PIECE * Cardinality(head) + PIECE * Cardinality(held)
    <2>1. PIECE * (Cardinality(head) + Cardinality(held))
            = PIECE * Cardinality(head) + PIECE * Cardinality(held)
      BY <1>3, <1>4, PieceAssumption
    <2>2. PIECE * Cardinality(left) <= PIECE * (Cardinality(head) + Cardinality(held))
      BY <1>3, <1>4, <1>5, <1>6, PieceAssumption
    <2> QED
      BY <2>1, <2>2
  <1>8. Bytes(s, left) \in Nat /\ Bytes(s, left) <= PIECE * Cardinality(left)
    BY <1>1, <1>5, BytesNatural
  <1>9. /\ PIECE * Cardinality(left) \in Nat /\ PIECE * Cardinality(head) \in Nat
        /\ PIECE * Cardinality(held) \in Nat
        /\ (MAX_CACHE_LEFT + MAX_CACHE_LEN) * n \in Nat
    BY <1>3, <1>4, <1>5, PieceAssumption, CacheAssumption
  <1>10. Bytes(s, left) <= HoldSize(n)
    BY <1>3, <1>4, <1>7, <1>8, <1>9, CacheAssumption DEF HoldSize
  <1> QED
    BY <1>10 DEF left

\* A write never adds more than its length.
LEMMA WriteFits ==
    ASSUME NEW s \in Storages, s.filesize = FileSize, s.estimate_size = FileSize,
           s.pieces \subseteq PiecesOf(FileSize), NEW w \in Writes
    PROVE  Bytes(s, WrittenPieces(s, w.pos, w.len) \ s.pieces) <= w.len
  <1> DEFINE fill == WrittenPieces(s, w.pos, w.len)
             a    == w.pos \div PIECE
             end  == w.pos + w.len
             last == PieceAt(FileSize)
  <1>1. /\ w.pos \in Nat /\ w.len \in Nat /\ FileSize \in Nat
        /\ end \in Nat /\ end <= FileSize
        /\ end = FileSize \/ w.len % PIECE = 0
        /\ w.pos % PIECE = 0
    BY FileAssumption DEF Writes
  <1>2. WriteLen(s, w.pos, w.len) = w.len /\ fill \subseteq PiecesOf(FileSize)
    BY WriteIsWhole
  <1>3. a \in Nat /\ w.pos = a * PIECE
    <2>1. a \in Nat /\ w.pos = a * PIECE + (w.pos % PIECE)
      BY <1>1, PieceAssumption, DivBounds
    <2> HIDE DEF a
    <2> QED
      BY <1>1, <2>1, PieceAssumption
  <1>4. \A p \in fill : p \in Nat /\ a <= p /\ p * PIECE < end
    <2>1. \A p \in fill : p \in Nat /\ a * PIECE <= p * PIECE /\ p * PIECE < end
      BY <1>2, <1>3 DEF WrittenPieces, PiecesOf
    <2> HIDE DEF a, fill
    <2> QED
      BY <1>3, <2>1, TimesPiece, PieceAssumption
  <1>5. IsFiniteSet(fill) /\ Cardinality(fill) \in Nat
    BY <1>1, <1>2, PiecesFinite
  <1>6. ASSUME NEW c \in Nat, \A p \in fill : p < a + c
        PROVE  Cardinality(fill) <= c /\ PIECE * Cardinality(fill) <= PIECE * c
    <2> DEFINE top == a + c - 1
    <2>1. a \in Int /\ top \in Int
      BY <1>3
    <2>2. fill \subseteq a..top
      BY <1>3, <1>4, <1>6
    <2> HIDE DEF top, a, fill
    <2>3. /\ IsFiniteSet(a..top)
          /\ Cardinality(a..top) = IF a > top THEN 0 ELSE top - a + 1
      BY <2>1, FS_Interval
    <2>4. Cardinality(fill) <= Cardinality(a..top)
      BY <2>2, <2>3, FS_Subset
    <2>5. Cardinality(fill) <= c
      BY <1>3, <1>5, <2>1, <2>3, <2>4 DEF top
    <2> QED
      BY <1>5, <2>5, PieceAssumption
  <1>7. Bytes(s, fill) <= w.len
    <2>0. Bytes(s, fill) \in Nat /\ Bytes(s, fill) <= PIECE * Cardinality(fill)
      BY <1>1, <1>2, BytesNatural
    <2>1. CASE \E c \in Nat : w.len = c * PIECE
      <3>1. PICK c \in Nat : w.len = c * PIECE
        BY <2>1
      <3>2. end = (a + c) * PIECE
        BY <1>1, <1>3, <3>1, PieceAssumption
      <3>3. \A p \in fill : p < a + c
        <4> HIDE DEF a, fill, end
        <4> QED
          BY <1>3, <1>4, <3>2, TimesPiece, PieceAssumption
      <3>4. PIECE * Cardinality(fill) <= PIECE * c
        BY <1>6, <3>3
      <3>5. PIECE * c = w.len /\ PIECE * Cardinality(fill) \in Nat
        BY <1>5, <3>1, PieceAssumption
      <3> HIDE DEF fill
      <3> QED
        BY <1>1, <2>0, <3>4, <3>5
    <2>2. CASE ~\E c \in Nat : w.len = c * PIECE
      <3>1. end = FileSize
        <4>1. w.len = (w.len \div PIECE) * PIECE + (w.len % PIECE)
              /\ w.len \div PIECE \in Nat
          BY <1>1, PieceAssumption, DivBounds
        <4>2. w.len % PIECE = 0 => w.len = (w.len \div PIECE) * PIECE
          BY <4>1, PieceAssumption
        <4> QED
          BY <1>1, <2>2, <4>1, <4>2
      <3>2. /\ last \in Nat /\ last * PIECE <= FileSize
            /\ FileSize < (last + 1) * PIECE
        BY <1>1, EndPiece
      <3>3. a <= last
        <4>1. a * PIECE < (last + 1) * PIECE
          <5> HIDE DEF a, last
          <5>1. a * PIECE \in Nat /\ (last + 1) * PIECE \in Nat
                /\ a * PIECE <= FileSize
            BY <1>1, <1>3, <3>2, PieceAssumption
          <5> QED
            BY <1>1, <3>2, <5>1
        <4> HIDE DEF a, last
        <4>2. a < last + 1
          BY <1>3, <3>2, <4>1, TimesPiece, PieceAssumption
        <4> QED
          BY <1>3, <3>2, <4>2
      <3>4. last * PIECE # FileSize
        <4> SUFFICES ASSUME last * PIECE = FileSize
                     PROVE  w.len = (last - a) * PIECE /\ last - a \in Nat
          BY <2>2
        <4> HIDE DEF a, last
        <4>1. (last - a) * PIECE = last * PIECE - a * PIECE
          BY <1>3, <3>2, PieceAssumption
        <4> QED
          BY <1>1, <1>3, <3>1, <3>2, <3>3, <4>1
      <3>5. last \in fill
        <4>1. last * PIECE < end /\ w.pos <= last * PIECE
          <5>1. a * PIECE <= last * PIECE /\ last * PIECE \in Nat
            <6> HIDE DEF a, last
            <6> QED
              BY <1>3, <3>2, <3>3, PieceAssumption
          <5> HIDE DEF a, last
          <5> QED
            BY <1>1, <1>3, <3>1, <3>2, <3>4, <5>1
        <4>2. PieceLimit(s) \in Nat /\ FileSize <= PieceLimit(s) * PIECE
          BY RoomForTheFile
        <4>3. last <= PieceLimit(s)
          <5> DEFINE lim == PieceLimit(s)
          <5>1. lim * PIECE \in Nat /\ last * PIECE \in Nat
            BY <3>2, <4>2, PieceAssumption
          <5> HIDE DEF last, lim
          <5>2. last * PIECE <= lim * PIECE
            BY <1>1, <3>2, <4>2, <5>1 DEF lim
          <5>3. last <= lim
            BY <3>2, <4>2, <5>2, TimesPiece, PieceAssumption DEF lim
          <5> QED
            BY <5>3 DEF lim
        <4> QED
          BY <1>2, <3>2, <4>1, <4>2, <4>3 DEF WrittenPieces
      <3>6. \A p \in fill : p < a + (last - a + 1)
        <4>1. ASSUME NEW p \in fill PROVE p < last + 1
          <5>1. p \in Nat /\ p * PIECE < FileSize /\ p * PIECE \in Nat
            BY <1>4, <3>1, PieceAssumption
          <5>2. (last + 1) * PIECE \in Nat
            BY <3>2, PieceAssumption
          <5> HIDE DEF last
          <5>3. p * PIECE < (last + 1) * PIECE
            BY <1>1, <3>2, <5>1, <5>2
          <5> QED
            BY <3>2, <5>1, <5>3, TimesPiece, PieceAssumption
        <4> HIDE DEF a, last, fill
        <4> QED
          BY <1>3, <3>2, <3>3, <4>1
      <3>7. PIECE * Cardinality(fill) <= PIECE * (last - a + 1)
        <4>1. last - a + 1 \in Nat
          BY <1>3, <3>2, <3>3
        <4> QED
          BY <1>6, <3>6, <4>1
      <3>8. Bytes(s, fill) = PIECE * Cardinality(fill) - ((last + 1) * PIECE - FileSize)
        BY <3>5 DEF Bytes
      <3>9. PIECE * (last - a + 1) = (last + 1) * PIECE - a * PIECE
        <4> HIDE DEF a, last
        <4> QED
          BY <1>3, <3>2, PieceAssumption
      <3>10. /\ PIECE * Cardinality(fill) \in Nat /\ (last + 1) * PIECE \in Nat
             /\ a * PIECE \in Nat
        <4> HIDE DEF a, last, fill
        <4> QED
          BY <1>3, <1>5, <3>2, PieceAssumption
      <3>11. w.len = FileSize - a * PIECE
        <4> HIDE DEF a
        <4> QED
          BY <1>1, <1>3, <3>1
      <3> HIDE DEF a, last, fill
      <3> QED
        BY <1>1, <3>7, <3>8, <3>9, <3>10, <3>11
    <2> QED
      BY <2>1, <2>2
  <1>8. Bytes(s, fill \ s.pieces) <= Bytes(s, fill)
    BY <1>1, <1>2, BytesMonotone
  <1>9. Bytes(s, fill \ s.pieces) \in Nat /\ Bytes(s, fill) \in Nat
    BY <1>1, <1>2, BytesNatural
  <1> HIDE DEF fill
  <1>10. Bytes(s, fill \ s.pieces) <= w.len
    BY <1>1, <1>7, <1>8, <1>9
  <1> QED
    BY <1>10 DEF fill

-----------------------------------------------------------------------------
(* What the functions of the storage keep.                                 *)

\* Sizes and pieces agree, completed_size is exact, and a block is
\* allocated exactly while it has a buffered piece.
Sound(s) ==
    /\ s \in Storages
    /\ s.filesize > 0 => s.estimate_size = s.filesize
    /\ s.pieces \subseteq PiecesOf(s.filesize)
    /\ s.completed_size = Bytes(s, s.pieces)
    /\ s.blocks = { BlockOf(p) : p \in s.pieces }

\* Nothing is buffered in a storage that was just opened.
LEMMA EmptySound == Sound(EmptyStorage)
  <1>1. Bytes(EmptyStorage, {}) = 0
    BY FS_EmptySet, PieceAssumption DEF Bytes
  <1> QED
    BY <1>1, FileAssumption DEF Sound, EmptyStorage, Storages, PiecesOf

\* A storage whose sizes are set, field by field.
LEMMA SizedIs ==
    ASSUME NEW s \in Storages, NEW f, NEW e, NEW t,
           t = [s EXCEPT !.filesize = f, !.estimate_size = e]
    PROVE  t = [filesize |-> f, estimate_size |-> e,
                completed_size |-> s.completed_size,
                blocks |-> s.blocks, pieces |-> s.pieces]
  BY DEF Storages

\* A storage whose content is changed, field by field.
LEMMA FilledIs ==
    ASSUME NEW s \in Storages, NEW P, NEW B, NEW c, NEW t,
           t = [s EXCEPT !.pieces = P, !.blocks = B, !.completed_size = c]
    PROVE  t = [filesize |-> s.filesize, estimate_size |-> s.estimate_size,
                completed_size |-> c, blocks |-> B, pieces |-> P]
  BY DEF Storages

\* set_filesize(): the size is learned once, and while it is not nothing is
\* buffered, so no piece_len() changes under a piece.
LEMMA SetFilesizeSound ==
    ASSUME NEW s, Sound(s)
    PROVE  LET t == SetFilesize(s, FileSize)
           IN  /\ Sound(t)
               /\ t.filesize = FileSize /\ t.estimate_size = FileSize
               /\ t.pieces = s.pieces /\ t.completed_size = s.completed_size
  <1> DEFINE t == SetFilesize(s, FileSize)
  <1>1. t = [filesize |-> FileSize, estimate_size |-> FileSize,
             completed_size |-> s.completed_size,
             blocks |-> s.blocks, pieces |-> s.pieces]
    BY SizedIs DEF SetFilesize, Sound
  <1>2. s.filesize = FileSize \/ (s.filesize = 0 /\ s.pieces = {})
    <2>1. PiecesOf(0) = {}
      BY PieceAssumption DEF PiecesOf
    <2> QED
      BY <2>1 DEF Sound, Storages
  <1>3. t \in Storages
    BY <1>1, FileAssumption DEF Sound, Storages
  <1>4. t.pieces \subseteq PiecesOf(t.filesize)
    BY <1>1, <1>2 DEF Sound
  <1>5. Bytes(t, t.pieces) = Bytes(s, s.pieces)
    BY <1>1, <1>2 DEF Bytes
  <1> QED
    BY <1>1, <1>3, <1>4, <1>5 DEF Sound

\* clear_buffer_for(): it takes off completed_size what the released pieces
\* hold, and frees the blocks it empties and no others.
LEMMA ClearSound ==
    ASSUME NEW s, Sound(s), s.filesize > 0, NEW len, NEW hold_pos
    PROVE  LET t == ClearBufferFor(s, len, hold_pos)
           IN  /\ Sound(t)
               /\ t.filesize = s.filesize /\ t.estimate_size = s.estimate_size
               /\ t.pieces \subseteq s.pieces
  <1> DEFINE gone == Released(s, len, hold_pos)
             left == s.pieces \ gone
             t == ClearBufferFor(s, len, hold_pos)
  <1>2. s.filesize = FileSize /\ FileSize \in Nat /\ s \in Storages
    BY FileAssumption DEF Sound, Storages
  <1>3. CASE t = s
    BY <1>3
  <1>4. CASE t = [s EXCEPT
                !.pieces = left,
                !.blocks = { b \in @ : \/ \E p \in left : BlockOf(p) = b
                                       \/ ~\E p \in gone : BlockOf(p) = b },
                !.completed_size = @ - Bytes(s, gone)]
    <2>1. gone \subseteq s.pieces
      BY ReleasedIsBuffered
    <2>2. /\ t.pieces = left
          /\ t.completed_size = s.completed_size - Bytes(s, gone)
          /\ t.blocks = { b \in s.blocks : \/ \E p \in left : BlockOf(p) = b
                                           \/ ~\E p \in gone : BlockOf(p) = b }
          /\ t.filesize = s.filesize /\ t.estimate_size = s.estimate_size
          /\ t = [filesize |-> t.filesize, estimate_size |-> t.estimate_size,
                  completed_size |-> t.completed_size,
                  blocks |-> t.blocks, pieces |-> t.pieces]
      BY <1>2, <1>4 DEF Storages
    <2>3. Bytes(s, gone) \in Int /\ s.completed_size \in Int
      BY <1>2, <2>1, BytesType DEF Sound, Storages
    <2> HIDE DEF t
    <2>4. t \in Storages
      <3>1. t.pieces \in SUBSET Nat /\ t.blocks \in SUBSET Nat /\ t.completed_size \in Int
        BY <1>2, <2>2, <2>3 DEF Storages
      <3>2. t.filesize \in {0, FileSize} /\ t.estimate_size \in 0..FileSize
        BY <1>2, <2>2 DEF Storages
      <3> QED
        BY <2>2, <3>1, <3>2 DEF Storages
    <2>5. t.completed_size = Bytes(t, t.pieces)
      <3>1. Bytes(s, left) = Bytes(s, s.pieces) - Bytes(s, gone)
        BY <1>2, <2>1, BytesDifference DEF Sound
      <3>2. Bytes(t, left) = Bytes(s, left)
        BY <2>2 DEF Bytes
      <3> QED
        BY <2>2, <3>1, <3>2 DEF Sound
    <2>6. t.blocks = { BlockOf(p) : p \in t.pieces }
      <3>1. s.pieces = left \cup gone
        BY <2>1
      <3>2. s.blocks = { BlockOf(p) : p \in left \cup gone }
        BY <3>1 DEF Sound
      <3> QED
        BY <2>2, <3>2
    <2> QED
      BY <2>2, <2>4, <2>5, <2>6 DEF Sound, t
  <1> QED
    BY <1>3, <1>4 DEF ClearBufferFor

\* storage_write(): it adds to completed_size what the pieces that were
\* missing hold, and allocates the blocks they are in.
LEMMA WriteSound ==
    ASSUME NEW s, Sound(s), s.filesize > 0, NEW w \in Writes
    PROVE  LET t == Write(s, w.pos, w.len)
           IN  /\ Sound(t)
               /\ t.filesize = s.filesize /\ t.estimate_size = s.estimate_size
               /\ s.pieces \subseteq t.pieces
  <1> DEFINE fill  == WrittenPieces(s, w.pos, w.len)
             fresh == fill \ s.pieces
             t == Write(s, w.pos, w.len)
  <1>2. /\ s \in Storages /\ s.filesize = FileSize /\ s.estimate_size = FileSize
        /\ FileSize \in Nat
    BY FileAssumption DEF Sound, Storages
  <1>3. /\ t.pieces = s.pieces \cup fresh
        /\ t.blocks = s.blocks \cup { BlockOf(p) : p \in fill }
        /\ t.filesize = s.filesize /\ t.estimate_size = s.estimate_size
        /\ t = [filesize |-> t.filesize, estimate_size |-> t.estimate_size,
                completed_size |-> t.completed_size,
                blocks |-> t.blocks, pieces |-> t.pieces]
    <2>1. PICK P, B, c : /\ P = s.pieces \cup fresh
                         /\ B = s.blocks \cup { BlockOf(p) : p \in fill }
                         /\ t = [s EXCEPT !.pieces = P, !.blocks = B, !.completed_size = c]
      BY DEF Write
    <2> HIDE DEF t, fill, fresh
    <2>2. PICK u : u = [s EXCEPT !.pieces = P, !.blocks = B, !.completed_size = c]
      OBVIOUS
    <2>3. u = [filesize |-> s.filesize, estimate_size |-> s.estimate_size,
               completed_size |-> c, blocks |-> B, pieces |-> P]
      BY <1>2, <2>2, FilledIs
    <2>4. t = u
      BY <2>1, <2>2
    <2> QED
      BY <2>1, <2>3, <2>4
  <1>4. fill \subseteq PiecesOf(FileSize) /\ fresh \subseteq PiecesOf(FileSize)
    BY <1>2, WriteIsWhole
  <1>5. t.completed_size = s.completed_size + Bytes(s, fresh)
    BY <1>2, WriteAccounting
  <1>6. t \in Storages
    <2>1. { BlockOf(p) : p \in fill } \subseteq Nat
      <3>1. \A p \in fill : p \in Nat
        BY <1>4 DEF PiecesOf
      <3>2. \A p \in fill : BlockOf(p) \in Nat
        BY <3>1, PieceAssumption, DivBounds DEF BlockOf
      <3> QED
        BY <3>2
    <2>2. Bytes(s, fresh) \in Int
      BY <1>2, <1>4, BytesType
    <2>3. fresh \subseteq Nat
      BY <1>4 DEF PiecesOf
    <2> HIDE DEF fill, fresh, t
    <2>4. /\ t.pieces \in SUBSET Nat /\ t.blocks \in SUBSET Nat
          /\ t.completed_size \in Int
      BY <1>2, <1>3, <1>5, <2>1, <2>2, <2>3 DEF Storages
    <2>5. t.filesize \in {0, FileSize} /\ t.estimate_size \in 0..FileSize
      BY <1>2, <1>3 DEF Storages
    <2> QED
      BY <1>3, <2>4, <2>5 DEF Storages
  <1>7. t.completed_size = Bytes(t, t.pieces)
    <2>1. Bytes(s, s.pieces \cup fresh) = Bytes(s, s.pieces) + Bytes(s, fresh)
      BY <1>2, <1>4, BytesUnion DEF Sound
    <2>2. Bytes(t, t.pieces) = Bytes(s, s.pieces \cup fresh)
      BY <1>3 DEF Bytes
    <2> QED
      BY <1>5, <2>1, <2>2 DEF Sound
  <1>8. t.blocks = { BlockOf(p) : p \in t.pieces }
    BY <1>3 DEF Sound
  <1>9. t.pieces \subseteq PiecesOf(t.filesize)
    BY <1>2, <1>3, <1>4 DEF Sound
  <1> HIDE DEF t
  <1> QED
    BY <1>2, <1>3, <1>6, <1>7, <1>8, <1>9 DEF Sound, t

-----------------------------------------------------------------------------
(* The bound on the cache.                                                 *)

\* More readers never hold less.
LEMMA HoldSizeMonotone ==
    ASSUME NEW m \in Nat, NEW n \in 0..m
    PROVE  HoldSize(n) \in Nat /\ HoldSize(m) \in Nat /\ HoldSize(n) <= HoldSize(m)
  <1> DEFINE window == MAX_CACHE_LEFT + MAX_CACHE_LEN
  <1>1. window \in Nat /\ n \in Nat /\ n <= m
    BY CacheAssumption
  <1>2. window * n <= window * m /\ window * n \in Nat /\ window * m \in Nat
    <2> HIDE DEF window
    <2> QED
      BY <1>1
  <1> QED
    BY <1>2, CacheAssumption DEF HoldSize

\* clear_buffer_for() makes room: it frees at least the bytes that will be
\* written, or all but the head and the windows of the positions it holds.
LEMMA ClearBound ==
    ASSUME NEW s, Sound(s), NEW m \in Nat, NEW hold_pos \in Seq(Nat),
           Len(hold_pos) <= m, NEW len \in 0..MaxRecv,
           s.completed_size <= HoldSize(m) + MaxRecv
    PROVE  ClearBufferFor(s, len, hold_pos).completed_size + len
             <= HoldSize(m) + MaxRecv
  <1> DEFINE n    == Len(hold_pos)
             gone == Released(s, len, hold_pos)
             left == s.pieces \ gone
             room == HoldSize(m) + MaxRecv
             t    == ClearBufferFor(s, len, hold_pos)
  <1>1. /\ n \in 0..m /\ n \in Nat /\ hold_pos \in [1..n -> Nat]
        /\ len \in Nat /\ len <= MaxRecv /\ MaxRecv \in Nat
    BY FileAssumption
  <1>2. /\ s \in Storages /\ s.pieces \subseteq PiecesOf(s.filesize)
        /\ s.filesize \in Nat /\ s.completed_size \in Int
        /\ s.completed_size = Bytes(s, s.pieces)
        /\ s.blocks = { BlockOf(p) : p \in s.pieces }
    BY FileAssumption DEF Sound, Storages
  <1>3. HoldSize(n) \in Nat /\ HoldSize(m) \in Nat /\ HoldSize(n) <= HoldSize(m)
    BY <1>1, HoldSizeMonotone
  <1>5. CASE s.completed_size + len <= HoldSize(n)
    <2>1. t = s
      BY <1>5 DEF ClearBufferFor
    <2> QED
      BY <1>1, <1>2, <1>3, <1>5, <2>1
  <1>6. CASE ~(s.completed_size + len <= HoldSize(n))
    <2>1. t.completed_size = s.completed_size - Bytes(s, gone)
      BY <1>2, <1>6 DEF ClearBufferFor, Storages
    <2>2. gone \subseteq s.pieces /\ gone \subseteq PiecesOf(s.filesize)
      BY <1>2, ReleasedIsBuffered
    <2>3. Bytes(s, gone) \in Nat
      BY <1>2, <2>2, BytesNatural
    <2>4. CASE Bytes(s, gone) >= len
      <3> HIDE DEF gone, t
      <3> QED
        BY <1>1, <1>2, <1>3, <2>1, <2>3, <2>4 DEF t
    <2>5. CASE gone = Releasable(s, hold_pos)
      <3>1. Bytes(s, left) <= HoldSize(n)
        BY <1>1, <1>2, <2>5, HeldFits
      <3>2. Bytes(s, left) = Bytes(s, s.pieces) - Bytes(s, gone)
        BY <1>2, <2>2, BytesDifference
      <3> HIDE DEF left, gone, t
      <3> QED
        BY <1>1, <1>2, <1>3, <2>1, <2>3, <3>1, <3>2 DEF t
    <2> QED
      BY <1>1, <1>2, <2>4, <2>5, EnoughOrAll
  <1> QED
    BY <1>5, <1>6

\* storage_write() adds no more than its length.
LEMMA WriteBound ==
    ASSUME NEW s, Sound(s), s.filesize > 0, NEW w \in Writes
    PROVE  /\ Write(s, w.pos, w.len).completed_size \in Int
           /\ Write(s, w.pos, w.len).completed_size <= s.completed_size + w.len
  <1> DEFINE fresh == WrittenPieces(s, w.pos, w.len) \ s.pieces
  <1>1. /\ s \in Storages /\ s.filesize = FileSize /\ s.estimate_size = FileSize
        /\ s.pieces \subseteq PiecesOf(FileSize) /\ FileSize \in Nat
        /\ w.len \in Nat /\ s.completed_size \in Int
    BY FileAssumption DEF Sound, Storages, Writes
  <1>2. Write(s, w.pos, w.len).completed_size = s.completed_size + Bytes(s, fresh)
    BY <1>1, WriteAccounting
  <1>3. Bytes(s, fresh) <= w.len /\ Bytes(s, fresh) \in Nat
    <2>1. fresh \subseteq PiecesOf(FileSize)
      BY <1>1, WriteIsWhole
    <2> QED
      BY <1>1, <2>1, WriteFits, BytesNatural
  <1> HIDE DEF fresh
  <1> QED
    BY <1>1, <1>2, <1>3

-----------------------------------------------------------------------------
(* What is evicted.                                                        *)

\* A set of naturals that is not empty has a least one, and one below a
\* bound has a greatest one.
LEMMA LeastOne ==
    ASSUME NEW S, S \subseteq Nat, S # {}
    PROVE  \E x \in S : \A y \in S : x <= y
  <1>1. PICK m \in S : \A y \in S : ~(<<y, m>> \in OpToRel(<, Nat))
    BY NatLessThanWellFounded, WFMin
  <1>2. \A y \in S : ~(y < m)
    BY <1>1 DEF OpToRel
  <1> QED
    BY <1>2

\* A bounded set of naturals that is not empty has a greatest element.
LEMMA GreatestOne ==
    ASSUME NEW n \in Nat, NEW S, S \subseteq 0..n, S # {}
    PROVE  \E x \in S : \A y \in S : y <= x
  <1> DEFINE T == { n - y : y \in S }
  <1>0. \A y \in S : n - y \in Nat
    OBVIOUS
  <1>1. T \subseteq Nat /\ T # {}
    BY <1>0
  <1>2. \A y \in S : n - y \in T
    OBVIOUS
  <1>3. \A t \in T : \E y \in S : t = n - y
    OBVIOUS
  <1> HIDE DEF T
  <1>4. PICK t \in T : \A u \in T : t <= u
    BY <1>1, LeastOne
  <1>5. PICK x \in S : t = n - x
    BY <1>3, <1>4
  <1>6. \A y \in S : n - x <= n - y
    BY <1>2, <1>4, <1>5
  <1> QED
    BY <1>6

\* The pieces of one block never hold more than a block.
LEMMA OneBlock ==
    ASSUME NEW s, s.filesize \in Nat, NEW S, S \subseteq PiecesOf(s.filesize),
           NEW b \in Nat, \A p \in S : BlockOf(p) = b
    PROVE  Bytes(s, S) <= BLOCK
  <1> DEFINE lo == b * PIECES_PER_BLOCK
             hi == lo + (PIECES_PER_BLOCK - 1)
  <1>1. lo \in Nat /\ hi \in Int /\ PIECES_PER_BLOCK \in Nat \ {0}
    BY PieceAssumption
  <1>2. S \subseteq lo..hi
    <2>1. ASSUME NEW p \in S PROVE p \in lo..hi
      <3>1. p \in Nat /\ p \div PIECES_PER_BLOCK = b
        BY <2>1 DEF PiecesOf, BlockOf
      <3>2. lo <= p /\ p < lo + PIECES_PER_BLOCK
        BY <3>1, PieceAssumption, DivBounds
      <3> HIDE DEF lo
      <3> QED
        BY <1>1, <3>1, <3>2
    <2> QED
      BY <2>1
  <1> HIDE DEF lo
  <1>3. IsFiniteSet(lo..hi) /\ Cardinality(lo..hi) = PIECES_PER_BLOCK
    <2>1. ~(lo > hi) /\ hi - lo + 1 = PIECES_PER_BLOCK
      BY <1>1
    <2> HIDE DEF hi
    <2> QED
      BY SMTT(30), <1>1, <2>1, FS_Interval
  <1> HIDE DEF hi
  <1>4. Cardinality(S) \in Nat /\ Cardinality(S) <= PIECES_PER_BLOCK
    BY <1>2, <1>3, FS_Subset, PiecesFinite
  <1>5. PIECE * Cardinality(S) <= BLOCK /\ PIECE * Cardinality(S) \in Nat /\ BLOCK \in Nat
    BY <1>4, PieceAssumption DEF BLOCK
  <1>6. Bytes(s, S) \in Nat /\ Bytes(s, S) <= PIECE * Cardinality(S)
    BY BytesNatural
  <1> QED
    BY <1>5, <1>6

\* Making room stops at the block that brings what is released to len: all
\* it has released before that block is less.
LEMMA OneBlockMore ==
    ASSUME NEW s \in Storages, s.pieces \subseteq PiecesOf(s.filesize),
           NEW len \in Nat, NEW hold_pos
    PROVE  Bytes(s, Released(s, len, hold_pos)) <= len + BLOCK
  <1> DEFINE gone == Released(s, len, hold_pos)
             upto(b) == ReleasedUpTo(s, hold_pos, b)
             BlocksOf(S) == { BlockOf(p) : p \in S }
  <1> SUFFICES Bytes(s, gone) <= len + BLOCK
    OBVIOUS
  <1>1. /\ s.filesize \in Nat /\ gone \subseteq Releasable(s, hold_pos)
        /\ gone \subseteq PiecesOf(s.filesize) /\ BLOCK \in Nat
    BY FileAssumption, PieceAssumption DEF Storages, Released, Releasable, BLOCK
  <1>2. \A p \in PiecesOf(s.filesize) : BlockOf(p) \in 0..s.filesize
    <2>1. ASSUME NEW p \in PiecesOf(s.filesize) PROVE BlockOf(p) \in 0..s.filesize
      <3>1. p \in 0..s.filesize
        BY DEF PiecesOf
      <3>2. BlockOf(p) \in Nat /\ BlockOf(p) * PIECES_PER_BLOCK <= p
        BY SMTT(30), <1>1, <3>1, PieceAssumption, DivBounds DEF BlockOf
      <3>3. BlockOf(p) <= BlockOf(p) * PIECES_PER_BLOCK
        BY <3>2, PieceAssumption
      <3>4. BlockOf(p) * PIECES_PER_BLOCK \in Nat
        BY <3>2, PieceAssumption
      <3> QED
        BY <1>1, <3>1, <3>2, <3>3, <3>4
    <2> QED
      BY <2>1
  <1>3. \A S : S \subseteq gone => BlocksOf(S) \subseteq 0..s.filesize
    BY <1>1, <1>2
  <1>4. ASSUME NEW S, S \subseteq gone, S # {}
        PROVE  \E q \in S : \A p \in S : BlockOf(p) <= BlockOf(q)
    <2>1. BlocksOf(S) \subseteq 0..s.filesize /\ BlocksOf(S) # {}
      BY <1>3, <1>4
    <2>2. PICK x \in BlocksOf(S) : \A y \in BlocksOf(S) : y <= x
      BY <1>1, <2>1, GreatestOne
    <2> QED
      BY <2>2
  <1> HIDE DEF BlocksOf
  <1>5. CASE gone = {}
    <2>1. Bytes(s, {}) = 0
      BY FS_EmptySet, PieceAssumption DEF Bytes
    <2> HIDE DEF gone
    <2> QED
      BY <1>1, <1>5, <2>1
  <1>6. CASE gone # {}
    <2>1. PICK q \in gone : \A p \in gone : BlockOf(p) <= BlockOf(q)
      BY <1>4, <1>6
    <2> DEFINE lst == { p \in gone : BlockOf(p) = BlockOf(q) }
               rest == { p \in gone : BlockOf(p) # BlockOf(q) }
    <2>2. /\ gone = rest \cup lst /\ rest \cap lst = {}
          /\ rest \subseteq PiecesOf(s.filesize) /\ lst \subseteq PiecesOf(s.filesize)
          /\ BlockOf(q) \in Nat
      BY <1>1, <1>2
    <2>3. Bytes(s, lst) <= BLOCK
      BY <1>1, <2>2, OneBlock
    <2>4. Bytes(s, rest) <= len
      <3>1. CASE rest = {}
        <4>1. Bytes(s, {}) = 0
          BY FS_EmptySet, PieceAssumption DEF Bytes
        <4> QED
          BY <3>1, <4>1
      <3>2. CASE rest # {}
        <4>1. PICK r \in rest : \A p \in rest : BlockOf(p) <= BlockOf(r)
          BY <1>4, <3>2
        <4>2. BlockOf(r) < BlockOf(q) /\ BlockOf(r) \in Visited(s, hold_pos)
          BY <1>1, <1>2, <2>1, <4>1 DEF Releasable
        <4>3. Bytes(s, upto(BlockOf(r))) < len
          BY <2>1, <4>2 DEF Released
        <4>4. rest \subseteq upto(BlockOf(r)) /\ upto(BlockOf(r)) \subseteq PiecesOf(s.filesize)
          BY <1>1, <4>1 DEF ReleasedUpTo, Releasable
        <4>5. Bytes(s, rest) <= Bytes(s, upto(BlockOf(r)))
          BY <1>1, <4>4, BytesMonotone
        <4>6. Bytes(s, rest) \in Nat /\ Bytes(s, upto(BlockOf(r))) \in Nat
          BY <1>1, <2>2, <4>4, BytesNatural
        <4> HIDE DEF rest, upto
        <4> QED
          BY <4>3, <4>5, <4>6
      <3> QED
        BY <3>1, <3>2
    <2>5. /\ Bytes(s, rest) \in Nat /\ Bytes(s, lst) \in Nat
          /\ Bytes(s, rest \cup lst) = Bytes(s, rest) + Bytes(s, lst)
      BY <1>1, <2>2, BytesNatural, BytesUnion
    <2> HIDE DEF rest, lst, gone
    <2> QED
      BY <1>1, <2>2, <2>3, <2>4, <2>5
  <1> QED
    BY <1>5, <1>6

-----------------------------------------------------------------------------
(* What is read.                                                           *)

\* The first piece from pos on that is in no buffer.
FirstMissing(s, pos) ==
    CHOOSE g \in MissingFrom(s, pos) : \A h \in MissingFrom(s, pos) : g <= h

\* A storage that knows the size of its file.
Known(s) ==
    /\ s.filesize = FileSize /\ s.estimate_size = FileSize
    /\ s.pieces \subseteq PiecesOf(FileSize)

\* There is one: the array of blocks is not shorter than the file.
LEMMA SomeMissing ==
    ASSUME NEW s, Known(s), NEW pos \in 0..FileSize
    PROVE  /\ PieceAt(pos) \in Nat /\ FirstMissing(s, pos) \in Nat
           /\ FirstMissing(s, pos) >= PieceAt(pos)
           /\ FirstMissing(s, pos) \notin s.pieces
           /\ PieceAt(pos) \notin s.pieces => FirstMissing(s, pos) = PieceAt(pos)
  <1> DEFINE L == PieceLimit(s)
             a == PieceAt(pos)
             M == MissingFrom(s, pos)
  <1>1. FileSize \in Nat /\ pos \in Nat /\ pos <= FileSize
    BY FileAssumption
  <1>2. L \in Nat /\ FileSize <= L * PIECE /\ L * PIECE \in Nat
    BY RoomForTheFile, PieceAssumption DEF Known
  <1>3. a \in Nat /\ a * PIECE <= pos /\ a * PIECE \in Nat
    BY <1>1, PieceAssumption, DivBounds DEF PieceAt
  <1> HIDE DEF a, L
  <1>4. a <= L
    <2>1. a * PIECE <= L * PIECE
      BY <1>1, <1>2, <1>3
    <2> QED
      BY <1>2, <1>3, <2>1, TimesPiece, PieceAssumption
  <1>5. L \notin s.pieces
    BY <1>1, <1>2 DEF Known, PiecesOf
  <1>6. M = (a..L) \ s.pieces
    BY DEF M, MissingFrom, a, L
  <1> HIDE DEF M
  <1>7. M \subseteq Nat /\ L \in M
    BY <1>2, <1>3, <1>4, <1>5, <1>6
  <1>8. \E g \in M : \A h \in M : g <= h
    BY <1>7, LeastOne
  <1>9. FirstMissing(s, pos) \in M /\ \A h \in M : FirstMissing(s, pos) <= h
    BY <1>8 DEF FirstMissing, M
  <1> DEFINE g == FirstMissing(s, pos)
  <1> HIDE DEF g
  <1>10. g \in M /\ \A h \in M : g <= h
    BY <1>9 DEF g
  <1>11. g \in Nat /\ g >= a /\ g \notin s.pieces
    BY <1>2, <1>3, <1>6, <1>10
  <1>12. a \notin s.pieces => g = a
    <2> SUFFICES ASSUME a \notin s.pieces PROVE g = a
      OBVIOUS
    <2>1. a \in M
      BY <1>2, <1>3, <1>4, <1>6
    <2>2. g <= a
      BY <1>10, <2>1
    <2> QED
      BY <1>3, <1>11, <2>2
  <1> QED
    BY <1>3, <1>11, <1>12 DEF a, g

\* A read stops at the first missing piece.
LEMMA ReadStops ==
    ASSUME NEW s, Known(s), NEW pos \in 0..FileSize, NEW len
    PROVE  ReadLen(s, pos, len)
             = IF PieceAt(pos) \in s.pieces
               THEN Least(len, FirstMissing(s, pos) * PIECE - pos) ELSE 0
  <1>1. s.estimate_size # 0
    BY FileAssumption DEF Known
  <1>2. PieceAt(pos) \in s.pieces <=> FirstMissing(s, pos) # PieceAt(pos)
    BY SomeMissing
  <1> QED
    BY <1>1, <1>2 DEF ReadLen, FirstMissing

\* The run that is announced begins in a buffered piece p: at from, when p
\* is the piece from is in, or at the start of p, when that is the first one
\* behind a hole.
LEMMA RunIs ==
    ASSUME NEW s, Known(s), NEW from \in 0..(FileSize - 1),
           NEW q \in s.pieces, q >= PieceAt(from)
    PROVE  \E p \in s.pieces :
             LET c == CachedFrom(s, from)
             IN  /\ p >= PieceAt(from)
                 /\ \A r \in s.pieces : r >= PieceAt(from) => p <= r
                 /\ PieceAt(c.pos) = p /\ c.pos \in 0..(FileSize - 1)
                 /\ c.pos = (IF p = PieceAt(from) THEN from ELSE p * PIECE)
                 /\ c.len = Least(FirstMissing(s, c.pos) * PIECE, FileSize) - c.pos
                 /\ c.pos = from <=> p = PieceAt(from)
  <1> DEFINE a == PieceAt(from)
             found == { p \in s.pieces : p >= a }
             first == CHOOSE p \in found : \A r \in found : p <= r
             pos == IF first * PIECE < from THEN from ELSE first * PIECE
  <1>1. FileSize \in Nat /\ from \in Nat /\ from < FileSize
    BY FileAssumption
  <1>2. a \in Nat /\ a * PIECE <= from /\ from < a * PIECE + PIECE
    BY <1>1, PieceAssumption, DivBounds DEF PieceAt
  <1>3. found \subseteq Nat /\ q \in found /\ s.pieces \subseteq PiecesOf(FileSize)
    BY DEF Known, PiecesOf
  <1>4. first \in found /\ \A r \in found : first <= r
    BY <1>3, LeastOne
  <1> HIDE DEF first
  <1>5. first \in s.pieces /\ first >= a /\ first \in Nat /\ first * PIECE < FileSize
        /\ first * PIECE \in Nat /\ a * PIECE \in Nat
    BY <1>2, <1>3, <1>4, PieceAssumption DEF PiecesOf
  <1>6. CachedFrom(s, from)
          = [pos |-> pos, len |-> Least(FirstMissing(s, pos) * PIECE, FileSize) - pos]
    <2>1. s.estimate_size = FileSize /\ FileSize # 0 /\ found # {}
      BY <1>3, FileAssumption DEF Known
    <2> QED
      BY <2>1 DEF CachedFrom, FirstMissing, first
  <1> HIDE DEF a, found
  <1>7. CASE first = a
    <2>1. pos = from
      BY <1>1, <1>2, <1>5, <1>7
    <2> QED
      BY <1>1, <1>4, <1>5, <1>6, <1>7, <2>1 DEF a, found
  <1>8. CASE first # a
    <2>1. from < first * PIECE
      <3>1. a < first
        BY <1>2, <1>5, <1>8
      <3>2. (a + 1) * PIECE = a * PIECE + PIECE /\ (a + 1) * PIECE <= first * PIECE
        BY <1>2, <1>5, <3>1, TimesPiece, PieceAssumption
      <3>3. a * PIECE + PIECE <= first * PIECE
        BY <3>2
      <3> QED
        BY <1>1, <1>2, <1>5, <3>3, PieceAssumption
    <2>2. pos = first * PIECE
      BY <1>1, <1>5, <2>1
    <2>3. PieceAt(first * PIECE) = first
      BY <1>5, PieceAssumption DEF PieceAt
    <2> QED
      BY <1>1, <1>4, <1>5, <1>6, <1>8, <2>1, <2>2, <2>3 DEF a, found
  <1> QED
    BY <1>7, <1>8

\* What cached_from() announces and what storage_read() gives, for one
\* position: it is enough that the size of the file is known.
LEMMA ReadsAgree ==
    ASSUME NEW s, Known(s), NEW from \in 0..(FileSize - 1)
    PROVE  LET c == CachedFrom(s, from)
           IN  IF c.len > 0 /\ c.pos = from
               THEN /\ \A len \in 0..FileSize - from :
                          ReadLen(s, from, len) = Least(len, c.len)
                    /\ c.pos + c.len < FileSize => ReadLen(s, c.pos + c.len, 1) = 0
               ELSE /\ ReadLen(s, from, FileSize - from) = 0
                    /\ \A p \in s.pieces :
                          p * PIECE >= from => c.len > 0 /\ c.pos <= p * PIECE
  <1> DEFINE c == CachedFrom(s, from)
             a == PieceAt(from)
  <1>1. FileSize \in Nat /\ from \in Nat /\ from < FileSize /\ from \in 0..FileSize
    BY FileAssumption
  <1>2. a \in Nat /\ a * PIECE <= from /\ from < a * PIECE + PIECE
    BY <1>1, PieceAssumption, DivBounds DEF PieceAt
  <1>3. \A p \in s.pieces : p \in Nat /\ p * PIECE < FileSize /\ p * PIECE \in Nat
    BY PieceAssumption DEF Known, PiecesOf
  <1>4. ASSUME NEW p \in s.pieces, p * PIECE >= from PROVE p >= a
    <2>1. a * PIECE <= p * PIECE
      <3>1. a * PIECE \in Nat
        BY <1>2, PieceAssumption
      <3> HIDE DEF a
      <3> QED
        BY <1>1, <1>2, <1>3, <1>4, <3>1
    <2> QED
      BY <1>2, <1>3, <2>1, TimesPiece, PieceAssumption
  <1>5. CASE \A q \in s.pieces : ~(q >= a)
    <2>1. c = [pos |-> 0, len |-> 0]
      <3>1. s.estimate_size # 0
        BY FileAssumption DEF Known
      <3> QED
        BY <1>5, <3>1 DEF CachedFrom
    <2>2. a \notin s.pieces
      BY <1>2, <1>5
    <2>3. ReadLen(s, from, FileSize - from) = 0
      BY <1>1, <2>2, ReadStops
    <2> HIDE DEF c, a
    <2> QED
      BY <1>4, <1>5, <2>1, <2>3 DEF c
  <1>6. ASSUME NEW q \in s.pieces, q >= a
        PROVE  IF c.len > 0 /\ c.pos = from
               THEN /\ \A len \in 0..FileSize - from :
                          ReadLen(s, from, len) = Least(len, c.len)
                    /\ c.pos + c.len < FileSize => ReadLen(s, c.pos + c.len, 1) = 0
               ELSE /\ ReadLen(s, from, FileSize - from) = 0
                    /\ \A p \in s.pieces :
                          p * PIECE >= from => c.len > 0 /\ c.pos <= p * PIECE
    <2>1. PICK p \in s.pieces :
             /\ p >= a
             /\ \A r \in s.pieces : r >= a => p <= r
             /\ PieceAt(c.pos) = p /\ c.pos \in 0..(FileSize - 1)
             /\ c.pos = (IF p = a THEN from ELSE p * PIECE)
             /\ c.len = Least(FirstMissing(s, c.pos) * PIECE, FileSize) - c.pos
             /\ c.pos = from <=> p = a
      BY <1>6, RunIs
    <2> DEFINE g == FirstMissing(s, c.pos)
               end == g * PIECE
    <2>2. /\ g \in Nat /\ g > p /\ g \notin s.pieces /\ c.pos \in 0..FileSize
      <3>1. c.pos \in 0..FileSize
        BY <1>1, <2>1
      <3>2. g \in Nat /\ g >= p /\ g \notin s.pieces
        BY <2>1, <3>1, SomeMissing
      <3> QED
        BY <1>3, <2>1, <3>1, <3>2
    <2>3. c.len = Least(end, FileSize) - c.pos
      BY <2>1
    <2>4. end \in Nat /\ c.pos < end
      <3>1. p \in Nat /\ p * PIECE \in Nat /\ end \in Nat
        BY <1>3, <2>1, <2>2, PieceAssumption
      <3>2. p * PIECE + PIECE <= end
        <4>1. (p + 1) * PIECE = p * PIECE + PIECE
          BY <3>1, PieceAssumption
        <4>2. p + 1 \in Nat /\ p + 1 <= g /\ g \in Nat
          BY <2>2, <3>1
        <4> HIDE DEF g
        <4>3. (p + 1) * PIECE <= g * PIECE
          BY <4>2, TimesPiece, PieceAssumption
        <4> QED
          BY <4>1, <4>3
      <3>3. c.pos < p * PIECE + PIECE
        BY <1>1, <1>2, <2>1, <3>1, PieceAssumption
      <3> HIDE DEF c, end, g
      <3> QED
        BY <2>2, <3>1, <3>2, <3>3, PieceAssumption
    <2> HIDE DEF c, end, g
    <2>5. c.len \in Nat /\ c.len > 0 /\ c.pos \in Nat
      BY <1>1, <2>1, <2>3, <2>4 DEF Least
    <2>6. CASE p = a
      <3>1. c.pos = from /\ a \in s.pieces
        BY <2>1, <2>6
      <3>2. ASSUME NEW len \in 0..(FileSize - from)
            PROVE  ReadLen(s, from, len) = Least(len, c.len)
        <4>1. ReadLen(s, from, len) = Least(len, end - from)
          BY <1>1, <3>1, ReadStops DEF a, end, g
        <4> QED
          BY <1>1, <2>3, <2>4, <2>5, <3>1, <4>1 DEF Least
      <3>3. ASSUME c.pos + c.len < FileSize PROVE ReadLen(s, c.pos + c.len, 1) = 0
        <4>1. c.pos + c.len = end /\ end \in 0..FileSize
          BY <1>1, <2>3, <2>4, <2>5, <3>3 DEF Least
        <4>2. PieceAt(end) = g
          BY <2>2, PieceAssumption DEF PieceAt, end
        <4> QED
          BY <2>2, <4>1, <4>2, ReadStops
      <3> QED
        BY <2>5, <3>1, <3>2, <3>3
    <2>7. CASE p # a
      <3>1. c.pos # from /\ c.pos = p * PIECE
        BY <2>1, <2>7
      <3>2. a \notin s.pieces
        <4> SUFFICES ASSUME a \in s.pieces PROVE FALSE
          OBVIOUS
        <4>1. a >= a
          BY <1>2
        <4>2. p <= a /\ p >= a
          BY <2>1, <4>1
        <4> QED
          BY <1>2, <1>3, <2>7, <4>2
      <3>3. ReadLen(s, from, FileSize - from) = 0
        BY <1>1, <3>2, ReadStops DEF a
      <3>4. ASSUME NEW r \in s.pieces, r * PIECE >= from
            PROVE  c.len > 0 /\ c.pos <= r * PIECE
        <4>1. p <= r
          BY <1>4, <2>1, <3>4
        <4>2. p \in Nat /\ r \in Nat
          BY <1>3
        <4>3. p * PIECE <= r * PIECE
          BY <4>1, <4>2, TimesPiece, PieceAssumption
        <4> QED
          BY <2>5, <3>1, <4>3
      <3> QED
        BY <3>1, <3>3, <3>4
    <2> QED
      BY <2>6, <2>7
  <1> QED
    BY <1>5, <1>6
=============================================================================
