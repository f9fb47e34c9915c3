----------------------------- MODULE TaskProofs -----------------------------
(***************************************************************************)
(* Proofs about the download task, for every size of piece, window and     *)
(* file and every number of readers.  Each function of the task has        *)
(* lemmas that say what it does to a task that satisfies TaskOK; its loops *)
(* are recursive functions, of which the lemmas speak step by step.        *)
(***************************************************************************)
EXTENDS Task, PieceCacheProofs, SequenceTheorems

-----------------------------------------------------------------------------
(* Sequences.                                                              *)

\* Removing an element moves those behind it up by one.
LEMMA RemoveIs ==
    ASSUME NEW S, NEW q \in Seq(S), NEW i \in Indexes(q)
    PROVE  LET r == RemoveIndex(q, i)
           IN  /\ r \in Seq(S) /\ Len(r) = Len(q) - 1
               /\ \A j \in Indexes(r) : r[j] = IF j < i THEN q[j] ELSE q[j + 1]
  <1> DEFINE a == SubSeq(q, 1, i - 1)
             b == SubSeq(q, i + 1, Len(q))
  <1>1. Len(q) \in Nat /\ i \in 1..Len(q) /\ \A j \in 1..Len(q) : q[j] \in S
    BY DEF Indexes
  <1>2. /\ a \in Seq(S) /\ Len(a) = i - 1
        /\ \A j \in 1..i - 1 : a[j] = q[j]
    BY <1>1, SubSeqProperties
  <1>3. /\ b \in Seq(S) /\ Len(b) = Len(q) - i
        /\ \A j \in 1..Len(q) - i : b[j] = q[i + j]
    BY <1>1, SubSeqProperties
  <1> HIDE DEF a, b
  <1>4. /\ a \o b \in Seq(S) /\ Len(a \o b) = Len(a) + Len(b)
        /\ \A j \in 1..Len(a) + Len(b) :
              (a \o b)[j] = IF j <= Len(a) THEN a[j] ELSE b[j - Len(a)]
    BY <1>2, <1>3, ConcatProperties
  <1>5. ASSUME NEW j \in 1..Len(q) - 1
        PROVE  (a \o b)[j] = IF j < i THEN q[j] ELSE q[j + 1]
    <2>1. j \in 1..Len(a) + Len(b) /\ Len(a) = i - 1
      BY <1>1, <1>2, <1>3
    <2>2. CASE j < i
      BY <1>1, <1>2, <1>4, <2>1, <2>2
    <2>3. CASE ~(j < i)
      <3>1. (a \o b)[j] = b[j - (i - 1)]
        BY <1>1, <1>4, <2>1, <2>3
      <3>2. j - (i - 1) \in 1..Len(q) - i /\ i + (j - (i - 1)) = j + 1
        BY <1>1, <2>3
      <3> QED
        BY <1>3, <2>3, <3>1, <3>2
    <2> QED
      BY <2>2, <2>3
  <1>6. RemoveIndex(q, i) = a \o b
    BY DEF RemoveIndex, a, b
  <1>7. Len(a) + Len(b) = Len(q) - 1
    BY <1>1, <1>2, <1>3
  <1> QED
    BY <1>4, <1>5, <1>6, <1>7 DEF Indexes

\* Each element of what is left was there before, at another index for
\* another element; and each one that was there is left but the i-th.
LEMMA RemoveKeeps ==
    ASSUME NEW S, NEW q \in Seq(S), NEW i \in Indexes(q)
    PROVE  LET r == RemoveIndex(q, i)
               from(j) == IF j < i THEN j ELSE j + 1
           IN  /\ \A j \in Indexes(r) : /\ from(j) \in Indexes(q) \ {i}
                                        /\ r[j] = q[from(j)]
               /\ \A j, k \in Indexes(r) : j # k => from(j) # from(k)
               /\ \A j \in Indexes(q) \ {i} : \E k \in Indexes(r) : r[k] = q[j]
  <1> DEFINE r == RemoveIndex(q, i)
  <1>1. /\ r \in Seq(S) /\ Len(r) = Len(q) - 1
        /\ \A j \in Indexes(r) : r[j] = IF j < i THEN q[j] ELSE q[j + 1]
    BY RemoveIs
  <1>2. Len(q) \in Nat /\ i \in 1..Len(q)
    BY DEF Indexes
  <1> HIDE DEF r
  <1>3. ASSUME NEW j \in Indexes(q) \ {i}
        PROVE  \E k \in Indexes(r) : r[k] = q[j]
    <2>1. CASE j < i
      BY <1>1, <1>2, <2>1 DEF Indexes
    <2>2. CASE j > i
      <3>1. j - 1 \in Indexes(r) /\ ~(j - 1 < i) /\ (j - 1) + 1 = j
        BY <1>1, <1>2, <2>2 DEF Indexes
      <3> QED
        BY <1>1, <3>1
    <2> QED
      BY <1>2, <2>1, <2>2 DEF Indexes
  <1>4. \A j \in Indexes(r) :
           LET from == IF j < i THEN j ELSE j + 1
           IN  from \in Indexes(q) \ {i} /\ r[j] = q[from]
    BY <1>1, <1>2 DEF Indexes
  <1>5. \A j, k \in Indexes(r) :
           j # k => (IF j < i THEN j ELSE j + 1) # (IF k < i THEN k ELSE k + 1)
    BY <1>1, <1>2 DEF Indexes
  <1> QED
    BY <1>3, <1>4, <1>5 DEF r

-----------------------------------------------------------------------------
(* What every function of the task keeps.                                  *)

TaskRecords == [st : Storages, readers : Seq(ReaderRecords),
                pipes : Seq(PipeRecords), code : {0, 502}]

\* A reader is not past its end, a session knows its end as soon as the size
\* of the file is known, and is sent nothing before.
ReaderOK(t, r) ==
    /\ r.end = 0 \/ r.at <= r.end
    /\ r.id \in Readers /\ t.st.filesize > 0 => r.end # 0
    /\ t.st.filesize = 0 => r.unsent = 0

\* A pipe stands where a piece or the file ends, and its reply has told the
\* size of the file when it has begun.
PipeOK(t, p) ==
    /\ p.pos % PIECE = 0 \/ p.pos = FileSize
    /\ p.opened => t.st.filesize > 0

TaskOK(t) ==
    /\ t \in TaskRecords
    /\ Sound(t.st) /\ t.st.estimate_size = t.st.filesize
    /\ \A i \in Indexes(t.readers) : ReaderOK(t, t.readers[i])
    /\ \A i, j \in Indexes(t.readers) : i # j => t.readers[i].id # t.readers[j].id
    /\ \A i \in Indexes(t.pipes) : PipeOK(t, t.pipes[i])

\* What TaskOK says of the parts of a task.
LEMMA TaskParts ==
    ASSUME NEW t, TaskOK(t)
    PROVE  /\ t = [st |-> t.st, readers |-> t.readers, pipes |-> t.pipes,
                   code |-> t.code]
           /\ t.readers \in Seq(ReaderRecords) /\ t.pipes \in Seq(PipeRecords)
           /\ t.code \in {0, 502} /\ FileSize \in Nat \ {0}
           /\ t.st \in Storages /\ t.st.filesize \in {0, FileSize}
           /\ t.st.estimate_size = t.st.filesize
           /\ t.st.filesize > 0 => Known(t.st)
           /\ t.st.filesize = 0 => t.st.pieces = {}
  <1>1. t \in TaskRecords /\ Sound(t.st) /\ t.st.estimate_size = t.st.filesize
    BY DEF TaskOK
  <1>2. /\ t = [st |-> t.st, readers |-> t.readers, pipes |-> t.pipes,
                code |-> t.code]
        /\ t.readers \in Seq(ReaderRecords) /\ t.pipes \in Seq(PipeRecords)
        /\ t.code \in {0, 502} /\ t.st \in Storages
    BY <1>1 DEF TaskRecords
  <1>3. t.st.filesize \in {0, FileSize} /\ FileSize \in Nat \ {0}
    BY <1>2, FileAssumption DEF Storages
  <1>4. t.st.filesize > 0 => Known(t.st)
    BY <1>1, <1>3 DEF Sound, Known
  <1>5. t.st.filesize = 0 => t.st.pieces = {}
    BY <1>1, PieceAssumption DEF Sound, PiecesOf
  <1> QED
    BY <1>1, <1>2, <1>3, <1>4, <1>5

\* What TaskOK says of one reader.
LEMMA ReaderParts ==
    ASSUME NEW t, TaskOK(t)
    PROVE  /\ Len(t.readers) \in Nat /\ t.readers \in Seq(ReaderRecords)
           /\ \A k \in 1..Len(t.readers) :
                 /\ t.readers[k] \in ReaderRecords
                 /\ t.readers[k].at \in 0..FileSize /\ t.readers[k].end \in 0..FileSize
                 /\ t.readers[k].unsent \in 0..2 * LIMIT
                 /\ t.readers[k].id \in Readers \cup Preloaders
                 /\ ReaderOK(t, t.readers[k])
  <1>1. t.readers \in Seq(ReaderRecords)
    BY TaskParts
  <1>2. Len(t.readers) \in Nat /\ \A k \in 1..Len(t.readers) : t.readers[k] \in ReaderRecords
    BY <1>1
  <1>3. \A r \in ReaderRecords : /\ r.at \in 0..FileSize /\ r.end \in 0..FileSize
                                 /\ r.unsent \in 0..2 * LIMIT
                                 /\ r.id \in Readers \cup Preloaders
    BY DEF ReaderRecords
  <1>4. \A k \in 1..Len(t.readers) : ReaderOK(t, t.readers[k])
    BY DEF TaskOK, Indexes
  <1> QED
    BY <1>1, <1>2, <1>3, <1>4

\* Pipes are opened at the tail, at the start of a piece at which none of
\* those before it stands.
GrownPipes(p, q) ==
    /\ q \in Seq(PipeRecords) /\ Len(p) <= Len(q)
    /\ \A i \in Indexes(p) : q[i] = p[i]
    /\ \A j \in Indexes(q) \ Indexes(p) :
          /\ q[j].pos % PIECE = 0 /\ ~q[j].opened
          /\ \A i \in 1..j - 1 : q[i].pos # q[j].pos

\* Dispatching readers changes a task in no other way.
Grown(t, u) ==
    /\ u = [st |-> t.st, readers |-> t.readers, pipes |-> u.pipes, code |-> t.code]
    /\ GrownPipes(t.pipes, u.pipes)

HasPipe(t, pos) == \E j \in Indexes(t.pipes) : t.pipes[j].pos = pos

\* Growing pipes in no step or in several is growing.
LEMMA GrownSelf ==
    ASSUME NEW t, TaskOK(t)
    PROVE  Grown(t, t)
  BY TaskParts DEF Grown, GrownPipes

\* Growing twice is growing.
LEMMA GrownPipesTwice ==
    ASSUME NEW p \in Seq(PipeRecords), NEW q, NEW r,
           GrownPipes(p, q), GrownPipes(q, r)
    PROVE  GrownPipes(p, r)
  <1>1. /\ Len(p) \in Nat /\ Len(q) \in Nat /\ Len(r) \in Nat
        /\ Len(p) <= Len(q) /\ Len(q) <= Len(r)
        /\ q \in Seq(PipeRecords) /\ r \in Seq(PipeRecords)
    BY DEF GrownPipes
  <1>2. \A i \in Indexes(p) : r[i] = p[i]
    BY <1>1 DEF GrownPipes, Indexes
  <1>3. ASSUME NEW j \in Indexes(r) \ Indexes(p)
        PROVE  /\ r[j].pos % PIECE = 0 /\ ~r[j].opened
               /\ \A i \in 1..j - 1 : r[i].pos # r[j].pos
    <2>1. CASE j \in Indexes(q)
      <3>1. r[j] = q[j] /\ \A i \in 1..j - 1 : r[i] = q[i]
        BY <1>1, <2>1 DEF GrownPipes, Indexes
      <3>2. /\ q[j].pos % PIECE = 0 /\ ~q[j].opened
            /\ \A i \in 1..j - 1 : q[i].pos # q[j].pos
        BY <1>3, <2>1 DEF GrownPipes
      <3> QED
        BY <3>1, <3>2
    <2>2. CASE j \notin Indexes(q)
      BY <1>3, <2>2 DEF GrownPipes
    <2> QED
      BY <2>1, <2>2
  <1> QED
    BY <1>1, <1>2, <1>3 DEF GrownPipes

\* Growing twice is growing.
LEMMA GrownTwice ==
    ASSUME NEW t, TaskOK(t), NEW u, NEW v, Grown(t, u), Grown(u, v)
    PROVE  Grown(t, v)
  <1>1. t.pipes \in Seq(PipeRecords)
    BY TaskParts
  <1>2. /\ u = [st |-> t.st, readers |-> t.readers, pipes |-> u.pipes, code |-> t.code]
        /\ v = [st |-> u.st, readers |-> u.readers, pipes |-> v.pipes, code |-> u.code]
    BY DEF Grown
  <1>3. u.st = t.st /\ u.readers = t.readers /\ u.code = t.code
    BY <1>2
  <1>4. GrownPipes(t.pipes, v.pipes)
    BY <1>1, GrownPipesTwice DEF Grown
  <1> QED
    BY <1>2, <1>3, <1>4 DEF Grown

\* What a task keeps it keeps when pipes are opened, and no pipe is lost.
LEMMA GrownKeeps ==
    ASSUME NEW t, TaskOK(t), NEW u, Grown(t, u)
    PROVE  /\ TaskOK(u)
           /\ u.st = t.st /\ u.readers = t.readers /\ u.code = t.code
           /\ \A pos : HasPipe(t, pos) => HasPipe(u, pos)
  <1>1. /\ t.readers \in Seq(ReaderRecords) /\ t.pipes \in Seq(PipeRecords)
        /\ t.code \in {0, 502} /\ t.st \in Storages
    BY TaskParts
  <1>2. u = [st |-> t.st, readers |-> t.readers, pipes |-> u.pipes, code |-> t.code]
    BY DEF Grown
  <1>3. u.st = t.st /\ u.readers = t.readers /\ u.code = t.code
    BY <1>2
  <1>4. /\ u.pipes \in Seq(PipeRecords) /\ Len(t.pipes) <= Len(u.pipes)
        /\ Len(t.pipes) \in Nat /\ Len(u.pipes) \in Nat
        /\ \A i \in Indexes(t.pipes) : u.pipes[i] = t.pipes[i]
        /\ Indexes(t.pipes) \subseteq Indexes(u.pipes)
    BY <1>1 DEF Grown, GrownPipes, Indexes
  <1>5. u \in TaskRecords
    BY <1>1, <1>2, <1>4 DEF TaskRecords
  <1>6. ASSUME NEW i \in Indexes(u.pipes) PROVE PipeOK(u, u.pipes[i])
    <2>1. CASE i \in Indexes(t.pipes)
      BY <1>3, <1>4, <2>1 DEF TaskOK, PipeOK
    <2>2. CASE i \notin Indexes(t.pipes)
      BY <2>2 DEF Grown, GrownPipes, PipeOK
    <2> QED
      BY <2>1, <2>2
  <1>7. \A i \in Indexes(u.readers) : ReaderOK(u, u.readers[i])
    BY <1>3 DEF TaskOK, ReaderOK
  <1>8. TaskOK(u)
    BY <1>3, <1>5, <1>6, <1>7 DEF TaskOK
  <1>9. \A pos : HasPipe(t, pos) => HasPipe(u, pos)
    BY <1>4 DEF HasPipe
  <1> QED
    BY <1>3, <1>8, <1>9

-----------------------------------------------------------------------------
(* dispatch_reader().                                                      *)

\* The start of the piece a position is in.
LEMMA PieceStartIs ==
    ASSUME NEW pos \in Nat
    PROVE  /\ PieceStart(pos) \in 0..pos /\ PieceStart(pos) % PIECE = 0
           /\ pos % PIECE = 0 => PieceStart(pos) = pos
  <1>1. /\ pos \div PIECE \in Nat /\ pos % PIECE \in 0..(PIECE - 1)
        /\ (pos \div PIECE) * PIECE <= pos
        /\ pos = (pos \div PIECE) * PIECE + (pos % PIECE)
    BY PieceAssumption, DivBounds
  <1> DEFINE q == pos \div PIECE
  <1>2. PieceStart(pos) = q * PIECE
    BY <1>1, PieceAssumption DEF PieceStart
  <1>3. q * PIECE \in Nat /\ (q * PIECE) % PIECE = 0
    BY <1>1, PieceAssumption
  <1> HIDE DEF q
  <1>4. PieceStart(pos) \in 0..pos
    BY <1>1, <1>2, <1>3 DEF q
  <1> QED
    BY <1>2, <1>3, <1>4 DEF PieceStart

\* What cached_from() finds at a position is the cached run that begins
\* there, which ends in the file.
LEMMA RunAt ==
    ASSUME NEW s, Known(s), NEW at \in 0..FileSize,
           CachedFrom(s, at).pos = at, CachedFrom(s, at).len > 0
    PROVE  /\ PieceAt(at) \in s.pieces
           /\ CachedFrom(s, at).len \in Nat /\ at + CachedFrom(s, at).len <= FileSize
  <1> DEFINE c == CachedFrom(s, at)
             g == FirstMissing(s, at)
  <1>1. FileSize \in Nat \ {0} /\ s.estimate_size = FileSize /\ at \in Nat
    BY FileAssumption DEF Known
  <1>2. c.len = Least(g * PIECE, FileSize) - at
    <2>1. CASE { p \in s.pieces : p >= PieceAt(at) } = {}
      BY <1>1, <2>1 DEF CachedFrom
    <2>2. CASE { p \in s.pieces : p >= PieceAt(at) } # {}
      BY <1>1, <2>2 DEF CachedFrom, FirstMissing
    <2> QED
      BY <2>1, <2>2
  <1>3. g \in Nat /\ (PieceAt(at) \notin s.pieces => g = PieceAt(at))
    BY SomeMissing
  <1>4. PieceAt(at) * PIECE <= at /\ PieceAt(at) \in Nat
    BY <1>1, EndPiece
  <1> HIDE DEF g
  <1>5. g * PIECE \in Nat
    BY <1>3, PieceAssumption
  <1>6. c.len > 0
    OBVIOUS
  <1> HIDE DEF c
  <1>7. c.len \in Nat /\ at + c.len <= FileSize /\ at < g * PIECE
    BY <1>1, <1>2, <1>5, <1>6 DEF Least
  <1>8. PieceAt(at) \in s.pieces
    <2>1. PieceAt(at) * PIECE \in Nat
      BY <1>4, PieceAssumption
    <2> QED
      BY <1>1, <1>3, <1>4, <1>5, <1>7, <2>1
  <1> QED
    BY <1>7, <1>8 DEF c

\* A pipe opened at the tail, where none stands.
LEMMA AppendGrows ==
    ASSUME NEW t, TaskOK(t), NEW p \in PipeRecords, NEW u,
           p.pos % PIECE = 0, ~p.opened, ~HasPipe(t, p.pos),
           u = [t EXCEPT !.pipes = Append(@, p)]
    PROVE  Grown(t, u) /\ HasPipe(u, p.pos)
  <1> DEFINE q == Append(t.pipes, p)
  <1>1. t \in TaskRecords /\ t.pipes \in Seq(PipeRecords) /\ Len(t.pipes) \in Nat
    BY DEF TaskOK, TaskRecords
  <1>2. u = [st |-> t.st, readers |-> t.readers, pipes |-> q, code |-> t.code]
    <2>1. /\ t = [st |-> t.st, readers |-> t.readers, pipes |-> t.pipes, code |-> t.code]
          /\ u = [t EXCEPT !.pipes = q]
      BY TaskParts
    <2> HIDE DEF q
    <2> QED
      BY <2>1
  <1>3. /\ q \in Seq(PipeRecords) /\ Len(q) = Len(t.pipes) + 1
        /\ \A i \in Indexes(t.pipes) : q[i] = t.pipes[i]
        /\ q[Len(t.pipes) + 1] = p
    BY <1>1 DEF Indexes
  <1> HIDE DEF q
  <1>4. u.pipes = q
    BY <1>2
  <1>5. GrownPipes(t.pipes, q)
    <2>1. ASSUME NEW j \in Indexes(q) \ Indexes(t.pipes)
          PROVE  /\ q[j].pos % PIECE = 0 /\ ~q[j].opened
                 /\ \A i \in 1..j - 1 : q[i].pos # q[j].pos
      <3>1. j = Len(t.pipes) + 1
        BY <1>1, <1>3 DEF Indexes
      <3>2. q[j] = p /\ 1..j - 1 = Indexes(t.pipes)
        BY <1>1, <1>3, <3>1 DEF Indexes
      <3> QED
        BY <1>3, <3>2 DEF HasPipe
    <2> QED
      BY <1>1, <1>3, <2>1 DEF GrownPipes
  <1>6. HasPipe(u, p.pos)
    <2>1. Len(t.pipes) + 1 \in Indexes(q)
      BY <1>1, <1>3 DEF Indexes
    <2> QED
      BY <1>3, <1>4, <2>1 DEF HasPipe
  <1> QED
    BY <1>2, <1>4, <1>5, <1>6 DEF Grown

\* Dispatching a reader opens one pipe or none.
LEMMA DispatchGrows ==
    ASSUME NEW t, TaskOK(t), NEW at \in 0..FileSize
    PROVE  Grown(t, DispatchReader(t, at))
  <1> DEFINE s       == t.st
             end     == Least(at + MAX_CACHE_LEN, s.estimate_size)
             cached  == CachedFrom(s, at)
             ready   == IF end > 0 /\ cached.pos = at /\ cached.len > 0
                        THEN cached.len ELSE 0
             enough  == end > 0 /\ cached.pos = at
                          /\ cached.len >= MAX_CACHE_LEN \div 2
             missing == at + ready
             from    == PieceStart(missing)
             p == [pos |-> from, req_pos |-> from, opened |-> FALSE,
                   req_len |-> IF end > 0 THEN end - from ELSE 0]
             none == \/ enough
                     \/ missing > 0 /\ missing = end
                     \/ \E i \in Indexes(t.pipes) : t.pipes[i].pos = from
                     \/ from >= end /\ end # 0
                     \/ t.code # 0
  <1>1. DispatchReader(t, at) = IF none THEN t ELSE [t EXCEPT !.pipes = Append(@, p)]
    BY DEF DispatchReader
  <1>2. /\ FileSize \in Nat \ {0} /\ s.estimate_size \in {0, FileSize} /\ at \in Nat
        /\ s.estimate_size > 0 => Known(s)
        /\ MAX_CACHE_LEN \in Nat
    BY TaskParts, CacheAssumption
  <1>3. end \in 0..FileSize /\ (end > 0 => s.estimate_size > 0)
    BY <1>2 DEF Least
  <1>4. ready \in Nat /\ missing \in 0..FileSize
    <2>1. CASE end > 0 /\ cached.pos = at /\ cached.len > 0
      <3>1. cached.len \in Nat /\ at + cached.len <= FileSize
        BY <1>2, <1>3, <2>1, RunAt
      <3> HIDE DEF cached, end
      <3> QED
        BY <1>2, <2>1, <3>1
    <2>2. CASE ~(end > 0 /\ cached.pos = at /\ cached.len > 0)
      BY <1>2, <2>2
    <2> QED
      BY <2>1, <2>2
  <1> HIDE DEF s, end, cached, ready
  <1>5. from \in 0..FileSize /\ from % PIECE = 0
    <2>1. from \in 0..missing /\ from % PIECE = 0
      BY <1>2, <1>4, PieceStartIs
    <2> HIDE DEF from, missing
    <2> QED
      BY <1>2, <1>4, <2>1
  <1>6. CASE none
    BY <1>1, <1>6, GrownSelf
  <1>7. CASE ~none
    <2>1. p \in PipeRecords
      <3>1. IF end > 0 THEN from < end ELSE TRUE
        BY <1>3, <1>5, <1>7
      <3> HIDE DEF from
      <3>2. (IF end > 0 THEN end - from ELSE 0) \in 0..FileSize
        BY <1>2, <1>3, <1>5, <3>1
      <3> QED
        BY <1>5, <3>2 DEF PipeRecords
    <2>2. ~HasPipe(t, from) /\ p.pos = from /\ ~p.opened
      BY <1>7 DEF HasPipe
    <2> HIDE DEF from, p
    <2> QED
      BY <1>1, <1>5, <1>7, <2>1, <2>2, AppendGrows
  <1> QED
    BY <1>6, <1>7

\* A reader that finds nothing in the cache is given a pipe at the start of
\* the piece it needs.  With a window of less than two bytes it would be content with none.
LEMMA DispatchAsks ==
    ASSUME NEW t, TaskOK(t), NEW at \in 0..FileSize, at < FileSize,
           PieceAt(at) \notin t.st.pieces, t.code = 0, MAX_CACHE_LEN >= 2
    PROVE  HasPipe(DispatchReader(t, at), PieceStart(at))
  <1> DEFINE s       == t.st
             end     == Least(at + MAX_CACHE_LEN, s.estimate_size)
             cached  == CachedFrom(s, at)
             ready   == IF end > 0 /\ cached.pos = at /\ cached.len > 0
                        THEN cached.len ELSE 0
             enough  == end > 0 /\ cached.pos = at
                          /\ cached.len >= MAX_CACHE_LEN \div 2
             missing == at + ready
             from    == PieceStart(missing)
             p == [pos |-> from, req_pos |-> from, opened |-> FALSE,
                   req_len |-> IF end > 0 THEN end - from ELSE 0]
             none == \/ enough
                     \/ missing > 0 /\ missing = end
                     \/ \E i \in Indexes(t.pipes) : t.pipes[i].pos = from
                     \/ from >= end /\ end # 0
                     \/ t.code # 0
  <1>1. DispatchReader(t, at) = IF none THEN t ELSE [t EXCEPT !.pipes = Append(@, p)]
    BY DEF DispatchReader
  <1>2. /\ FileSize \in Nat \ {0} /\ s.estimate_size \in {0, FileSize} /\ at \in Nat
        /\ s.estimate_size > 0 => Known(s)
        /\ MAX_CACHE_LEN \in Nat /\ MAX_CACHE_LEN \div 2 > 0
    BY TaskParts, CacheAssumption
  <1>3. /\ end \in Nat /\ (end > 0 => s.estimate_size > 0 /\ at < end)
    BY <1>2 DEF Least
  <1>4. ~(end > 0 /\ cached.pos = at /\ cached.len > 0)
    BY <1>2, <1>3, RunAt
  <1>5. ready = 0 /\ missing = at /\ from = PieceStart(at) /\ from \in 0..at
    <2>1. ready = 0
      BY <1>4
    <2>2. missing = at
      BY <1>2, <2>1
    <2> HIDE DEF missing
    <2> QED
      BY <1>2, <2>1, <2>2, PieceStartIs
  <1>6. ~enough
    <2> SUFFICES ASSUME enough PROVE FALSE
      OBVIOUS
    <2>1. Known(s)
      BY <1>2, <1>3
    <2>2. cached.len \in Int
      <3>1. cached.pos = at /\ s.estimate_size # 0
        BY <1>3
      <3>2. CASE { q \in s.pieces : q >= PieceAt(at) } = {}
        BY <3>1, <3>2 DEF CachedFrom
      <3>3. CASE { q \in s.pieces : q >= PieceAt(at) } # {}
        <4>1. cached.len = Least(FirstMissing(s, at) * PIECE, s.estimate_size) - at
          BY <3>1, <3>3 DEF CachedFrom, FirstMissing
        <4>2. FirstMissing(s, at) \in Nat
          BY <2>1, SomeMissing
        <4> QED
          BY <1>2, <4>1, <4>2, PieceAssumption DEF Least
      <3> QED
        BY <3>2, <3>3
    <2> HIDE DEF cached, end
    <2> QED
      BY <1>2, <1>4, <2>2
  <1> HIDE DEF end, cached, ready, enough, missing, from
  <1>7. CASE none
    <2>1. \E i \in Indexes(t.pipes) : t.pipes[i].pos = from
      BY <1>2, <1>3, <1>5, <1>6, <1>7
    <2> QED
      BY <1>1, <1>5, <1>7, <2>1 DEF HasPipe
  <1>8. CASE ~none
    <2>1. t \in TaskRecords /\ t.pipes \in Seq(PipeRecords) /\ Len(t.pipes) \in Nat
      BY DEF TaskOK, TaskRecords
    <2> HIDE DEF p
    <2>2. PICK u : u = [t EXCEPT !.pipes = Append(@, p)]
      OBVIOUS
    <2>3. u.pipes = Append(t.pipes, p)
      BY <2>1, <2>2 DEF TaskRecords
    <2>4. Len(t.pipes) + 1 \in Indexes(u.pipes) /\ u.pipes[Len(t.pipes) + 1] = p
      BY <2>1, <2>3 DEF Indexes
    <2>5. DispatchReader(t, at) = u
      BY <1>1, <1>8, <2>2
    <2> QED
      BY <1>5, <2>4, <2>5 DEF HasPipe, p
  <1> QED
    BY <1>7, <1>8

\* One equation for what DispatchReaders() is the last value of.
Dispatched(u, t, n) ==
    u = [k \in 0..n |-> IF k = 0 THEN t ELSE DispatchReader(u[k - 1], t.readers[k].at)]

\* The values of the loop exist, by a least counterexample.
LEMMA DispatchedExists ==
    ASSUME NEW t, NEW n \in Nat
    PROVE  \E u : Dispatched(u, t, n)
  <1> DEFINE Bad == { k \in Nat : ~\E u : Dispatched(u, t, k) }
  <1> SUFFICES ASSUME Bad # {} PROVE FALSE
    OBVIOUS
  <1>1. PICK m \in Bad : \A k \in Bad : m <= k
    <2>1. Bad \subseteq Nat
      OBVIOUS
    <2> HIDE DEF Bad
    <2> QED
      BY <2>1, LeastOne
  <1>2. m \in Nat
    OBVIOUS
  <1>3. CASE m = 0
    <2>1. Dispatched([k \in 0..0 |-> t], t, 0)
      BY DEF Dispatched
    <2> QED
      BY <1>3, <2>1
  <1>4. CASE m # 0
    <2>1. m - 1 \in Nat /\ ~(m <= m - 1)
      BY <1>2, <1>4
    <2>2. m - 1 \notin Bad
      <3> HIDE DEF Bad
      <3> QED
        BY <1>1, <2>1
    <2>3. PICK u : Dispatched(u, t, m - 1)
      BY <2>1, <2>2
    <2> DEFINE last == DispatchReader(u[m - 1], t.readers[m].at)
               v == [k \in 0..m |-> IF k < m THEN u[k] ELSE last]
    <2>4. \A k \in 0..m - 1 :
             u[k] = IF k = 0 THEN t ELSE DispatchReader(u[k - 1], t.readers[k].at)
      BY <2>3 DEF Dispatched
    <2>5. ASSUME NEW k \in 0..m
          PROVE  v[k] = IF k = 0 THEN t ELSE DispatchReader(v[k - 1], t.readers[k].at)
      <3>1. CASE k = m
        <4>1. v[k] = last /\ v[k - 1] = u[m - 1]
          BY <1>2, <1>4, <3>1
        <4> HIDE DEF v
        <4> QED
          BY <1>4, <3>1, <4>1
      <3>2. CASE k # m
        <4>1. k \in 0..m - 1 /\ v[k] = u[k] /\ (k # 0 => v[k - 1] = u[k - 1])
          BY <1>2, <3>2
        <4> HIDE DEF v
        <4> QED
          BY <2>4, <4>1
      <3> QED
        BY <3>1, <3>2
    <2>6. Dispatched(v, t, m)
      BY <2>5 DEF Dispatched
    <2> QED
      BY <2>6
  <1> QED
    BY <1>3, <1>4

\* DispatchReaders() is the last value of its loop.
LEMMA DispatchReadersIs ==
    ASSUME NEW t, Len(t.readers) \in Nat
    PROVE  \E u : Dispatched(u, t, Len(t.readers)) /\ DispatchReaders(t) = u[Len(t.readers)]
  <1> DEFINE u == CHOOSE v : Dispatched(v, t, Len(t.readers))
  <1>1. Dispatched(u, t, Len(t.readers))
    BY DispatchedExists
  <1>2. DispatchReaders(t) = u[Len(t.readers)]
    BY DEF DispatchReaders, Dispatched
  <1> QED
    BY <1>1, <1>2

\* Each value of the loop has grown from the one before.
LEMMA DispatchedSteps ==
    ASSUME NEW t, TaskOK(t), NEW u, Dispatched(u, t, Len(t.readers))
    PROVE  /\ \A k \in 0..Len(t.readers) : Grown(t, u[k])
           /\ \A k \in 1..Len(t.readers) :
                 /\ u[k] = DispatchReader(u[k - 1], t.readers[k].at)
                 /\ Grown(u[k - 1], u[k])
  <1> DEFINE n == Len(t.readers)
             Bad == { k \in 0..n : ~Grown(t, u[k]) }
  <1>1. /\ n \in Nat /\ t.readers \in Seq(ReaderRecords)
        /\ \A k \in 1..n : t.readers[k].at \in 0..FileSize
    BY ReaderParts
  <1>2. \A k \in 0..n :
           u[k] = IF k = 0 THEN t ELSE DispatchReader(u[k - 1], t.readers[k].at)
    BY DEF Dispatched
  <1>3. ASSUME NEW k \in 1..n, Grown(t, u[k - 1])
        PROVE  /\ u[k] = DispatchReader(u[k - 1], t.readers[k].at)
               /\ Grown(u[k - 1], u[k]) /\ Grown(t, u[k])
    <2>1. u[k] = DispatchReader(u[k - 1], t.readers[k].at)
      BY <1>1, <1>2
    <2>2. TaskOK(u[k - 1])
      BY <1>3, GrownKeeps
    <2>3. Grown(u[k - 1], u[k])
      BY <1>1, <2>1, <2>2, DispatchGrows
    <2> QED
      BY <1>3, <2>1, <2>3, GrownTwice
  <1>4. Bad = {}
    <2> SUFFICES ASSUME Bad # {} PROVE FALSE
      OBVIOUS
    <2>1. PICK m \in Bad : \A k \in Bad : m <= k
      <3>1. Bad \subseteq Nat
        BY <1>1
      <3> HIDE DEF Bad
      <3> QED
        BY <3>1, LeastOne
    <2>2. m # 0
      BY <1>1, <1>2, <2>1, GrownSelf
    <2>3. m \in 1..n /\ m - 1 \in 0..n /\ ~(m <= m - 1)
      BY <1>1, <2>2
    <2>4. Grown(t, u[m - 1])
      <3>1. m - 1 \notin Bad
        <4> HIDE DEF Bad
        <4> QED
          BY <2>1, <2>3
      <3> QED
        BY <2>3, <3>1
    <2> QED
      BY <1>3, <2>3, <2>4
  <1>5. \A k \in 0..n : Grown(t, u[k])
    BY <1>4
  <1>6. \A k \in 1..n : k - 1 \in 0..n
    BY <1>1
  <1> HIDE DEF Bad
  <1> QED
    BY <1>3, <1>5, <1>6

\* A reader that waits for data that is not in the cache.
Waits(t, at) ==
    at < FileSize /\ PieceAt(at) \notin t.st.pieces /\ t.code = 0

\* Dispatching all readers opens pipes and closes none; afterwards each one
\* that waits has one for its piece.
LEMMA AllDispatched ==
    ASSUME NEW t, TaskOK(t)
    PROVE  /\ Grown(t, DispatchReaders(t))
           /\ MAX_CACHE_LEN >= 2 =>
                \A k \in Indexes(t.readers) :
                   Waits(t, t.readers[k].at)
                     => HasPipe(DispatchReaders(t), PieceStart(t.readers[k].at))
  <1> DEFINE n == Len(t.readers)
  <1>1. /\ n \in Nat /\ t.readers \in Seq(ReaderRecords)
        /\ \A k \in 1..n : t.readers[k].at \in 0..FileSize
    BY ReaderParts
  <1>2. PICK u : Dispatched(u, t, n) /\ DispatchReaders(t) = u[n]
    BY <1>1, DispatchReadersIs
  <1>3. /\ \A k \in 0..n : Grown(t, u[k])
        /\ \A k \in 1..n : /\ u[k] = DispatchReader(u[k - 1], t.readers[k].at)
                           /\ Grown(u[k - 1], u[k])
    BY <1>2, DispatchedSteps
  <1>4. ASSUME MAX_CACHE_LEN >= 2, NEW k \in 1..n, Waits(t, t.readers[k].at)
        PROVE  HasPipe(u[n], PieceStart(t.readers[k].at))
    <2> DEFINE at == t.readers[k].at
               Bad == { m \in k..n : ~HasPipe(u[m], PieceStart(at)) }
    <2>1. k - 1 \in 0..n /\ at \in 0..FileSize
      BY <1>1
    <2>2. TaskOK(u[k - 1]) /\ u[k - 1].st = t.st /\ u[k - 1].code = t.code
      BY <1>3, <2>1, GrownKeeps
    <2>3. HasPipe(u[k], PieceStart(at))
      BY <1>3, <1>4, <2>1, <2>2, DispatchAsks DEF Waits
    <2>4. Bad = {}
      <3> SUFFICES ASSUME Bad # {} PROVE FALSE
        OBVIOUS
      <3>1. PICK m \in Bad : \A j \in Bad : m <= j
        <4>1. Bad \subseteq Nat
          BY <1>1
        <4> HIDE DEF Bad
        <4> QED
          BY <4>1, LeastOne
      <3>2. m # k
        BY <2>3
      <3>3. m \in 1..n /\ m - 1 \in k..n /\ m - 1 \in 0..n /\ ~(m <= m - 1)
        BY <1>1, <3>2
      <3>4. HasPipe(u[m - 1], PieceStart(at))
        <4>1. m - 1 \notin Bad
          <5> HIDE DEF Bad
          <5> QED
            BY <3>1, <3>3
        <4> QED
          BY <3>3, <4>1
      <3>5. TaskOK(u[m - 1])
        BY <1>3, <3>3, GrownKeeps
      <3>6. HasPipe(u[m], PieceStart(at))
        BY <1>3, <3>3, <3>4, <3>5, GrownKeeps
      <3> QED
        BY <3>6
    <2>5. n \in k..n
      BY <1>1
    <2> QED
      BY <2>4, <2>5
  <1>5. n \in 0..n
    BY <1>1
  <1> QED
    BY <1>2, <1>3, <1>4, <1>5 DEF Indexes

-----------------------------------------------------------------------------
(* dispatch_pipe().                                                        *)

\* What TaskOK says of one pipe.
LEMMA PipeParts ==
    ASSUME NEW t, TaskOK(t)
    PROVE  /\ Len(t.pipes) \in Nat /\ t.pipes \in Seq(PipeRecords)
           /\ \A i \in 1..Len(t.pipes) :
                 /\ t.pipes[i] \in PipeRecords
                 /\ t.pipes[i].pos \in 0..FileSize /\ t.pipes[i].req_pos \in 0..FileSize
                 /\ t.pipes[i].req_len \in 0..FileSize /\ t.pipes[i].opened \in BOOLEAN
                 /\ PipeOK(t, t.pipes[i])
  <1>1. t.pipes \in Seq(PipeRecords)
    BY TaskParts
  <1>2. Len(t.pipes) \in Nat /\ \A i \in 1..Len(t.pipes) : t.pipes[i] \in PipeRecords
    BY <1>1
  <1>3. \A p \in PipeRecords : /\ p.pos \in 0..FileSize /\ p.req_pos \in 0..FileSize
                               /\ p.req_len \in 0..FileSize /\ p.opened \in BOOLEAN
    BY DEF PipeRecords
  <1>4. \A i \in 1..Len(t.pipes) : PipeOK(t, t.pipes[i])
    BY DEF TaskOK, Indexes
  <1> QED
    BY <1>1, <1>2, <1>3, <1>4

\* No two pipes, the i-th not counted, stand at the same byte; for i = 0,
\* no two at all.
Apart(q, i) == \A j, k \in Indexes(q) \ {i} : j # k => q[j].pos # q[k].pos

\* Opening pipes where none stands keeps them apart.
LEMMA GrownApart ==
    ASSUME NEW p \in Seq(PipeRecords), NEW q, GrownPipes(p, q), NEW i, Apart(p, i)
    PROVE  Apart(q, i)
  <1>1. /\ Len(p) \in Nat /\ Len(q) \in Nat /\ Len(p) <= Len(q)
        /\ \A j \in Indexes(p) : q[j] = p[j]
    BY DEF GrownPipes
  <1>2. ASSUME NEW j \in Indexes(q) \ {i}, NEW k \in Indexes(q) \ {i}, j < k
        PROVE  q[j].pos # q[k].pos
    <2>1. CASE k \in Indexes(p)
      <3>1. j \in Indexes(p)
        BY <1>1, <1>2, <2>1 DEF Indexes
      <3> QED
        BY <1>1, <1>2, <2>1, <3>1 DEF Apart, Indexes
    <2>2. CASE k \notin Indexes(p)
      <3>1. j \in 1..k - 1
        BY <1>1, <1>2 DEF Indexes
      <3> QED
        BY <2>2, <3>1 DEF GrownPipes
    <2> QED
      BY <2>1, <2>2
  <1>3. ASSUME NEW j \in Indexes(q) \ {i}, NEW k \in Indexes(q) \ {i}, j # k
        PROVE  q[j].pos # q[k].pos
    <2>1. j < k \/ k < j
      BY <1>1, <1>3 DEF Indexes
    <2> QED
      BY <1>2, <2>1
  <1> QED
    BY <1>3 DEF Apart

\* A task that has one pipe less.
WithoutPipe(t, i) == [t EXCEPT !.pipes = RemoveIndex(@, i)]

\* The pipes that are left are as they were.
LEMMA RemovedPipe ==
    ASSUME NEW t, TaskOK(t), NEW i \in Indexes(t.pipes), NEW u, u = WithoutPipe(t, i)
    PROVE  /\ TaskOK(u)
           /\ u.st = t.st /\ u.readers = t.readers /\ u.code = t.code
           /\ Len(u.pipes) = Len(t.pipes) - 1
           /\ Apart(t.pipes, i) => Apart(u.pipes, 0)
           /\ \A j \in Indexes(t.pipes) \ {i} : HasPipe(u, t.pipes[j].pos)
  <1> DEFINE q == RemoveIndex(t.pipes, i)
             from(j) == IF j < i THEN j ELSE j + 1
  <1>1. /\ t \in TaskRecords /\ t.pipes \in Seq(PipeRecords) /\ Len(t.pipes) \in Nat
    BY DEF TaskOK, TaskRecords
  <1>2. u = [st |-> t.st, readers |-> t.readers, pipes |-> q, code |-> t.code]
    BY <1>1 DEF TaskRecords, WithoutPipe
  <1>3. q \in Seq(PipeRecords) /\ Len(q) = Len(t.pipes) - 1
    BY <1>1, RemoveIs
  <1>4. /\ \A j \in Indexes(q) : from(j) \in Indexes(t.pipes) \ {i} /\ q[j] = t.pipes[from(j)]
        /\ \A j, k \in Indexes(q) : j # k => from(j) # from(k)
        /\ \A j \in Indexes(t.pipes) \ {i} : \E k \in Indexes(q) : q[k] = t.pipes[j]
    BY <1>1, RemoveKeeps
  <1> HIDE DEF q, from
  <1>5. u.st = t.st /\ u.readers = t.readers /\ u.code = t.code /\ u.pipes = q
    BY <1>2
  <1>6. u \in TaskRecords
    BY <1>1, <1>2, <1>3 DEF TaskRecords
  <1>7. \A j \in Indexes(u.pipes) : PipeOK(u, u.pipes[j])
    BY <1>4, <1>5 DEF TaskOK, PipeOK
  <1>8. \A j \in Indexes(u.readers) : ReaderOK(u, u.readers[j])
    BY <1>5 DEF TaskOK, ReaderOK
  <1>9. TaskOK(u)
    BY <1>5, <1>6, <1>7, <1>8 DEF TaskOK
  <1>10. Apart(t.pipes, i) => Apart(q, 0)
    BY <1>4 DEF Apart
  <1>11. \A j \in Indexes(t.pipes) \ {i} : HasPipe(u, t.pipes[j].pos)
    BY <1>4, <1>5 DEF HasPipe
  <1> QED
    BY <1>3, <1>5, <1>9, <1>10, <1>11

\* The greatest of a set of positions.
LEMMA GreatestIs ==
    ASSUME NEW S, S \subseteq 0..FileSize, S # {}
    PROVE  Greatest(S) \in S /\ \A n \in S : n <= Greatest(S)
  <1>1. \E m \in S : \A n \in S : n <= m
    BY GreatestOne, FileAssumption
  <1> QED
    BY <1>1 DEF Greatest

\* dispatch_pipe() never takes away the last pipe from where a reader is.
LEMMA NeededStays ==
    ASSUME NEW t, TaskOK(t), NEW i \in Indexes(t.pipes), Unneeded(t, i),
           NEW k \in Indexes(t.readers), t.readers[k].at = t.pipes[i].pos,
           MAX_CACHE_LEN > 0
    PROVE  \E j \in Indexes(t.pipes) \ {i} : t.pipes[j].pos = t.pipes[i].pos
  <1> DEFINE pos    == t.pipes[i].pos
             behind == Behind(t, pos)
             nearer == PipesBehind(t, pos)
  <1>1. /\ pos \in Nat /\ FileSize \in Nat /\ MAX_CACHE_LEN \in Nat
        /\ \A j \in Indexes(t.readers) : t.readers[j].at \in 0..FileSize
        /\ \A j \in Indexes(t.pipes) : t.pipes[j].pos \in 0..FileSize
    BY ReaderParts, PipeParts, FileAssumption, CacheAssumption DEF Indexes
  <1>2. /\ behind \subseteq 0..FileSize /\ pos \in behind
        /\ \A b \in behind : b <= pos
    BY <1>1 DEF Behind
  <1>3. /\ nearer \subseteq 0..FileSize /\ \A b \in nearer : b < pos
    BY <1>1 DEF PipesBehind
  <1>4. \/ \E j \in Indexes(t.pipes) \ {i} : t.pipes[j].pos = pos
        \/ behind = {}
        \/ Greatest(behind) + MAX_CACHE_LEN <= pos
        \/ nearer # {} /\ Greatest(behind) <= Greatest(nearer)
    BY DEF Unneeded
  <1> HIDE DEF behind, nearer, pos
  <1>5. Greatest(behind) = pos
    <2>1. Greatest(behind) \in behind /\ pos <= Greatest(behind)
      BY <1>2, GreatestIs
    <2>2. Greatest(behind) \in 0..FileSize /\ Greatest(behind) <= pos
      BY <1>2, <2>1
    <2> QED
      BY <1>1, <2>1, <2>2
  <1>6. nearer # {} => Greatest(nearer) \in 0..FileSize /\ Greatest(nearer) < pos
    BY <1>3, GreatestIs
  <1>7. ~(Greatest(behind) + MAX_CACHE_LEN <= pos)
    BY <1>1, <1>5
  <1>8. ~(nearer # {} /\ Greatest(behind) <= Greatest(nearer))
    BY <1>1, <1>5, <1>6
  <1> QED
    BY <1>2, <1>4, <1>7, <1>8 DEF pos

\* Dispatching a pipe keeps it or closes it: two pipes are never left where
\* it stood, and no reader loses the one at its position.  Without readers
\* it is closed.
LEMMA DispatchPipeKeeps ==
    ASSUME NEW t, TaskOK(t), NEW i \in Indexes(t.pipes)
    PROVE  LET u == DispatchPipe(t, i)
           IN  /\ TaskOK(u)
               /\ u.st = t.st /\ u.readers = t.readers /\ u.code = t.code
               /\ Len(u.pipes) \in {Len(t.pipes), Len(t.pipes) - 1}
               /\ Apart(t.pipes, i) => Apart(u.pipes, 0)
               /\ MAX_CACHE_LEN > 0 =>
                    \A k \in Indexes(t.readers) :
                       HasPipe(t, t.readers[k].at) => HasPipe(u, t.readers[k].at)
               /\ t.readers = <<>> => Len(u.pipes) = Len(t.pipes) - 1
  <1> DEFINE u == DispatchPipe(t, i)
  <1>1. CASE Unneeded(t, i)
    <2>1. u = WithoutPipe(t, i)
      BY <1>1 DEF DispatchPipe, WithoutPipe
    <2> HIDE DEF u
    <2>2. /\ TaskOK(u)
          /\ u.st = t.st /\ u.readers = t.readers /\ u.code = t.code
          /\ Len(u.pipes) = Len(t.pipes) - 1
          /\ Apart(t.pipes, i) => Apart(u.pipes, 0)
          /\ \A j \in Indexes(t.pipes) \ {i} : HasPipe(u, t.pipes[j].pos)
      BY <2>1, RemovedPipe
    <2>3. ASSUME MAX_CACHE_LEN > 0, NEW k \in Indexes(t.readers),
                 HasPipe(t, t.readers[k].at)
          PROVE  HasPipe(u, t.readers[k].at)
      <3>1. PICK j \in Indexes(t.pipes) : t.pipes[j].pos = t.readers[k].at
        BY <2>3 DEF HasPipe
      <3>2. CASE j # i
        BY <2>2, <3>1, <3>2
      <3>3. CASE j = i
        <4>1. \E h \in Indexes(t.pipes) \ {i} : t.pipes[h].pos = t.pipes[i].pos
          BY <1>1, <2>3, <3>1, <3>3, NeededStays
        <4> QED
          BY <2>2, <3>1, <3>3, <4>1
      <3> QED
        BY <3>2, <3>3
    <2> QED
      BY <2>2, <2>3 DEF u
  <1>2. CASE ~Unneeded(t, i)
    <2>1. u = t
      BY <1>2 DEF DispatchPipe
    <2>2. \A j \in Indexes(t.pipes) \ {i} : t.pipes[j].pos # t.pipes[i].pos
      BY <1>2 DEF Unneeded
    <2>3. Apart(t.pipes, i) => Apart(t.pipes, 0)
      BY <2>2 DEF Apart, Indexes
    <2>4. t.readers # <<>>
      <3> SUFFICES ASSUME t.readers = <<>> PROVE FALSE
        OBVIOUS
      <3>1. Indexes(t.readers) = {}
        BY DEF Indexes
      <3>2. Behind(t, t.pipes[i].pos) = {}
        BY <3>1 DEF Behind
      <3> QED
        BY <1>2, <3>2 DEF Unneeded
    <2> QED
      BY <2>1, <2>3, <2>4
  <1> QED
    BY <1>1, <1>2

\* One equation for what DispatchPipes() is the last value of.
PipesDispatched(u, t, n, m) ==
    u = [k \in 0..m |-> IF k = 0 THEN t ELSE DispatchPipeBefore(u[k - 1], n - k)]

\* The values of the loop exist, by a least counterexample.
LEMMA PipesDispatchedExists ==
    ASSUME NEW t, NEW n \in Nat
    PROVE  \E u : PipesDispatched(u, t, n, n)
  <1> DEFINE Bad == { k \in Nat : ~\E u : PipesDispatched(u, t, n, k) }
  <1> SUFFICES ASSUME Bad # {} PROVE FALSE
    OBVIOUS
  <1>1. PICK m \in Bad : \A k \in Bad : m <= k
    <2>1. Bad \subseteq Nat
      OBVIOUS
    <2> HIDE DEF Bad
    <2> QED
      BY <2>1, LeastOne
  <1>2. m \in Nat
    OBVIOUS
  <1>3. CASE m = 0
    <2>1. PipesDispatched([k \in 0..0 |-> t], t, n, 0)
      BY DEF PipesDispatched
    <2> QED
      BY <1>3, <2>1
  <1>4. CASE m # 0
    <2>1. m - 1 \in Nat /\ ~(m <= m - 1)
      BY <1>2, <1>4
    <2>2. m - 1 \notin Bad
      <3> HIDE DEF Bad
      <3> QED
        BY <1>1, <2>1
    <2>3. PICK u : PipesDispatched(u, t, n, m - 1)
      BY <2>1, <2>2
    <2> DEFINE last == DispatchPipeBefore(u[m - 1], n - m)
               v == [k \in 0..m |-> IF k < m THEN u[k] ELSE last]
    <2>4. \A k \in 0..m - 1 :
             u[k] = IF k = 0 THEN t ELSE DispatchPipeBefore(u[k - 1], n - k)
      BY <2>3 DEF PipesDispatched
    <2>5. ASSUME NEW k \in 0..m
          PROVE  v[k] = IF k = 0 THEN t ELSE DispatchPipeBefore(v[k - 1], n - k)
      <3>1. CASE k = m
        <4>1. v[k] = last /\ v[k - 1] = u[m - 1]
          BY <1>2, <1>4, <3>1
        <4> HIDE DEF v
        <4> QED
          BY <1>4, <3>1, <4>1
      <3>2. CASE k # m
        <4>1. k \in 0..m - 1 /\ v[k] = u[k] /\ (k # 0 => v[k - 1] = u[k - 1])
          BY <1>2, <3>2
        <4> HIDE DEF v
        <4> QED
          BY <2>4, <4>1
      <3> QED
        BY <3>1, <3>2
    <2>6. PipesDispatched(v, t, n, m)
      BY <2>5 DEF PipesDispatched
    <2> QED
      BY <2>6
  <1> QED
    BY <1>3, <1>4

\* DispatchPipes() is the last value of its loop.
LEMMA DispatchPipesIs ==
    ASSUME NEW t, Len(t.pipes) \in Nat
    PROVE  \E u : /\ PipesDispatched(u, t, Len(t.pipes), Len(t.pipes))
                  /\ DispatchPipes(t) = u[Len(t.pipes)]
  <1> DEFINE n == Len(t.pipes)
             u == CHOOSE v : PipesDispatched(v, t, n, n)
  <1>1. PipesDispatched(u, t, n, n)
    BY PipesDispatchedExists
  <1>2. DispatchPipes(t) = u[n]
    BY DEF DispatchPipes, PipesDispatched
  <1> QED
    BY <1>1, <1>2

\* What the k-th value of the loop still has of the task it began with.
PipesLeft(t, v, after) ==
    /\ TaskOK(v)
    /\ v.st = t.st /\ v.readers = t.readers /\ v.code = t.code
    /\ Len(v.pipes) >= after
    /\ t.readers = <<>> => Len(v.pipes) = after
    /\ Apart(t.pipes, 0) => Apart(v.pipes, 0)
    /\ MAX_CACHE_LEN > 0 =>
         \A k \in Indexes(t.readers) :
            HasPipe(t, t.readers[k].at) => HasPipe(v, t.readers[k].at)

\* One turn of the loop.
LEMMA PipesLeftStep ==
    ASSUME NEW t, TaskOK(t), NEW v, NEW after \in Nat, PipesLeft(t, v, after + 1)
    PROVE  PipesLeft(t, DispatchPipeBefore(v, after), after)
  <1> DEFINE i == Len(v.pipes) - after
             u == DispatchPipe(v, i)
  <1>1. /\ TaskOK(v) /\ Len(v.pipes) \in Nat
        /\ v.st = t.st /\ v.readers = t.readers /\ v.code = t.code
        /\ Len(v.pipes) >= after + 1
        /\ t.readers = <<>> => Len(v.pipes) = after + 1
        /\ Apart(t.pipes, 0) => Apart(v.pipes, 0)
        /\ MAX_CACHE_LEN > 0 =>
             \A k \in Indexes(t.readers) :
                HasPipe(t, t.readers[k].at) => HasPipe(v, t.readers[k].at)
    BY PipeParts DEF PipesLeft
  <1>2. i \in Indexes(v.pipes)
    BY <1>1 DEF Indexes
  <1> HIDE DEF i
  <1>3. /\ TaskOK(u)
        /\ u.st = v.st /\ u.readers = v.readers /\ u.code = v.code
        /\ Len(u.pipes) \in {Len(v.pipes), Len(v.pipes) - 1}
        /\ Apart(v.pipes, i) => Apart(u.pipes, 0)
        /\ MAX_CACHE_LEN > 0 =>
             \A k \in Indexes(v.readers) :
                HasPipe(v, v.readers[k].at) => HasPipe(u, v.readers[k].at)
        /\ v.readers = <<>> => Len(u.pipes) = Len(v.pipes) - 1
    BY <1>1, <1>2, DispatchPipeKeeps
  <1>4. Apart(v.pipes, 0) => Apart(v.pipes, i)
    BY <1>1 DEF Apart, Indexes
  <1>5. DispatchPipeBefore(v, after) = u
    BY DEF DispatchPipeBefore, i
  <1> HIDE DEF u
  <1>6. Len(u.pipes) >= after /\ (t.readers = <<>> => Len(u.pipes) = after)
    BY <1>1, <1>3
  <1>7. MAX_CACHE_LEN > 0 =>
          \A k \in Indexes(t.readers) :
             HasPipe(t, t.readers[k].at) => HasPipe(u, t.readers[k].at)
    BY <1>1, <1>3
  <1>8. Apart(t.pipes, 0) => Apart(u.pipes, 0)
    BY <1>1, <1>3, <1>4
  <1> QED
    BY <1>1, <1>3, <1>5, <1>6, <1>7, <1>8 DEF PipesLeft

\* Dispatching all pipes leaves no reader without the pipe at its position,
\* and a task without readers no pipe at all.
LEMMA AllPipesDispatched ==
    ASSUME NEW t, TaskOK(t)
    PROVE  PipesLeft(t, DispatchPipes(t), 0)
  <1> DEFINE n == Len(t.pipes)
  <1>1. n \in Nat
    BY PipeParts
  <1>2. PICK u : PipesDispatched(u, t, n, n) /\ DispatchPipes(t) = u[n]
    BY <1>1, DispatchPipesIs
  <1> DEFINE Bad == { k \in 0..n : ~PipesLeft(t, u[k], n - k) }
  <1>3. \A k \in 0..n :
           u[k] = IF k = 0 THEN t ELSE DispatchPipeBefore(u[k - 1], n - k)
    BY <1>2 DEF PipesDispatched
  <1>4. PipesLeft(t, u[0], n - 0)
    <2>1. u[0] = t /\ n - 0 = n
      BY <1>1, <1>3
    <2>2. ASSUME t.readers = <<>> PROVE Len(t.pipes) = n
      OBVIOUS
    <2> QED
      BY <1>1, <2>1 DEF PipesLeft
  <1>5. Bad = {}
    <2> SUFFICES ASSUME Bad # {} PROVE FALSE
      OBVIOUS
    <2>1. PICK m \in Bad : \A k \in Bad : m <= k
      <3>1. Bad \subseteq Nat
        BY <1>1
      <3> HIDE DEF Bad
      <3> QED
        BY <3>1, LeastOne
    <2>2. m # 0
      BY <1>4
    <2>3. m \in 1..n /\ m - 1 \in 0..n /\ ~(m <= m - 1) /\ n - m \in Nat
          /\ n - (m - 1) = (n - m) + 1
      BY <1>1, <2>2
    <2>4. PipesLeft(t, u[m - 1], n - (m - 1))
      <3>1. m - 1 \notin Bad
        <4> HIDE DEF Bad
        <4> QED
          BY <2>1, <2>3
      <3> QED
        BY <2>3, <3>1
    <2>5. PipesLeft(t, u[m - 1], (n - m) + 1)
      BY <2>3, <2>4
    <2>6. u[m] = DispatchPipeBefore(u[m - 1], n - m)
      BY <1>3, <2>2, <2>3
    <2>7. PipesLeft(t, u[m], n - m)
      BY <2>3, <2>5, <2>6, PipesLeftStep
    <2> QED
      BY <2>7
  <1>6. PipesLeft(t, u[n], n - n)
    <2>1. n \in 0..n
      BY <1>1
    <2> QED
      BY <1>5, <2>1
  <1> HIDE DEF n
  <1>7. n - n = 0
    BY <1>1
  <1> QED
    BY <1>2, <1>6, <1>7

-----------------------------------------------------------------------------
(* try_transfer_data() and task_read().                                    *)

\* A task in which one reader has read on or been sent bytes.
WithReader(t, i, r) ==
    [st |-> t.st, readers |-> [t.readers EXCEPT ![i] = r], pipes |-> t.pipes,
     code |-> t.code]

\* It is as good as before when the reader is.
LEMMA ReaderSet ==
    ASSUME NEW t, TaskOK(t), NEW i \in Indexes(t.readers), NEW r \in ReaderRecords,
           r.id = t.readers[i].id, ReaderOK(t, r), NEW u, u = WithReader(t, i, r)
    PROVE  /\ TaskOK(u)
           /\ u.st = t.st /\ u.pipes = t.pipes /\ u.code = t.code
           /\ Len(u.readers) = Len(t.readers) /\ u.readers[i] = r
           /\ \A j \in Indexes(t.readers) \ {i} : u.readers[j] = t.readers[j]
           /\ \A j \in Indexes(t.readers) : u.readers[j].id = t.readers[j].id
  <1> DEFINE q == [t.readers EXCEPT ![i] = r]
  <1>1. t \in TaskRecords /\ t.readers \in Seq(ReaderRecords) /\ i \in 1..Len(t.readers)
    BY DEF TaskOK, TaskRecords, Indexes
  <1>2. /\ q \in Seq(ReaderRecords) /\ Len(q) = Len(t.readers)
        /\ \A j \in 1..Len(t.readers) : q[j] = IF j = i THEN r ELSE t.readers[j]
    BY <1>1, ExceptSeq
  <1> HIDE DEF q
  <1>3. u.st = t.st /\ u.pipes = t.pipes /\ u.code = t.code /\ u.readers = q
    BY DEF q, WithReader
  <1>4. u \in TaskRecords
    BY <1>1, <1>2 DEF TaskRecords, WithReader, q
  <1>5. \A j \in Indexes(t.readers) : q[j].id = t.readers[j].id
    BY <1>2 DEF Indexes
  <1>6. \A j \in Indexes(u.readers) : ReaderOK(u, u.readers[j])
    BY <1>2, <1>3 DEF TaskOK, ReaderOK, Indexes
  <1>7. \A j, k \in Indexes(u.readers) : j # k => u.readers[j].id # u.readers[k].id
    <2>1. \A j, k \in Indexes(t.readers) : j # k => t.readers[j].id # t.readers[k].id
      BY DEF TaskOK
    <2> QED
      BY <1>2, <1>3, <1>5, <2>1 DEF Indexes
  <1>8. \A j \in Indexes(u.pipes) : PipeOK(u, u.pipes[j])
    BY <1>3 DEF TaskOK, PipeOK
  <1>9. Sound(u.st) /\ u.st.estimate_size = u.st.filesize
    BY <1>3 DEF TaskOK
  <1>10. TaskOK(u)
    BY <1>4, <1>6, <1>7, <1>8, <1>9 DEF TaskOK
  <1> QED
    BY <1>2, <1>3, <1>5, <1>10 DEF Indexes

\* A task in which one reader has read n bytes more.
Advanced(v, i, n) == [v EXCEPT !.readers[i].at = @ + n, !.readers[i].unsent = @ + n]

\* What that is, field by field.
LEMMA AdvancedIs ==
    ASSUME NEW v \in TaskRecords, NEW i \in 1..Len(v.readers), NEW n, NEW u,
           u = Advanced(v, i, n),
           NEW q, q = [id |-> v.readers[i].id, at |-> v.readers[i].at + n,
                       unsent |-> v.readers[i].unsent + n, end |-> v.readers[i].end]
    PROVE  u = WithReader(v, i, q)
  <1>1. /\ v = [st |-> v.st, readers |-> v.readers, pipes |-> v.pipes, code |-> v.code]
        /\ v.readers \in Seq(ReaderRecords)
    BY DEF TaskRecords
  <1>2. v.readers[i] \in ReaderRecords
    BY <1>1
  <1>3. v.readers[i] = [id |-> v.readers[i].id, at |-> v.readers[i].at,
                        unsent |-> v.readers[i].unsent, end |-> v.readers[i].end]
    BY <1>2 DEF ReaderRecords
  <1> DEFINE r == v.readers[i]
  <1>4. PICK a : a = [r EXCEPT !.at = r.at + n]
    OBVIOUS
  <1>5. PICK w : w = [v EXCEPT !.readers[i].at = @ + n]
    OBVIOUS
  <1>6. w = [st |-> v.st, pipes |-> v.pipes, code |-> v.code,
             readers |-> [v.readers EXCEPT ![i] = a]]
    BY <1>1, <1>4, <1>5
  <1>7. a = [id |-> r.id, at |-> r.at + n, unsent |-> r.unsent, end |-> r.end]
    BY <1>3, <1>4
  <1>8. PICK b : b = [a EXCEPT !.unsent = a.unsent + n]
    OBVIOUS
  <1>9. b = [id |-> r.id, at |-> r.at + n, unsent |-> r.unsent + n, end |-> r.end]
    BY <1>7, <1>8
  <1>10. u = [w EXCEPT !.readers[i].unsent = @ + n]
    BY <1>5 DEF Advanced
  <1>11. w.readers = [v.readers EXCEPT ![i] = a] /\ w.readers[i] = a
    BY <1>1, <1>6
  <1>12. u = [st |-> v.st, pipes |-> v.pipes, code |-> v.code,
              readers |-> [w.readers EXCEPT ![i] = b]]
    BY <1>6, <1>8, <1>10, <1>11
  <1>13. [w.readers EXCEPT ![i] = b] = [v.readers EXCEPT ![i] = b]
    BY <1>1, <1>11
  <1>14. b = q
    BY <1>9
  <1> QED
    BY <1>12, <1>13, <1>14 DEF WithReader

\* A read gives some of what is asked for, and gives nothing when the piece
\* at its position is in no buffer and only then.
LEMMA ReadGives ==
    ASSUME NEW s, Known(s), NEW at \in 0..FileSize, NEW len \in Nat
    PROVE  /\ ReadLen(s, at, len) \in 0..len
           /\ len > 0 /\ ReadLen(s, at, len) = 0 => PieceAt(at) \notin s.pieces
  <1> DEFINE g == FirstMissing(s, at)
             a == PieceAt(at)
  <1>1. /\ ReadLen(s, at, len) = IF a \in s.pieces THEN Least(len, g * PIECE - at) ELSE 0
        /\ a \in Nat /\ g \in Nat /\ g >= a /\ g \notin s.pieces
    BY ReadStops, SomeMissing
  <1>2. at \in Nat /\ at < a * PIECE + PIECE
    BY FileAssumption, PieceAssumption, DivBounds DEF PieceAt
  <1> HIDE DEF g, a
  <1>3. CASE a \notin s.pieces
    BY <1>1, <1>3 DEF a
  <1>4. CASE a \in s.pieces
    <2>1. g # a
      BY <1>1, <1>4
    <2>2. a + 1 <= g /\ a + 1 \in Nat
      BY <1>1, <2>1
    <2>3. (a + 1) * PIECE <= g * PIECE /\ (a + 1) * PIECE = a * PIECE + PIECE
      BY <1>1, <2>2, TimesPiece, PieceAssumption
    <2>4. g * PIECE \in Nat /\ a * PIECE \in Nat /\ PIECE \in Nat
      BY <1>1, PieceAssumption
    <2>5. at < g * PIECE
      BY <1>2, <2>3, <2>4
    <2>6. ReadLen(s, at, len) = Least(len, g * PIECE - at)
      BY <1>1, <1>4
    <2> DEFINE x == g * PIECE
    <2> HIDE DEF x
    <2>7. ReadLen(s, at, len) \in 0..len /\ (len > 0 => ReadLen(s, at, len) # 0)
      BY <1>2, <2>4, <2>5, <2>6 DEF Least, x
    <2> QED
      BY <2>7
  <1> QED
    BY <1>3, <1>4

\* A session that has sent all it had and is not at its end has nothing to
\* read in the cache and, at the start of a piece, the pipe it waits for.
Fed(t, i) ==
    t.readers[i].id \in Readers /\ Starved(t.readers[i]) =>
        /\ PieceAt(t.readers[i].at) \notin t.st.pieces
        /\ t.code = 0 /\ t.readers[i].at % PIECE = 0 => HasPipe(t, t.readers[i].at)

\* A session that does not move stays fed when pipes are opened.
LEMMA FedStays ==
    ASSUME NEW t, TaskOK(t), NEW u, u.st = t.st, u.code = t.code,
           GrownPipes(t.pipes, u.pipes),
           NEW i, u.readers[i] = t.readers[i], Fed(t, i)
    PROVE  Fed(u, i)
  <1>1. t.pipes \in Seq(PipeRecords) /\ Len(t.pipes) \in Nat
    BY PipeParts
  <1>2. /\ Len(t.pipes) <= Len(u.pipes) /\ Len(u.pipes) \in Nat
        /\ \A j \in Indexes(t.pipes) : u.pipes[j] = t.pipes[j]
    BY DEF GrownPipes
  <1>3. \A pos : HasPipe(t, pos) => HasPipe(u, pos)
    BY <1>1, <1>2 DEF HasPipe, Indexes
  <1> QED
    BY <1>3 DEF Fed

\* What letting readers read leaves of a task.
Moved(t, u) ==
    /\ TaskOK(u) /\ u.st = t.st /\ u.code = t.code
    /\ Len(u.readers) = Len(t.readers)
    /\ GrownPipes(t.pipes, u.pipes)

\* One reader reads: the others stay where they are, and it is fed.
LEMMA TransferMoves ==
    ASSUME NEW t, TaskOK(t), NEW i \in Indexes(t.readers), NEW u, u = Transfer(t, i)
    PROVE  /\ Moved(t, u)
           /\ \A j \in Indexes(t.readers) \ {i} : u.readers[j] = t.readers[j]
           /\ MAX_CACHE_LEN >= 2 /\ (t.st.filesize = 0 => Fed(t, i)) => Fed(u, i)
  <1> DEFINE r == t.readers[i]
             len == Least(LIMIT, r.end - r.at)
             n == ReadLen(t.st, r.at, len)
             stays == \/ r.id \in Preloaders
                      \/ r.unsent > LIMIT \div 2 \/ r.end = 0 \/ t.st.filesize = 0
             v == DispatchReaders(t)
  <1>1. /\ i \in 1..Len(t.readers) /\ r \in ReaderRecords
        /\ r.at \in 0..FileSize /\ r.end \in 0..FileSize /\ r.unsent \in 0..2 * LIMIT
        /\ r.id \in Readers \cup Preloaders /\ ReaderOK(t, r)
        /\ Readers \cap Preloaders = {} /\ LIMIT \in Nat \ {0} /\ FileSize \in Nat
    BY ReaderParts, TaskAssumption, FileAssumption DEF Indexes
  <1> HIDE DEF r
  <1>2. CASE stays
    <2>1. u = t
      BY <1>2 DEF Transfer, r
    <2>2. Moved(t, u)
      BY <2>1, GrownSelf DEF Moved, Grown
    <2>3. (t.st.filesize = 0 => Fed(t, i)) => Fed(t, i)
      <3>1. CASE t.st.filesize = 0
        BY <3>1
      <3>2. CASE t.st.filesize # 0
        <4>1. t.st.filesize > 0
          BY <3>2, TaskParts
        <4>2. r.id \in Preloaders \/ r.unsent > LIMIT \div 2 \/ r.end = 0
          BY <1>2, <3>2
        <4>3. r.id \in Readers => r.unsent # 0
          BY <1>1, <4>1, <4>2 DEF ReaderOK
        <4> QED
          BY <4>3 DEF Fed, Starved, r
      <3> QED
        BY <3>1, <3>2
    <2> QED
      BY <2>1, <2>2, <2>3
  <1>3. CASE ~stays
    <2>1. /\ t.st.filesize > 0 /\ r.unsent <= LIMIT \div 2 /\ r.end > 0
          /\ r.at <= r.end /\ Known(t.st)
      BY <1>1, <1>3, TaskParts DEF ReaderOK
    <2>2. len \in Nat /\ len <= LIMIT /\ r.at + len <= r.end /\ (r.at < r.end => len > 0)
      BY <1>1, <2>1 DEF Least
    <2> HIDE DEF len
    <2>3. /\ n \in 0..len
          /\ len > 0 /\ n = 0 => PieceAt(r.at) \notin t.st.pieces
      BY <1>1, <2>1, <2>2, ReadGives
    <2>4. /\ Grown(t, v)
          /\ MAX_CACHE_LEN >= 2 /\ Waits(t, r.at) => HasPipe(v, PieceStart(r.at))
      BY AllDispatched DEF r
    <2>5. u = Advanced(v, i, n)
      BY <1>3 DEF Transfer, Advanced, len, r
    <2> HIDE DEF v, n
    <2>6. /\ TaskOK(v) /\ v.st = t.st /\ v.readers = t.readers /\ v.code = t.code
          /\ v \in TaskRecords /\ GrownPipes(t.pipes, v.pipes)
          /\ \A pos : HasPipe(t, pos) => HasPipe(v, pos)
      BY <2>4, GrownKeeps DEF TaskOK, Grown
    <2>7. PICK q : q = [id |-> r.id, at |-> r.at + n, unsent |-> r.unsent + n, end |-> r.end]
      OBVIOUS
    <2>8. /\ q.id = r.id /\ q.at = r.at + n /\ q.unsent = r.unsent + n /\ q.end = r.end
          /\ q.at \in 0..FileSize /\ q.at <= q.end /\ q.unsent \in 0..2 * LIMIT
      <3>1. /\ n \in Nat /\ n <= len /\ r.at \in Nat /\ r.end \in Nat /\ r.unsent \in Nat
            /\ r.end <= FileSize /\ FileSize \in Nat /\ LIMIT \in Nat
        BY <1>1, <2>2, <2>3
      <3>2. /\ r.at + n \in 0..FileSize /\ r.at + n <= r.end
            /\ r.unsent + n \in 0..2 * LIMIT
        BY <2>1, <2>2, <3>1
      <3> QED
        BY <2>7, <3>2
    <2>9. q \in ReaderRecords
      BY <1>1, <2>7, <2>8 DEF ReaderRecords
    <2>10. ReaderOK(v, q)
      BY <1>1, <2>1, <2>6, <2>8 DEF ReaderOK
    <2>11. u = WithReader(v, i, q)
      <3>1. /\ v.readers[i] = r /\ i \in 1..Len(v.readers)
            /\ q = [id |-> v.readers[i].id, at |-> v.readers[i].at + n,
                    unsent |-> v.readers[i].unsent + n, end |-> v.readers[i].end]
        BY <1>1, <2>6, <2>7 DEF r
      <3> QED
        BY <2>5, <2>6, <3>1, AdvancedIs
    <2>12. /\ TaskOK(u) /\ u.st = v.st /\ u.pipes = v.pipes /\ u.code = v.code
           /\ Len(u.readers) = Len(v.readers) /\ u.readers[i] = q
           /\ \A j \in Indexes(v.readers) \ {i} : u.readers[j] = v.readers[j]
      <3>1. i \in Indexes(v.readers) /\ q.id = v.readers[i].id
        BY <2>6, <2>8 DEF r
      <3> QED
        BY <2>6, <2>9, <2>10, <2>11, <3>1, ReaderSet
    <2>13. Moved(t, u)
      BY <2>6, <2>12 DEF Moved
    <2>14. ASSUME MAX_CACHE_LEN >= 2, q.id \in Readers, Starved(q)
           PROVE  /\ PieceAt(q.at) \notin u.st.pieces
                  /\ u.code = 0 /\ q.at % PIECE = 0 => HasPipe(u, q.at)
      <3>1. n = 0 /\ q.at = r.at /\ r.at < r.end
        BY SMTT(30), <1>1, <2>1, <2>2, <2>3, <2>8, <2>14 DEF Starved
      <3>2. PieceAt(r.at) \notin t.st.pieces /\ r.at < FileSize
        BY <1>1, <2>2, <2>3, <3>1
      <3>3. u.code = 0 /\ r.at % PIECE = 0 => Waits(t, r.at) /\ PieceStart(r.at) = r.at
        BY <1>1, <2>6, <2>12, <3>2, PieceStartIs DEF Waits
      <3>4. HasPipe(v, r.at) => HasPipe(u, r.at)
        BY <2>12 DEF HasPipe
      <3> QED
        BY <2>4, <2>6, <2>12, <2>14, <3>1, <3>2, <3>3, <3>4
    <2>15. MAX_CACHE_LEN >= 2 => Fed(u, i)
      BY <2>12, <2>14 DEF Fed
    <2> QED
      BY <2>6, <2>12, <2>13, <2>15
  <1> QED
    BY <1>2, <1>3

\* Nothing is lost when readers read one after the other.
LEMMA MovedTwice ==
    ASSUME NEW t, TaskOK(t), NEW u, NEW v, Moved(t, u), Moved(u, v)
    PROVE  Moved(t, v)
  <1>1. t.pipes \in Seq(PipeRecords)
    BY PipeParts
  <1>2. GrownPipes(t.pipes, u.pipes) /\ GrownPipes(u.pipes, v.pipes)
    BY DEF Moved
  <1>3. GrownPipes(t.pipes, v.pipes)
    BY <1>1, <1>2, GrownPipesTwice
  <1> QED
    BY <1>3 DEF Moved

\* One equation for what TransferAll() is the last value of.
AllTransferred(u, t, n) ==
    u = [k \in 0..n |-> IF k = 0 THEN t ELSE Transfer(u[k - 1], k)]

\* The values of the loop exist, by a least counterexample.
LEMMA AllTransferredExists ==
    ASSUME NEW t, NEW n \in Nat
    PROVE  \E u : AllTransferred(u, t, n)
  <1> DEFINE Bad == { k \in Nat : ~\E u : AllTransferred(u, t, k) }
  <1> SUFFICES ASSUME Bad # {} PROVE FALSE
    OBVIOUS
  <1>1. PICK m \in Bad : \A k \in Bad : m <= k
    <2>1. Bad \subseteq Nat
      OBVIOUS
    <2> HIDE DEF Bad
    <2> QED
      BY <2>1, LeastOne
  <1>2. m \in Nat
    OBVIOUS
  <1>3. CASE m = 0
    <2>1. AllTransferred([k \in 0..0 |-> t], t, 0)
      BY DEF AllTransferred
    <2> QED
      BY <1>3, <2>1
  <1>4. CASE m # 0
    <2>1. m - 1 \in Nat /\ ~(m <= m - 1)
      BY <1>2, <1>4
    <2>2. m - 1 \notin Bad
      <3> HIDE DEF Bad
      <3> QED
        BY <1>1, <2>1
    <2>3. PICK u : AllTransferred(u, t, m - 1)
      BY <2>1, <2>2
    <2> DEFINE last == Transfer(u[m - 1], m)
               v == [k \in 0..m |-> IF k < m THEN u[k] ELSE last]
    <2>4. \A k \in 0..m - 1 : u[k] = IF k = 0 THEN t ELSE Transfer(u[k - 1], k)
      BY <2>3 DEF AllTransferred
    <2>5. ASSUME NEW k \in 0..m
          PROVE  v[k] = IF k = 0 THEN t ELSE Transfer(v[k - 1], k)
      <3>1. CASE k = m
        <4>1. v[k] = last /\ v[k - 1] = u[m - 1]
          BY <1>2, <1>4, <3>1
        <4> HIDE DEF v
        <4> QED
          BY <1>4, <3>1, <4>1
      <3>2. CASE k # m
        <4>1. k \in 0..m - 1 /\ v[k] = u[k] /\ (k # 0 => v[k - 1] = u[k - 1])
          BY <1>2, <3>2
        <4> HIDE DEF v
        <4> QED
          BY <2>4, <4>1
      <3> QED
        BY <3>1, <3>2
    <2>6. AllTransferred(v, t, m)
      BY <2>5 DEF AllTransferred
    <2> QED
      BY <2>6
  <1> QED
    BY <1>3, <1>4

\* TransferAll() is the last value of its loop.
LEMMA TransferAllIs ==
    ASSUME NEW t, Len(t.readers) \in Nat
    PROVE  \E u : /\ AllTransferred(u, t, Len(t.readers))
                  /\ TransferAll(t) = u[Len(t.readers)]
  <1> DEFINE u == CHOOSE v : AllTransferred(v, t, Len(t.readers))
  <1>1. AllTransferred(u, t, Len(t.readers))
    BY AllTransferredExists
  <1>2. TransferAll(t) = u[Len(t.readers)]
    BY DEF TransferAll, AllTransferred
  <1> QED
    BY <1>1, <1>2

\* What the first k readers have when they have read.
FirstFed(t, v, k) ==
    /\ Moved(t, v)
    /\ MAX_CACHE_LEN >= 2 /\ t.st.filesize > 0 => \A j \in 1..k : Fed(v, j)

\* One turn of the loop.
LEMMA FirstFedStep ==
    ASSUME NEW t, TaskOK(t), NEW v, NEW k \in Indexes(t.readers), FirstFed(t, v, k - 1)
    PROVE  FirstFed(t, Transfer(v, k), k)
  <1> DEFINE u == Transfer(v, k)
  <1>1. Moved(t, v) /\ TaskOK(v) /\ v.st = t.st /\ Len(v.readers) = Len(t.readers)
    BY DEF FirstFed, Moved
  <1>2. k \in Indexes(v.readers) /\ k \in 1..Len(v.readers) /\ Len(v.readers) \in Nat
    BY <1>1, ReaderParts DEF Indexes
  <1>3. /\ Moved(v, u)
        /\ \A j \in Indexes(v.readers) \ {k} : u.readers[j] = v.readers[j]
        /\ MAX_CACHE_LEN >= 2 /\ (v.st.filesize = 0 => Fed(v, k)) => Fed(u, k)
    BY <1>1, <1>2, TransferMoves
  <1> HIDE DEF u
  <1>4. Moved(t, u)
    BY <1>1, <1>3, MovedTwice
  <1>5. ASSUME MAX_CACHE_LEN >= 2, t.st.filesize > 0, NEW j \in 1..k
        PROVE  Fed(u, j)
    <2>1. CASE j = k
      BY <1>1, <1>3, <1>5, <2>1
    <2>2. CASE j # k
      <3>1. j \in 1..k - 1 /\ j \in Indexes(v.readers) \ {k}
        BY <1>2, <2>2 DEF Indexes
      <3>2. Fed(v, j)
        BY <1>5, <3>1 DEF FirstFed
      <3>3. u.readers[j] = v.readers[j]
        BY <1>3, <3>1
      <3>4. u.st = v.st /\ u.code = v.code /\ GrownPipes(v.pipes, u.pipes)
        BY <1>3 DEF Moved
      <3> QED
        BY <1>1, <3>2, <3>3, <3>4, FedStays
    <2> QED
      BY <2>1, <2>2
  <1> QED
    BY <1>4, <1>5 DEF FirstFed, u

\* When all readers have read, each of them is fed.
LEMMA AllFed ==
    ASSUME NEW t, TaskOK(t)
    PROVE  FirstFed(t, TransferAll(t), Len(t.readers))
  <1> DEFINE n == Len(t.readers)
  <1>1. n \in Nat
    BY ReaderParts
  <1>2. PICK u : AllTransferred(u, t, n) /\ TransferAll(t) = u[n]
    BY <1>1, TransferAllIs
  <1> DEFINE Bad == { k \in 0..n : ~FirstFed(t, u[k], k) }
  <1>3. \A k \in 0..n : u[k] = IF k = 0 THEN t ELSE Transfer(u[k - 1], k)
    BY <1>2 DEF AllTransferred
  <1>4. FirstFed(t, u[0], 0)
    <2>1. u[0] = t
      BY <1>1, <1>3
    <2>2. Moved(t, t)
      BY GrownSelf DEF Moved, Grown
    <2> QED
      BY <2>1, <2>2 DEF FirstFed
  <1>5. Bad = {}
    <2> SUFFICES ASSUME Bad # {} PROVE FALSE
      OBVIOUS
    <2>1. PICK m \in Bad : \A k \in Bad : m <= k
      <3>1. Bad \subseteq Nat
        BY <1>1
      <3> HIDE DEF Bad
      <3> QED
        BY <3>1, LeastOne
    <2>2. m # 0
      BY <1>4
    <2>3. m \in 1..n /\ m - 1 \in 0..n /\ ~(m <= m - 1)
      BY <1>1, <2>2
    <2>4. FirstFed(t, u[m - 1], m - 1)
      <3>1. m - 1 \notin Bad
        <4> HIDE DEF Bad
        <4> QED
          BY <2>1, <2>3
      <3> QED
        BY <2>3, <3>1
    <2>5. u[m] = Transfer(u[m - 1], m)
      BY <1>3, <2>2, <2>3
    <2>6. m \in Indexes(t.readers)
      BY <2>3 DEF Indexes
    <2>7. FirstFed(t, u[m], m)
      BY <2>4, <2>5, <2>6, FirstFedStep
    <2> QED
      BY <2>7
  <1>6. FirstFed(t, u[n], n)
    <2>1. n \in 0..n
      BY <1>1
    <2> QED
      BY <1>5, <2>1
  <1> QED
    BY <1>2, <1>6

-----------------------------------------------------------------------------
(* on_filesize() and on_content_size().                                    *)

\* The readers without an end get one, and nothing else changes.
LEMMA LearntIs ==
    ASSUME NEW q \in Seq(ReaderRecords)
    PROVE  /\ Learnt(q) \in Seq(ReaderRecords) /\ Len(Learnt(q)) = Len(q)
           /\ \A k \in Indexes(q) :
                 /\ Learnt(q)[k].id = q[k].id /\ Learnt(q)[k].at = q[k].at
                 /\ Learnt(q)[k].unsent = q[k].unsent
                 /\ Learnt(q)[k].end = IF q[k].end = 0 /\ q[k].id \in Readers
                                       THEN FileSize ELSE q[k].end
  <1> DEFINE e(k) == IF q[k].end = 0 /\ q[k].id \in Readers
                     THEN [q[k] EXCEPT !.end = FileSize] ELSE q[k]
             f == [k \in Indexes(q) |-> e(k)]
  <1>1. Len(q) \in Nat /\ \A k \in Indexes(q) : q[k] \in ReaderRecords
    BY DEF Indexes
  <1>2. ASSUME NEW k \in Indexes(q)
        PROVE  /\ e(k) \in ReaderRecords
               /\ e(k).id = q[k].id /\ e(k).at = q[k].at /\ e(k).unsent = q[k].unsent
               /\ e(k).end = IF q[k].end = 0 /\ q[k].id \in Readers
                             THEN FileSize ELSE q[k].end
    <2>1. PICK r : r = q[k]
      OBVIOUS
    <2>2. r \in ReaderRecords
      BY <1>1, <2>1
    <2>3. PICK a : a = [r EXCEPT !.end = FileSize]
      OBVIOUS
    <2>4. a = [id |-> r.id, at |-> r.at, unsent |-> r.unsent, end |-> FileSize]
      BY <2>2, <2>3 DEF ReaderRecords
    <2>5. FileSize \in 0..FileSize
      BY FileAssumption
    <2>6. a \in ReaderRecords
      BY <2>2, <2>4, <2>5 DEF ReaderRecords
    <2>7. e(k) = IF r.end = 0 /\ r.id \in Readers THEN a ELSE r
      BY <2>1, <2>3
    <2> HIDE DEF e
    <2> QED
      BY <2>1, <2>2, <2>4, <2>6, <2>7
  <1> HIDE DEF e
  <1>3. f \in Seq(ReaderRecords) /\ Len(f) = Len(q) /\ \A k \in 1..Len(q) : f[k] = e(k)
    BY <1>1, <1>2 DEF Indexes
  <1>4. Learnt(q) = SubSeq(f, 1, Len(q))
    BY DEF Learnt, e
  <1> HIDE DEF f
  <1>5. /\ SubSeq(f, 1, Len(q)) \in Seq(ReaderRecords)
        /\ Len(SubSeq(f, 1, Len(q))) = Len(q)
        /\ \A k \in 1..Len(q) : SubSeq(f, 1, Len(q))[k] = f[k]
    BY <1>1, <1>3
  <1> QED
    BY <1>2, <1>3, <1>4, <1>5 DEF Indexes

\* A task one pipe of which has the head of its reply.
Opened(t, i, s, q) == [t EXCEPT !.pipes[i].opened = TRUE, !.st = s, !.readers = q]

\* What that is, field by field.
LEMMA OpenedIs ==
    ASSUME NEW t \in TaskRecords, NEW i \in Indexes(t.pipes),
           NEW s \in Storages, NEW q \in Seq(ReaderRecords), NEW u, u = Opened(t, i, s, q)
    PROVE  /\ u \in TaskRecords
           /\ u.st = s /\ u.readers = q /\ u.code = t.code
           /\ Len(u.pipes) = Len(t.pipes)
           /\ \A j \in Indexes(t.pipes) :
                 /\ u.pipes[j].pos = t.pipes[j].pos /\ u.pipes[j].req_pos = t.pipes[j].req_pos
                 /\ u.pipes[j].req_len = t.pipes[j].req_len
  <1>1. /\ t = [st |-> t.st, readers |-> t.readers, pipes |-> t.pipes, code |-> t.code]
        /\ t.pipes \in Seq(PipeRecords) /\ t.code \in {0, 502} /\ i \in 1..Len(t.pipes)
    BY DEF TaskRecords, Indexes
  <1>2. PICK p : p = t.pipes[i]
    OBVIOUS
  <1>3. p \in PipeRecords /\ \A j \in 1..Len(t.pipes) : t.pipes[j] \in PipeRecords
    BY <1>1, <1>2
  <1>4. PICK a : a = [p EXCEPT !.opened = TRUE]
    OBVIOUS
  <1>5. a = [pos |-> p.pos, req_pos |-> p.req_pos, req_len |-> p.req_len, opened |-> TRUE]
    BY <1>3, <1>4 DEF PipeRecords
  <1>6. a \in PipeRecords
    BY <1>3, <1>5 DEF PipeRecords
  <1>7. PICK g : g = [t.pipes EXCEPT ![i] = a]
    OBVIOUS
  <1>8. /\ g \in Seq(PipeRecords) /\ Len(g) = Len(t.pipes)
        /\ \A j \in 1..Len(t.pipes) : g[j] = IF j = i THEN a ELSE t.pipes[j]
    BY <1>1, <1>6, <1>7, ExceptSeq
  <1>9. PICK w : w = [t EXCEPT !.pipes[i].opened = TRUE]
    OBVIOUS
  <1>10. w = [st |-> t.st, readers |-> t.readers, pipes |-> g, code |-> t.code]
    BY <1>1, <1>2, <1>4, <1>7, <1>9
  <1>11. u = [[w EXCEPT !.st = s] EXCEPT !.readers = q]
    BY <1>9 DEF Opened
  <1>12. u = [st |-> s, readers |-> q, pipes |-> g, code |-> t.code]
    BY <1>10, <1>11
  <1>13. u.st = s /\ u.readers = q /\ u.code = t.code /\ u.pipes = g
    BY <1>12
  <1>14. u \in TaskRecords
    BY <1>1, <1>8, <1>12 DEF TaskRecords
  <1>15. \A j \in Indexes(t.pipes) :
           /\ g[j].pos = t.pipes[j].pos /\ g[j].req_pos = t.pipes[j].req_pos
           /\ g[j].req_len = t.pipes[j].req_len
    BY <1>2, <1>5, <1>8 DEF Indexes
  <1> QED
    BY <1>8, <1>13, <1>14, <1>15

\* What the head of a reply leaves of a task: the size of the file is known,
\* and neither readers nor pipes nor the cache have moved.
Headed(t, u) ==
    /\ TaskOK(u) /\ u.st.filesize > 0 /\ u.code = t.code
    /\ u.st.pieces = t.st.pieces /\ u.st.completed_size = t.st.completed_size
    /\ Len(u.readers) = Len(t.readers) /\ Len(u.pipes) = Len(t.pipes)
    /\ \A j \in Indexes(t.pipes) :
          /\ u.pipes[j].pos = t.pipes[j].pos /\ u.pipes[j].req_pos = t.pipes[j].req_pos
          /\ u.pipes[j].req_len = t.pipes[j].req_len
    /\ \A j \in Indexes(t.readers) :
          /\ u.readers[j].id = t.readers[j].id /\ u.readers[j].at = t.readers[j].at
          /\ u.readers[j].unsent = t.readers[j].unsent
          /\ t.readers[j].end # 0 => u.readers[j].end = t.readers[j].end

\* The head of a reply.
LEMMA HeadKeeps ==
    ASSUME NEW t, TaskOK(t), NEW i \in Indexes(t.pipes), NEW u, u = GotHead(t, i)
    PROVE  Headed(t, u)
  <1> DEFINE p == t.pipes[i]
             first == t.st.filesize = 0 \/ p.req_len = 0
  <1>1. /\ t \in TaskRecords /\ t.readers \in Seq(ReaderRecords) /\ t.st \in Storages
        /\ t.st.filesize \in {0, FileSize} /\ FileSize \in Nat \ {0}
        /\ t.st.estimate_size = t.st.filesize /\ Sound(t.st) /\ Len(t.readers) \in Nat
    BY TaskParts DEF TaskOK
  <1>2. PipeOK(t, p) /\ \A j \in Indexes(t.pipes) : PipeOK(t, t.pipes[j])
    BY DEF TaskOK
  <1> HIDE DEF p
  <1>3. CASE p.opened
    <2>1. u = t
      BY <1>3 DEF GotHead, p
    <2>2. t.st.filesize > 0
      BY <1>2, <1>3 DEF PipeOK
    <2> QED
      BY <2>1, <2>2 DEF Headed
  <1>4. CASE ~p.opened
    <2>1. PICK s : s = IF first THEN SetFilesize(t.st, FileSize) ELSE t.st
      OBVIOUS
    <2>2. PICK q : q = IF first THEN Learnt(t.readers) ELSE t.readers
      OBVIOUS
    <2>3. u = Opened(t, i, s, q)
      BY <1>4, <2>1, <2>2 DEF GotHead, Opened, p
    <2>4. /\ s \in Storages /\ Sound(s) /\ s.filesize = FileSize
          /\ s.estimate_size = FileSize /\ s.pieces = t.st.pieces
          /\ s.completed_size = t.st.completed_size
      <3>1. CASE first
        <4>1. s = SetFilesize(t.st, FileSize)
          BY <2>1, <3>1
        <4> QED
          BY <1>1, <4>1, SetFilesizeSound DEF Sound
      <3>2. CASE ~first
        BY <1>1, <2>1, <3>2
      <3> QED
        BY <3>1, <3>2
    <2>5. /\ q \in Seq(ReaderRecords) /\ Len(q) = Len(t.readers)
          /\ \A k \in Indexes(t.readers) :
                /\ q[k].id = t.readers[k].id /\ q[k].at = t.readers[k].at
                /\ q[k].unsent = t.readers[k].unsent
                /\ q[k].end = t.readers[k].end
                     \/ (t.readers[k].end = 0 /\ q[k].end = FileSize)
                /\ q[k].id \in Readers => q[k].end # 0
      <3>1. CASE first
        <4>1. q = Learnt(t.readers)
          BY <2>2, <3>1
        <4> QED
          BY <1>1, <4>1, LearntIs
      <3>2. CASE ~first
        <4>1. q = t.readers /\ t.st.filesize > 0
          BY <1>1, <2>2, <3>2
        <4>2. \A k \in Indexes(t.readers) : t.readers[k].id \in Readers => t.readers[k].end # 0
          BY <4>1 DEF TaskOK, ReaderOK
        <4> QED
          BY <1>1, <4>1, <4>2
      <3> QED
        BY <3>1, <3>2
    <2> HIDE DEF first
    <2>6. /\ u \in TaskRecords
          /\ u.st = s /\ u.readers = q /\ u.code = t.code
          /\ Len(u.pipes) = Len(t.pipes)
          /\ \A j \in Indexes(t.pipes) :
                /\ u.pipes[j].pos = t.pipes[j].pos /\ u.pipes[j].req_pos = t.pipes[j].req_pos
                /\ u.pipes[j].req_len = t.pipes[j].req_len
      <3>1. t \in TaskRecords /\ s \in Storages /\ q \in Seq(ReaderRecords)
        BY <1>1, <2>4, <2>5
      <3> QED
        BY SMTT(60), <2>3, <3>1, OpenedIs
    <2>7. u.st.filesize > 0
      BY <1>1, <2>4, <2>6
    <2>8. Indexes(u.readers) = Indexes(t.readers) /\ Indexes(u.pipes) = Indexes(t.pipes)
      BY <2>5, <2>6 DEF Indexes
    <2>9. ASSUME NEW j \in Indexes(u.readers) PROVE ReaderOK(u, u.readers[j])
      <3>1. t.readers[j].at \in 0..FileSize /\ (t.readers[j].end = 0 \/ t.readers[j].at <= t.readers[j].end)
        BY <2>8, ReaderParts DEF ReaderOK, Indexes
      <3>2. q[j].end = 0 \/ q[j].at <= q[j].end
        BY <1>1, <2>5, <2>8, <3>1
      <3> QED
        BY <2>5, <2>6, <2>7, <2>8, <3>2 DEF ReaderOK
    <2>10. \A j, k \in Indexes(u.readers) : j # k => u.readers[j].id # u.readers[k].id
      <3>1. \A j, k \in Indexes(t.readers) : j # k => t.readers[j].id # t.readers[k].id
        BY DEF TaskOK
      <3> QED
        BY <2>5, <2>6, <2>8, <3>1
    <2>11. \A j \in Indexes(u.pipes) : PipeOK(u, u.pipes[j])
      BY <1>2, <2>6, <2>7, <2>8 DEF PipeOK
    <2>12. Sound(u.st) /\ u.st.estimate_size = u.st.filesize
      BY <2>4, <2>6
    <2>13. TaskOK(u)
      BY <2>6, <2>9, <2>10, <2>11, <2>12 DEF TaskOK
    <2>14. \A j \in Indexes(t.readers) :
              t.readers[j].end # 0 => u.readers[j].end = t.readers[j].end
      BY <2>5, <2>6
    <2> QED
      BY <2>4, <2>5, <2>6, <2>7, <2>13, <2>14 DEF Headed
  <1> QED
    BY <1>3, <1>4

\* A session that is fed stays so.
LEMMA HeadFeeds ==
    ASSUME NEW t, TaskOK(t), NEW u, Headed(t, u), NEW j \in Indexes(t.readers), Fed(t, j)
    PROVE  Fed(u, j)
  <1>1. /\ u.st.pieces = t.st.pieces /\ u.code = t.code
        /\ u.readers[j].id = t.readers[j].id /\ u.readers[j].at = t.readers[j].at
        /\ Starved(u.readers[j]) => Starved(t.readers[j])
    BY DEF Headed, Starved
  <1>2. \A pos : HasPipe(t, pos) => HasPipe(u, pos)
    BY PipeParts DEF Headed, HasPipe, Indexes
  <1> QED
    BY <1>1, <1>2 DEF Fed

-----------------------------------------------------------------------------
(* on_recv().                                                              *)

\* The number of readers there may be.
MaxHeld == Cardinality(Readers \cup Preloaders)

\* The cache is bounded.
Bounded(t) == t.st.completed_size <= HoldSize(MaxHeld) + MaxRecv

\* There are no more positions to keep than readers there may be.
LEMMA HoldPositionsAre ==
    ASSUME NEW t, TaskOK(t)
    PROVE  /\ HoldPositions(t) \in Seq(Nat) /\ MaxHeld \in Nat
           /\ Len(HoldPositions(t)) <= MaxHeld
  <1> DEFINE n == Len(t.readers)
             ids == Readers \cup Preloaders
             f == [k \in 1..n |-> t.readers[k].id]
             e(k) == IF k = 1 THEN t.readers[n].at ELSE 0
  <1>1. /\ n \in Nat /\ FileSize \in Nat
        /\ \A k \in 1..n : t.readers[k].at \in 0..FileSize /\ t.readers[k].id \in ids
    BY ReaderParts, FileAssumption
  <1>2. IsFiniteSet(ids) /\ MaxHeld \in Nat
    <2>1. IsFiniteSet(ids)
      BY TaskAssumption, FS_Union
    <2> QED
      BY <2>1, FS_CardinalityType DEF MaxHeld
  <1>3. f \in Injection(1..n, ids)
    <2>1. f \in [1..n -> ids]
      BY <1>1
    <2>2. \A a, b \in 1..n : f[a] = f[b] => a = b
      BY DEF TaskOK, Indexes
    <2> HIDE DEF f
    <2> QED
      BY <2>1, <2>2 DEF Injection, IsInjective
  <1>4. Cardinality(1..n) = n /\ Cardinality(1..n) <= MaxHeld
    <2>1. Cardinality(1..n) <= Cardinality(ids)
      BY <1>2, <1>3, FS_Injection
    <2>2. Cardinality(1..n) = n
      BY <1>1, FS_Interval
    <2> QED
      BY <2>1, <2>2 DEF MaxHeld
  <1>5. \A k \in 1..n : e(k) \in Nat
    <2>1. ASSUME NEW k \in 1..n PROVE e(k) \in Nat
      <3>1. n \in 1..n
        BY <1>1
      <3> QED
        BY <1>1, <3>1
    <2> QED
      BY <2>1
  <1> HIDE DEF e
  <1>6. [k \in 1..n |-> e(k)] \in Seq(Nat) /\ Len([k \in 1..n |-> e(k)]) = n
    BY <1>1, <1>5
  <1>7. HoldPositions(t) = [k \in 1..n |-> e(k)]
    BY DEF HoldPositions, Indexes, e
  <1> QED
    BY <1>2, <1>4, <1>6, <1>7

\* What a pipe hands over is of whole pieces, or up to the end of the file.
LEMMA ChunkIsWrite ==
    ASSUME NEW t, TaskOK(t), NEW i \in Indexes(t.pipes),
           NEW n \in Chunks(t.pipes[i]), n > 0
    PROVE  /\ [pos |-> t.pipes[i].pos, len |-> n] \in Writes
           /\ n \in 0..MaxRecv /\ t.pipes[i].pos + n \in 0..FileSize
           /\ (t.pipes[i].pos + n) % PIECE = 0 \/ t.pipes[i].pos + n = FileSize
  <1> DEFINE p == t.pipes[i]
             pos == p.pos
             w == [pos |-> pos, len |-> n]
  <1>1. /\ pos \in 0..FileSize /\ p.req_pos \in 0..FileSize /\ p.req_len \in 0..FileSize
        /\ pos % PIECE = 0 \/ pos = FileSize
        /\ FileSize \in Nat /\ MaxRecv \in Nat
    BY PipeParts, FileAssumption DEF Indexes, PipeOK
  <1>2. n \in 0..MaxRecv /\ pos + n <= ReplyEnd(p) /\ (n % PIECE = 0 \/ pos + n = FileSize)
    BY DEF Chunks
  <1> HIDE DEF p
  <1>3. ReplyEnd(p) \in Nat /\ ReplyEnd(p) <= FileSize
    BY <1>1 DEF ReplyEnd, Least
  <1> HIDE DEF pos
  <1>4. pos + n \in 0..FileSize /\ pos \in 0..FileSize /\ pos % PIECE = 0
    BY <1>1, <1>2, <1>3 DEF pos
  <1>5. (pos + n) % PIECE = 0 \/ pos + n = FileSize
    <2>1. ASSUME n % PIECE = 0 PROVE (pos + n) % PIECE = 0
      <3>1. /\ pos = (pos \div PIECE) * PIECE + (pos % PIECE) /\ pos \div PIECE \in Nat
            /\ n = (n \div PIECE) * PIECE + (n % PIECE) /\ n \div PIECE \in Nat
        <4>1. pos \in Nat /\ n \in Nat
          BY <1>1, <1>2, <1>4
        <4> QED
          BY <4>1, PieceAssumption, DivBounds
      <3> DEFINE a == pos \div PIECE
                 b == n \div PIECE
      <3> HIDE DEF a, b
      <3>2. a \in Nat /\ b \in Nat /\ pos + n = (a + b) * PIECE
        <4>1. a \in Nat /\ b \in Nat /\ pos = a * PIECE /\ n = b * PIECE
          BY <1>2, <1>4, <2>1, <3>1, PieceAssumption DEF a, b
        <4> QED
          BY <4>1, PieceAssumption
      <3>3. a + b \in Nat
        BY <3>2
      <3> QED
        BY <3>2, <3>3, PieceAssumption
    <2> QED
      BY <1>2, <2>1
  <1>6. w \in Writes
    BY <1>1, <1>2, <1>4 DEF Writes
  <1> QED
    BY <1>2, <1>4, <1>5, <1>6 DEF pos, p

\* A task in which bytes of one pipe are stored.
Stored(t, i, s, n) == [t EXCEPT !.st = s, !.pipes[i].pos = @ + n]

\* What that is, field by field.
LEMMA StoredIs ==
    ASSUME NEW t \in TaskRecords, NEW i \in Indexes(t.pipes),
           NEW s \in Storages, NEW n, t.pipes[i].pos + n \in 0..FileSize,
           NEW u, u = Stored(t, i, s, n)
    PROVE  /\ u \in TaskRecords
           /\ u.st = s /\ u.readers = t.readers /\ u.code = t.code
           /\ Len(u.pipes) = Len(t.pipes)
           /\ u.pipes[i].pos = t.pipes[i].pos + n
           /\ \A j \in Indexes(t.pipes) \ {i} : u.pipes[j] = t.pipes[j]
  <1>1. /\ t = [st |-> t.st, readers |-> t.readers, pipes |-> t.pipes, code |-> t.code]
        /\ t.pipes \in Seq(PipeRecords) /\ t.code \in {0, 502} /\ i \in 1..Len(t.pipes)
        /\ t.readers \in Seq(ReaderRecords)
    BY DEF TaskRecords, Indexes
  <1>2. PICK p : p = t.pipes[i]
    OBVIOUS
  <1>3. p \in PipeRecords
    BY <1>1, <1>2
  <1>4. PICK a : a = [p EXCEPT !.pos = p.pos + n]
    OBVIOUS
  <1>5. a = [pos |-> p.pos + n, req_pos |-> p.req_pos, req_len |-> p.req_len,
             opened |-> p.opened]
    BY <1>3, <1>4 DEF PipeRecords
  <1>6. a \in PipeRecords
    <2>1. p.pos + n \in 0..FileSize
      BY <1>2
    <2> QED
      BY <1>3, <1>5, <2>1 DEF PipeRecords
  <1>7. PICK g : g = [t.pipes EXCEPT ![i] = a]
    OBVIOUS
  <1>8. /\ g \in Seq(PipeRecords) /\ Len(g) = Len(t.pipes)
        /\ \A j \in 1..Len(t.pipes) : g[j] = IF j = i THEN a ELSE t.pipes[j]
    BY <1>1, <1>6, <1>7, ExceptSeq
  <1>9. PICK w : w = [t EXCEPT !.st = s]
    OBVIOUS
  <1>10. w = [st |-> s, readers |-> t.readers, pipes |-> t.pipes, code |-> t.code]
    BY <1>1, <1>9
  <1>11. u = [w EXCEPT !.pipes[i].pos = @ + n]
    BY <1>9 DEF Stored
  <1>12. u = [st |-> s, readers |-> t.readers, pipes |-> g, code |-> t.code]
    BY <1>2, <1>4, <1>7, <1>10, <1>11
  <1>13. u.st = s /\ u.readers = t.readers /\ u.code = t.code /\ u.pipes = g
    BY <1>12
  <1>14. u \in TaskRecords
    BY <1>1, <1>8, <1>12 DEF TaskRecords
  <1>15. g[i].pos = t.pipes[i].pos + n
    BY <1>1, <1>2, <1>5, <1>8
  <1> QED
    BY <1>8, <1>13, <1>14, <1>15 DEF Indexes

\* The bytes of a chunk are stored, in the room that was made for them.
LEMMA StoredKeeps ==
    ASSUME NEW t, TaskOK(t), t.st.filesize > 0, Bounded(t),
           NEW i \in Indexes(t.pipes), NEW n \in Chunks(t.pipes[i]), n > 0,
           NEW s, s = Write(ClearBufferFor(t.st, n, HoldPositions(t)), t.pipes[i].pos, n),
           NEW u, u = Stored(t, i, s, n)
    PROVE  /\ TaskOK(u) /\ u.st.filesize > 0 /\ Bounded(u)
           /\ u.readers = t.readers /\ u.code = t.code
           /\ Len(u.pipes) = Len(t.pipes)
           /\ \A j \in Indexes(t.pipes) \ {i} : u.pipes[j] = t.pipes[j]
  <1> DEFINE pos == t.pipes[i].pos
             hold == HoldPositions(t)
             room == ClearBufferFor(t.st, n, hold)
  <1>1. PICK w : w = [pos |-> pos, len |-> n]
    OBVIOUS
  <1>2. /\ w \in Writes /\ w.pos = pos /\ w.len = n /\ n \in 0..MaxRecv
        /\ pos + n \in 0..FileSize /\ ((pos + n) % PIECE = 0 \/ pos + n = FileSize)
    BY <1>1, ChunkIsWrite
  <1>3. hold \in Seq(Nat) /\ MaxHeld \in Nat /\ Len(hold) <= MaxHeld
    BY HoldPositionsAre
  <1>4. Sound(t.st) /\ t.st.estimate_size = t.st.filesize /\ t \in TaskRecords
    BY DEF TaskOK
  <1> HIDE DEF hold, pos
  <1>5. Sound(room) /\ room.filesize = t.st.filesize /\ room.estimate_size = t.st.estimate_size
    BY <1>4, ClearSound
  <1>6. room.completed_size + n <= HoldSize(MaxHeld) + MaxRecv
    BY <1>2, <1>3, <1>4, ClearBound DEF Bounded
  <1> HIDE DEF room
  <1>7. s = Write(room, w.pos, w.len) /\ room.filesize > 0
    BY <1>2, <1>5 DEF room, pos, hold
  <1>8. Sound(s) /\ s.filesize = room.filesize /\ s.estimate_size = room.estimate_size
    BY <1>2, <1>5, <1>7, WriteSound
  <1>9. s.completed_size <= HoldSize(MaxHeld) + MaxRecv
    <2>1. s.completed_size \in Int /\ s.completed_size <= room.completed_size + n
      BY <1>2, <1>5, <1>7, WriteBound
    <2>2. room.completed_size \in Int /\ n \in Nat /\ HoldSize(MaxHeld) + MaxRecv \in Int
      <3>1. HoldSize(MaxHeld) \in Nat
        BY <1>3, HoldSizeMonotone
      <3>2. room.completed_size \in Int
        BY <1>5 DEF Sound, Storages
      <3> QED
        BY <1>2, <3>1, <3>2, FileAssumption
    <2> QED
      BY <1>6, <2>1, <2>2
  <1>10. s \in Storages
    BY <1>8 DEF Sound
  <1>11. /\ u \in TaskRecords
         /\ u.st = s /\ u.readers = t.readers /\ u.code = t.code
         /\ Len(u.pipes) = Len(t.pipes)
         /\ u.pipes[i].pos = pos + n
         /\ \A j \in Indexes(t.pipes) \ {i} : u.pipes[j] = t.pipes[j]
    BY <1>2, <1>4, <1>10, StoredIs DEF pos
  <1>12. u.st.filesize = t.st.filesize /\ u.st.estimate_size = u.st.filesize
    BY <1>4, <1>5, <1>8, <1>11
  <1>13. \A j \in Indexes(u.readers) : ReaderOK(u, u.readers[j])
    BY <1>11, <1>12 DEF TaskOK, ReaderOK
  <1>14. \A j \in Indexes(u.pipes) : PipeOK(u, u.pipes[j])
    <2>1. ASSUME NEW j \in Indexes(u.pipes) PROVE PipeOK(u, u.pipes[j])
      <3>1. u.st.filesize > 0
        BY <1>12
      <3>2. CASE j = i
        BY <1>2, <1>11, <3>1, <3>2 DEF PipeOK
      <3>3. CASE j # i
        <4>1. j \in Indexes(t.pipes) /\ u.pipes[j] = t.pipes[j]
          BY <1>11, <3>3 DEF Indexes
        <4>2. PipeOK(t, t.pipes[j])
          BY <4>1 DEF TaskOK
        <4> QED
          BY <3>1, <4>1, <4>2 DEF PipeOK
      <3> QED
        BY <3>2, <3>3
    <2> QED
      BY <2>1
  <1>15. \A j, k \in Indexes(u.readers) : j # k => u.readers[j].id # u.readers[k].id
    BY <1>11 DEF TaskOK
  <1>16. Sound(u.st)
    BY <1>8, <1>11
  <1>17. TaskOK(u)
    BY <1>11, <1>12, <1>13, <1>14, <1>15, <1>16 DEF TaskOK
  <1>18. Bounded(u)
    BY <1>9, <1>11 DEF Bounded
  <1> QED
    BY <1>11, <1>12, <1>17, <1>18

\* A chunk of a reply: pipes that were apart still are, though one moved and
\* others were opened, and every session is fed.
LEMMA ReceivedKeeps ==
    ASSUME NEW t, TaskOK(t), t.st.filesize > 0, Bounded(t), Apart(t.pipes, 0),
           NEW i \in Indexes(t.pipes), NEW n \in Chunks(t.pipes[i]), n > 0,
           NEW u, u = Received(t, i, n)
    PROVE  /\ TaskOK(u) /\ Bounded(u) /\ Apart(u.pipes, 0)
           /\ Len(u.readers) = Len(t.readers)
           /\ MAX_CACHE_LEN >= 2 => \A j \in Indexes(u.readers) : Fed(u, j)
  <1>1. PICK s : s = Write(ClearBufferFor(t.st, n, HoldPositions(t)), t.pipes[i].pos, n)
    OBVIOUS
  <1>2. PICK v : v = Stored(t, i, s, n)
    OBVIOUS
  <1>3. /\ TaskOK(v) /\ v.st.filesize > 0 /\ Bounded(v)
        /\ v.readers = t.readers /\ Len(v.pipes) = Len(t.pipes)
        /\ \A j \in Indexes(t.pipes) \ {i} : v.pipes[j] = t.pipes[j]
    BY <1>1, <1>2, StoredKeeps
  <1>4. PICK w : w = TransferAll(v)
    OBVIOUS
  <1>5. u = DispatchPipe(w, i)
    BY <1>1, <1>2, <1>4 DEF Received, Stored
  <1>6. /\ TaskOK(w) /\ w.st = v.st /\ Len(w.readers) = Len(v.readers)
        /\ GrownPipes(v.pipes, w.pipes)
        /\ MAX_CACHE_LEN >= 2 => \A j \in 1..Len(v.readers) : Fed(w, j)
    BY <1>3, <1>4, AllFed DEF FirstFed, Moved
  <1>7. i \in Indexes(w.pipes) /\ Apart(w.pipes, i)
    <2>1. Apart(v.pipes, i)
      BY <1>3 DEF Apart, Indexes
    <2>2. v.pipes \in Seq(PipeRecords) /\ Len(v.pipes) \in Nat
      BY <1>3, PipeParts
    <2>3. Len(v.pipes) <= Len(w.pipes) /\ Len(w.pipes) \in Nat
      BY <1>6, PipeParts DEF GrownPipes
    <2> QED
      BY <1>3, <1>6, <2>1, <2>2, <2>3, GrownApart DEF Indexes
  <1>8. /\ TaskOK(u) /\ Apart(u.pipes, 0)
        /\ u.st = w.st /\ u.readers = w.readers /\ u.code = w.code
        /\ MAX_CACHE_LEN > 0 =>
             \A k \in Indexes(w.readers) :
                HasPipe(w, w.readers[k].at) => HasPipe(u, w.readers[k].at)
    BY <1>5, <1>6, <1>7, DispatchPipeKeeps
  <1>9. Bounded(u)
    BY <1>3, <1>6, <1>8 DEF Bounded
  <1>10. ASSUME MAX_CACHE_LEN >= 2, NEW j \in Indexes(u.readers) PROVE Fed(u, j)
    <2>1. j \in Indexes(w.readers) /\ Fed(w, j)
      BY <1>6, <1>8, <1>10 DEF Indexes
    <2>2. MAX_CACHE_LEN > 0
      BY <1>10, CacheAssumption
    <2> QED
      BY <1>8, <2>1, <2>2 DEF Fed
  <1> QED
    BY <1>3, <1>6, <1>8, <1>9, <1>10

-----------------------------------------------------------------------------
(* The steps of the task, as functions of its state.                       *)

\* What every step keeps.
Good(t) ==
    /\ TaskOK(t) /\ Bounded(t) /\ Apart(t.pipes, 0)
    /\ t.readers = <<>> => t.pipes = <<>>
    /\ MAX_CACHE_LEN >= 2 => \A j \in Indexes(t.readers) : Fed(t, j)

\* A task with one reader more.
Joined(t, r) == [t EXCEPT !.readers = Append(@, r)]

\* add_reader() by itself: the readers before the new one are as they were.
LEMMA AddedKeeps ==
    ASSUME NEW t, TaskOK(t), NEW r \in ReaderRecords, ReaderOK(t, r),
           \A j \in Indexes(t.readers) : t.readers[j].id # r.id,
           NEW u, u = Joined(t, r)
    PROVE  /\ TaskOK(u) /\ u.st = t.st /\ u.pipes = t.pipes /\ u.code = t.code
           /\ Len(u.readers) = Len(t.readers) + 1 /\ u.readers[Len(t.readers) + 1] = r
           /\ \A j \in Indexes(t.readers) : u.readers[j] = t.readers[j]
  <1>1. /\ t = [st |-> t.st, readers |-> t.readers, pipes |-> t.pipes, code |-> t.code]
        /\ t.readers \in Seq(ReaderRecords) /\ Len(t.readers) \in Nat
        /\ t \in TaskRecords
    BY ReaderParts, TaskParts DEF TaskOK
  <1>2. PICK q : q = Append(t.readers, r)
    OBVIOUS
  <1>3. /\ q \in Seq(ReaderRecords) /\ Len(q) = Len(t.readers) + 1
        /\ q[Len(t.readers) + 1] = r
        /\ \A j \in 1..Len(t.readers) : q[j] = t.readers[j]
    BY <1>1, <1>2
  <1>4. u = [st |-> t.st, readers |-> q, pipes |-> t.pipes, code |-> t.code]
    BY <1>1, <1>2 DEF Joined
  <1>5. u.st = t.st /\ u.readers = q /\ u.pipes = t.pipes /\ u.code = t.code
    BY <1>4
  <1>6. u \in TaskRecords
    BY <1>1, <1>3, <1>4 DEF TaskRecords
  <1>7. \A j \in Indexes(u.readers) : j = Len(t.readers) + 1 \/ j \in Indexes(t.readers)
    BY <1>1, <1>3, <1>5 DEF Indexes
  <1>8. \A j \in Indexes(u.readers) : ReaderOK(u, u.readers[j])
    BY <1>3, <1>5, <1>7 DEF TaskOK, ReaderOK, Indexes
  <1>9. \A j, k \in Indexes(u.readers) : j # k => u.readers[j].id # u.readers[k].id
    <2>1. \A j, k \in Indexes(t.readers) : j # k => t.readers[j].id # t.readers[k].id
      BY DEF TaskOK
    <2>2. \A j \in Indexes(t.readers) : q[j] = t.readers[j]
      BY <1>3 DEF Indexes
    <2>3. \A j \in Indexes(t.readers) : q[j].id # r.id
      BY <2>2
    <2> QED
      BY <1>3, <1>5, <1>7, <2>1, <2>2, <2>3
  <1>10. \A j \in Indexes(u.pipes) : PipeOK(u, u.pipes[j])
    BY <1>5 DEF TaskOK, PipeOK
  <1>11. Sound(u.st) /\ u.st.estimate_size = u.st.filesize
    BY <1>5 DEF TaskOK
  <1>12. TaskOK(u)
    BY <1>6, <1>8, <1>9, <1>10, <1>11 DEF TaskOK
  <1> QED
    BY <1>3, <1>5, <1>12 DEF Indexes

\* add_reader(), with its dispatch_reader().
LEMMA AddedDispatched ==
    ASSUME NEW t, Good(t), NEW r \in ReaderRecords, ReaderOK(t, r),
           \A j \in Indexes(t.readers) : t.readers[j].id # r.id,
           NEW u, u = DispatchReader(Joined(t, r), r.at)
    PROVE  /\ TaskOK(u) /\ Bounded(u) /\ Apart(u.pipes, 0)
           /\ u.st = t.st /\ u.code = t.code
           /\ Len(u.readers) = Len(t.readers) + 1 /\ u.readers[Len(t.readers) + 1] = r
           /\ MAX_CACHE_LEN >= 2 =>
                /\ \A j \in Indexes(t.readers) : Fed(u, j)
                /\ Waits(t, r.at) => HasPipe(u, PieceStart(r.at))
  <1>1. PICK v : v = Joined(t, r)
    OBVIOUS
  <1>2. /\ TaskOK(t) /\ Bounded(t) /\ Apart(t.pipes, 0)
        /\ MAX_CACHE_LEN >= 2 => \A j \in Indexes(t.readers) : Fed(t, j)
    BY DEF Good
  <1>3. /\ TaskOK(v) /\ v.st = t.st /\ v.pipes = t.pipes /\ v.code = t.code
        /\ Len(v.readers) = Len(t.readers) + 1 /\ v.readers[Len(t.readers) + 1] = r
        /\ \A j \in Indexes(t.readers) : v.readers[j] = t.readers[j]
    BY <1>1, <1>2, AddedKeeps
  <1>4. r.at \in 0..FileSize /\ u = DispatchReader(v, r.at)
    BY <1>1 DEF ReaderRecords
  <1>5. Grown(v, u)
    BY <1>3, <1>4, DispatchGrows
  <1>6. /\ TaskOK(u) /\ u.st = v.st /\ u.readers = v.readers /\ u.code = v.code
        /\ GrownPipes(v.pipes, u.pipes)
    BY <1>3, <1>5, GrownKeeps DEF Grown
  <1>7. Apart(u.pipes, 0)
    BY <1>2, <1>3, <1>6, PipeParts, GrownApart
  <1>8. Bounded(u)
    BY <1>2, <1>3, <1>6 DEF Bounded
  <1>9. ASSUME MAX_CACHE_LEN >= 2, NEW j \in Indexes(t.readers) PROVE Fed(u, j)
    BY <1>2, <1>3, <1>6, <1>9, FedStays
  <1>10. ASSUME MAX_CACHE_LEN >= 2, Waits(t, r.at) PROVE HasPipe(u, PieceStart(r.at))
    BY <1>3, <1>4, <1>10, DispatchAsks DEF Waits
  <1> QED
    BY <1>3, <1>6, <1>7, <1>8, <1>9, <1>10

\* A session is added, and reads.
LEMMA ReaderAdded ==
    ASSUME NEW t, Good(t), NEW r \in ReaderRecords, ReaderOK(t, r),
           \A j \in Indexes(t.readers) : t.readers[j].id # r.id,
           r.at < FileSize,
           NEW v, v = DispatchReader(Joined(t, r), r.at),
           NEW u, u = Transfer(v, Len(v.readers))
    PROVE  Good(u)
  <1> DEFINE n == Len(t.readers) + 1
  <1> HIDE DEF n
  <1>1. /\ TaskOK(v) /\ Bounded(v) /\ Apart(v.pipes, 0)
        /\ v.st = t.st /\ v.code = t.code
        /\ Len(v.readers) = n /\ v.readers[n] = r
        /\ MAX_CACHE_LEN >= 2 =>
             /\ \A j \in Indexes(t.readers) : Fed(v, j)
             /\ Waits(t, r.at) => HasPipe(v, PieceStart(r.at))
    BY AddedDispatched DEF n
  <1>2. Len(t.readers) \in Nat /\ TaskOK(t)
    BY ReaderParts DEF Good
  <1>3. n \in Indexes(v.readers) /\ \A j \in Indexes(v.readers) \ {n} : j \in Indexes(t.readers)
    BY <1>1, <1>2 DEF Indexes, n
  <1>4. /\ Moved(v, u)
        /\ \A j \in Indexes(v.readers) \ {n} : u.readers[j] = v.readers[j]
        /\ MAX_CACHE_LEN >= 2 /\ (v.st.filesize = 0 => Fed(v, n)) => Fed(u, n)
    BY <1>1, <1>3, TransferMoves
  <1>5. ASSUME MAX_CACHE_LEN >= 2, v.st.filesize = 0 PROVE Fed(v, n)
    <2>1. t.st.pieces = {}
      BY <1>1, <1>2, <1>5, TaskParts
    <2>2. v.code = 0 /\ r.at % PIECE = 0 => HasPipe(v, r.at)
      <3>1. r.at \in Nat
        BY FileAssumption DEF ReaderRecords
      <3> QED
        BY <1>1, <1>5, <2>1, <3>1, PieceStartIs DEF Waits
    <2> QED
      BY <1>1, <2>1, <2>2 DEF Fed
  <1>6. ASSUME MAX_CACHE_LEN >= 2, NEW j \in Indexes(u.readers) PROVE Fed(u, j)
    <2>1. j \in Indexes(v.readers)
      BY <1>4 DEF Moved, Indexes
    <2>2. CASE j = n
      BY <1>4, <1>5, <1>6, <2>2
    <2>3. CASE j # n
      <3>1. Fed(v, j) /\ u.readers[j] = v.readers[j]
        BY <1>1, <1>3, <1>4, <1>6, <2>1, <2>3
      <3> QED
        BY <1>1, <1>4, <3>1, FedStays DEF Moved
    <2> QED
      BY <2>2, <2>3
  <1>7. TaskOK(u) /\ Bounded(u)
    BY <1>1, <1>4 DEF Moved, Bounded
  <1>8. Apart(u.pipes, 0)
    BY <1>1, <1>4, PipeParts, GrownApart DEF Moved
  <1>9. u.readers # <<>>
    BY <1>1, <1>2, <1>4 DEF Moved, n
  <1> QED
    BY <1>6, <1>7, <1>8, <1>9 DEF Good

\* A preloader is added.
LEMMA PreloaderAdded ==
    ASSUME NEW t, Good(t), NEW r \in ReaderRecords, ReaderOK(t, r), r.id \notin Readers,
           \A j \in Indexes(t.readers) : t.readers[j].id # r.id,
           NEW u, u = DispatchReader(Joined(t, r), r.at)
    PROVE  Good(u)
  <1>1. /\ TaskOK(u) /\ Bounded(u) /\ Apart(u.pipes, 0)
        /\ Len(u.readers) = Len(t.readers) + 1 /\ u.readers[Len(t.readers) + 1] = r
        /\ MAX_CACHE_LEN >= 2 => \A j \in Indexes(t.readers) : Fed(u, j)
    BY AddedDispatched
  <1>2. Len(t.readers) \in Nat
    BY ReaderParts DEF Good
  <1>3. ASSUME MAX_CACHE_LEN >= 2, NEW j \in Indexes(u.readers) PROVE Fed(u, j)
    <2>1. j = Len(t.readers) + 1 \/ j \in Indexes(t.readers)
      BY <1>1, <1>2 DEF Indexes
    <2>2. CASE j = Len(t.readers) + 1
      BY <1>1, <2>2 DEF Fed
    <2> QED
      BY <1>1, <1>3, <2>1, <2>2
  <1>4. u.readers # <<>>
    BY <1>1, <1>2
  <1> QED
    BY <1>1, <1>3, <1>4 DEF Good

\* A task with one reader less.
Left(t, i) == [t EXCEPT !.readers = RemoveIndex(@, i)]

\* The readers that are left are as they were.
LEMMA LeftKeeps ==
    ASSUME NEW t, TaskOK(t), NEW i \in Indexes(t.readers), NEW u, u = Left(t, i)
    PROVE  /\ TaskOK(u) /\ u.st = t.st /\ u.pipes = t.pipes /\ u.code = t.code
           /\ \A j \in Indexes(u.readers) :
                 \E k \in Indexes(t.readers) \ {i} : u.readers[j] = t.readers[k]
  <1>1. /\ t = [st |-> t.st, readers |-> t.readers, pipes |-> t.pipes, code |-> t.code]
        /\ t.readers \in Seq(ReaderRecords) /\ t \in TaskRecords
    BY TaskParts DEF TaskOK
  <1>2. PICK q : q = RemoveIndex(t.readers, i)
    OBVIOUS
  <1>3. q \in Seq(ReaderRecords)
    BY <1>1, <1>2, RemoveIs
  <1> DEFINE from(j) == IF j < i THEN j ELSE j + 1
  <1>4. /\ \A j \in Indexes(q) : from(j) \in Indexes(t.readers) \ {i} /\ q[j] = t.readers[from(j)]
        /\ \A j, k \in Indexes(q) : j # k => from(j) # from(k)
    BY <1>1, <1>2, RemoveKeeps
  <1> HIDE DEF from
  <1>5. u = [st |-> t.st, readers |-> q, pipes |-> t.pipes, code |-> t.code]
    BY <1>1, <1>2 DEF Left
  <1>6. u.st = t.st /\ u.readers = q /\ u.pipes = t.pipes /\ u.code = t.code
    BY <1>5
  <1>7. u \in TaskRecords
    BY <1>1, <1>3, <1>5 DEF TaskRecords
  <1>8. \A j \in Indexes(u.readers) : ReaderOK(u, u.readers[j])
    BY <1>4, <1>6 DEF TaskOK, ReaderOK
  <1>9. \A j, k \in Indexes(u.readers) : j # k => u.readers[j].id # u.readers[k].id
    <2>1. \A j, k \in Indexes(t.readers) : j # k => t.readers[j].id # t.readers[k].id
      BY DEF TaskOK
    <2> QED
      BY <1>4, <1>6, <2>1
  <1>10. \A j \in Indexes(u.pipes) : PipeOK(u, u.pipes[j])
    BY <1>6 DEF TaskOK, PipeOK
  <1>11. Sound(u.st) /\ u.st.estimate_size = u.st.filesize
    BY <1>6 DEF TaskOK
  <1>12. TaskOK(u)
    BY <1>6, <1>7, <1>8, <1>9, <1>10, <1>11 DEF TaskOK
  <1> QED
    BY <1>4, <1>6, <1>12

\* A reader leaves; the others were fed, and are.  It may be the last one:
\* then all pipes are closed.
LEMMA ReaderRemoved ==
    ASSUME NEW t, TaskOK(t), Bounded(t), Apart(t.pipes, 0), NEW i \in Indexes(t.readers),
           MAX_CACHE_LEN >= 2 => \A j \in Indexes(t.readers) \ {i} : Fed(t, j),
           NEW u, u = Removed(t, i)
    PROVE  Good(u)
  <1>1. PICK v : v = Left(t, i)
    OBVIOUS
  <1>2. /\ TaskOK(v) /\ v.st = t.st /\ v.pipes = t.pipes /\ v.code = t.code
        /\ \A j \in Indexes(v.readers) :
              \E k \in Indexes(t.readers) \ {i} : v.readers[j] = t.readers[k]
    BY <1>1, LeftKeeps
  <1>3. u = DispatchPipes(v)
    BY <1>1 DEF Removed, Left
  <1>4. PipesLeft(v, u, 0)
    BY <1>2, <1>3, AllPipesDispatched
  <1>5. /\ TaskOK(u) /\ u.st = v.st /\ u.readers = v.readers /\ u.code = v.code
        /\ Apart(u.pipes, 0)
        /\ v.readers = <<>> => Len(u.pipes) = 0
        /\ MAX_CACHE_LEN > 0 =>
             \A k \in Indexes(v.readers) :
                HasPipe(v, v.readers[k].at) => HasPipe(u, v.readers[k].at)
    BY <1>2, <1>4 DEF PipesLeft
  <1>6. ASSUME MAX_CACHE_LEN >= 2, NEW j \in Indexes(u.readers) PROVE Fed(u, j)
    <2>1. PICK k \in Indexes(t.readers) \ {i} : u.readers[j] = t.readers[k]
      BY <1>2, <1>5, <1>6
    <2>2. Fed(t, k) /\ MAX_CACHE_LEN > 0
      BY <1>6, CacheAssumption
    <2>3. \A pos : HasPipe(t, pos) => HasPipe(v, pos)
      BY <1>2 DEF HasPipe
    <2> QED
      BY <1>2, <1>5, <1>6, <2>1, <2>2, <2>3 DEF Fed
  <1>7. u.readers = <<>> => u.pipes = <<>>
    <2>1. u.pipes \in Seq(PipeRecords)
      BY <1>5, PipeParts
    <2> QED
      BY <1>5, <2>1
  <1>8. Bounded(u)
    BY <1>2, <1>5 DEF Bounded
  <1> QED
    BY <1>5, <1>6, <1>7, <1>8 DEF Good

\* A task one reader of which was sent k bytes.
SentTo(t, i, k) == [t EXCEPT !.readers[i].unsent = @ - k]

\* What that is, field by field.
LEMMA SentIs ==
    ASSUME NEW v \in TaskRecords, NEW i \in 1..Len(v.readers), NEW k, NEW u,
           u = SentTo(v, i, k),
           NEW q, q = [id |-> v.readers[i].id, at |-> v.readers[i].at,
                       unsent |-> v.readers[i].unsent - k, end |-> v.readers[i].end]
    PROVE  u = WithReader(v, i, q)
  <1>1. /\ v = [st |-> v.st, readers |-> v.readers, pipes |-> v.pipes, code |-> v.code]
        /\ v.readers \in Seq(ReaderRecords)
    BY DEF TaskRecords
  <1>2. PICK r : r = v.readers[i]
    OBVIOUS
  <1>3. r \in ReaderRecords
    BY <1>1, <1>2
  <1>4. PICK a : a = [r EXCEPT !.unsent = r.unsent - k]
    OBVIOUS
  <1>5. a = [id |-> r.id, at |-> r.at, unsent |-> r.unsent - k, end |-> r.end]
    BY <1>3, <1>4 DEF ReaderRecords
  <1>6. a = q
    BY <1>2, <1>5
  <1>7. u = [st |-> v.st, readers |-> [v.readers EXCEPT ![i] = a], pipes |-> v.pipes,
             code |-> v.code]
    BY <1>1, <1>2, <1>4 DEF SentTo
  <1> QED
    BY <1>6, <1>7 DEF WithReader

\* A client is sent bytes: its reader reads on, or has had all and leaves.
LEMMA BytesSent ==
    ASSUME NEW t, Good(t), NEW i \in Indexes(t.readers), NEW k \in 1..2 * LIMIT,
           k <= t.readers[i].unsent, NEW v, v = SentTo(t, i, k), NEW u,
           u = IF v.readers[i].at = v.readers[i].end /\ v.readers[i].unsent = 0
               THEN Removed(v, i) ELSE Transfer(v, i)
    PROVE  Good(u)
  <1>1. /\ TaskOK(t) /\ Bounded(t) /\ Apart(t.pipes, 0) /\ t \in TaskRecords
        /\ MAX_CACHE_LEN >= 2 => \A j \in Indexes(t.readers) : Fed(t, j)
    BY DEF Good, TaskOK
  <1>2. PICK r : r = t.readers[i]
    OBVIOUS
  <1>3. /\ r \in ReaderRecords /\ r.at \in 0..FileSize /\ r.end \in 0..FileSize
        /\ r.unsent \in 0..2 * LIMIT /\ r.id \in Readers \cup Preloaders /\ ReaderOK(t, r)
        /\ LIMIT \in Nat /\ i \in 1..Len(t.readers) /\ Len(t.readers) \in Nat
    BY <1>1, <1>2, ReaderParts, TaskAssumption DEF Indexes
  <1>4. t.st.filesize # 0 /\ t.st.filesize > 0
    BY <1>1, <1>2, <1>3, TaskParts DEF ReaderOK
  <1>5. PICK q : q = [id |-> r.id, at |-> r.at, unsent |-> r.unsent - k, end |-> r.end]
    OBVIOUS
  <1>6. q \in ReaderRecords /\ ReaderOK(t, q) /\ q.id = r.id
    <2>1. r.unsent - k \in 0..2 * LIMIT
      BY <1>2, <1>3
    <2> QED
      BY <1>3, <1>4, <1>5, <2>1 DEF ReaderRecords, ReaderOK
  <1>7. v = WithReader(t, i, q)
    BY <1>1, <1>2, <1>3, <1>5, SentIs
  <1>8. /\ TaskOK(v)
        /\ v.st = t.st /\ v.pipes = t.pipes /\ v.code = t.code
        /\ Len(v.readers) = Len(t.readers)
        /\ \A j \in Indexes(t.readers) \ {i} : v.readers[j] = t.readers[j]
    BY <1>1, <1>2, <1>6, <1>7, ReaderSet
  <1>9. /\ Bounded(v) /\ Apart(v.pipes, 0) /\ Indexes(v.readers) = Indexes(t.readers)
    BY <1>1, <1>8 DEF Bounded, Indexes
  <1>10. ASSUME MAX_CACHE_LEN >= 2, NEW j \in Indexes(v.readers) \ {i} PROVE Fed(v, j)
    <2>1. Fed(t, j) /\ v.readers[j] = t.readers[j]
      BY <1>1, <1>8, <1>9, <1>10
    <2>2. \A pos : HasPipe(t, pos) => HasPipe(v, pos)
      BY <1>8 DEF HasPipe
    <2> QED
      BY <1>8, <2>1, <2>2 DEF Fed
  <1>11. CASE u = Removed(v, i)
    BY <1>8, <1>9, <1>10, <1>11, ReaderRemoved
  <1>12. CASE u = Transfer(v, i)
    <2>1. /\ Moved(v, u)
          /\ \A j \in Indexes(v.readers) \ {i} : u.readers[j] = v.readers[j]
          /\ MAX_CACHE_LEN >= 2 /\ (v.st.filesize = 0 => Fed(v, i)) => Fed(u, i)
      BY <1>8, <1>9, <1>12, TransferMoves
    <2>2. ASSUME MAX_CACHE_LEN >= 2, NEW j \in Indexes(u.readers) PROVE Fed(u, j)
      <3>1. j \in Indexes(v.readers)
        BY <2>1 DEF Moved, Indexes
      <3>2. CASE j = i
        BY <1>4, <1>8, <2>1, <2>2, <3>2
      <3>3. CASE j # i
        <4>1. Fed(v, j) /\ u.readers[j] = v.readers[j]
          BY <1>10, <2>1, <2>2, <3>1, <3>3
        <4> QED
          BY <1>8, <2>1, <4>1, FedStays DEF Moved
      <3> QED
        BY <3>2, <3>3
    <2>3. TaskOK(u) /\ Bounded(u)
      BY <1>9, <2>1 DEF Moved, Bounded
    <2>4. Apart(u.pipes, 0)
      BY <1>8, <1>9, <2>1, PipeParts, GrownApart DEF Moved
    <2>5. u.readers # <<>>
      BY <1>3, <1>8, <2>1 DEF Moved
    <2> QED
      BY <2>2, <2>3, <2>4, <2>5 DEF Good
  <1> QED
    BY <1>11, <1>12

\* Every starved session has a pipe at the start of the piece it needs.
AllAsked(t) ==
    \A j \in Indexes(t.readers) :
        t.code = 0 /\ t.readers[j].id \in Readers /\ Starved(t.readers[j])
          => HasPipe(t, PieceStart(t.readers[j].at))

\* A reply has ended: the pipe is gone, and every session that waited for it
\* has another one.
LEMMA PipeCompleted ==
    ASSUME NEW t, Good(t), NEW i \in Indexes(t.pipes), t.pipes[i].opened,
           NEW u, u = DispatchReaders(WithoutPipe(t, i))
    PROVE  Good(u) /\ (MAX_CACHE_LEN >= 2 => AllAsked(u))
  <1>1. PICK v : v = WithoutPipe(t, i)
    OBVIOUS
  <1>2. /\ TaskOK(t) /\ Bounded(t) /\ Apart(t.pipes, 0)
        /\ t.readers = <<>> => t.pipes = <<>>
        /\ MAX_CACHE_LEN >= 2 => \A j \in Indexes(t.readers) : Fed(t, j)
    BY DEF Good
  <1>3. /\ TaskOK(v) /\ v.st = t.st /\ v.readers = t.readers /\ v.code = t.code
        /\ Apart(t.pipes, i) => Apart(v.pipes, 0)
    BY <1>1, <1>2, RemovedPipe
  <1>4. Apart(v.pipes, 0) /\ v.pipes \in Seq(PipeRecords)
    <2>1. Apart(t.pipes, i)
      BY <1>2 DEF Apart, Indexes
    <2> QED
      BY <1>3, <2>1, PipeParts
  <1>5. /\ Grown(v, u)
        /\ MAX_CACHE_LEN >= 2 =>
             \A k \in Indexes(v.readers) :
               Waits(v, v.readers[k].at) => HasPipe(u, PieceStart(v.readers[k].at))
    BY <1>1, <1>3, AllDispatched
  <1>6. /\ TaskOK(u) /\ u.st = v.st /\ u.readers = v.readers /\ u.code = v.code
        /\ GrownPipes(v.pipes, u.pipes)
    BY <1>3, <1>5, GrownKeeps DEF Grown
  <1>7. Apart(u.pipes, 0) /\ Bounded(u)
    BY <1>2, <1>3, <1>4, <1>6, GrownApart DEF Bounded
  <1>8. u.readers # <<>>
    <2>1. t.pipes # <<>>
      BY DEF Indexes
    <2> QED
      BY <1>2, <1>3, <1>6, <2>1
  <1>9. t.st.filesize > 0
    BY <1>2 DEF TaskOK, PipeOK
  <1>10. ASSUME MAX_CACHE_LEN >= 2, NEW j \in Indexes(u.readers),
                u.readers[j].id \in Readers, Starved(u.readers[j])
         PROVE  /\ PieceAt(u.readers[j].at) \notin u.st.pieces
                /\ u.code = 0 => HasPipe(u, PieceStart(u.readers[j].at))
    <2>1. u.readers[j] = t.readers[j] /\ j \in Indexes(t.readers) /\ j \in Indexes(v.readers)
      BY <1>3, <1>6, <1>10
    <2>2. PieceAt(t.readers[j].at) \notin t.st.pieces
      BY <1>2, <1>10, <2>1 DEF Fed
    <2>3. t.readers[j].at < FileSize
      <3>1. /\ t.readers[j].at \in 0..FileSize /\ t.readers[j].end \in 0..FileSize
            /\ ReaderOK(t, t.readers[j]) /\ FileSize \in Nat
        BY <1>2, <2>1, ReaderParts, FileAssumption DEF Indexes
      <3>2. t.readers[j].end # 0
        BY <1>9, <1>10, <2>1, <3>1 DEF ReaderOK
      <3> QED
        BY <1>10, <2>1, <3>1, <3>2 DEF Starved
    <2>4. u.code = 0 => Waits(v, v.readers[j].at)
      BY <1>3, <1>6, <2>1, <2>2, <2>3 DEF Waits
    <2> QED
      BY <1>3, <1>5, <1>6, <1>10, <2>1, <2>2, <2>4
  <1>11. ASSUME MAX_CACHE_LEN >= 2, NEW j \in Indexes(u.readers) PROVE Fed(u, j)
    <2>1. u.readers[j].at \in Nat
      BY <1>6, ReaderParts, FileAssumption DEF Indexes
    <2>2. u.readers[j].at % PIECE = 0 => PieceStart(u.readers[j].at) = u.readers[j].at
      BY <2>1, PieceStartIs
    <2> QED
      BY <1>10, <1>11, <2>2 DEF Fed
  <1>12. MAX_CACHE_LEN >= 2 => AllAsked(u)
    BY <1>10 DEF AllAsked
  <1> QED
    BY <1>6, <1>7, <1>8, <1>11, <1>12 DEF Good

\* A task a download of which has failed.
Failed(t) == [t EXCEPT !.code = 502]

\* What that is, field by field.
LEMMA FailedIs ==
    ASSUME NEW t \in TaskRecords, NEW u, u = Failed(t)
    PROVE  /\ u \in TaskRecords
           /\ u.st = t.st /\ u.readers = t.readers /\ u.pipes = t.pipes /\ u.code = 502
  <1>1. /\ t = [st |-> t.st, readers |-> t.readers, pipes |-> t.pipes, code |-> t.code]
        /\ t.st \in Storages /\ t.readers \in Seq(ReaderRecords)
        /\ t.pipes \in Seq(PipeRecords)
    BY DEF TaskRecords
  <1>2. u = [st |-> t.st, readers |-> t.readers, pipes |-> t.pipes, code |-> 502]
    BY <1>1 DEF Failed
  <1>3. u \in TaskRecords
    BY <1>1, <1>2 DEF TaskRecords
  <1> QED
    BY <1>2, <1>3

\* A download fails: the pipe is gone for good, and the code says why.
LEMMA PipeFailed ==
    ASSUME NEW t, Good(t), NEW i \in Indexes(t.pipes),
           NEW u, u = Failed(WithoutPipe(t, i))
    PROVE  Good(u)
  <1>1. PICK v : v = WithoutPipe(t, i)
    OBVIOUS
  <1>2. /\ TaskOK(t) /\ Bounded(t) /\ Apart(t.pipes, 0)
        /\ t.readers = <<>> => t.pipes = <<>>
        /\ MAX_CACHE_LEN >= 2 => \A j \in Indexes(t.readers) : Fed(t, j)
    BY DEF Good
  <1>3. /\ TaskOK(v) /\ v.st = t.st /\ v.readers = t.readers
        /\ Apart(t.pipes, i) => Apart(v.pipes, 0)
    BY <1>1, <1>2, RemovedPipe
  <1>4. v \in TaskRecords
    BY <1>3 DEF TaskOK
  <1>5. u = Failed(v)
    BY <1>1
  <1>6. /\ u \in TaskRecords
        /\ u.st = v.st /\ u.readers = v.readers /\ u.pipes = v.pipes /\ u.code = 502
    BY <1>4, <1>5, FailedIs
  <1>7. TaskOK(u)
    <2>1. \A j \in Indexes(u.readers) : ReaderOK(u, u.readers[j])
      BY <1>3, <1>6 DEF TaskOK, ReaderOK
    <2>2. \A j \in Indexes(u.pipes) : PipeOK(u, u.pipes[j])
      BY <1>3, <1>6 DEF TaskOK, PipeOK
    <2>3. \A j, k \in Indexes(u.readers) : j # k => u.readers[j].id # u.readers[k].id
      BY <1>3, <1>6 DEF TaskOK
    <2>4. Sound(u.st) /\ u.st.estimate_size = u.st.filesize
      BY <1>3, <1>6 DEF TaskOK
    <2> QED
      BY <1>6, <2>1, <2>2, <2>3, <2>4 DEF TaskOK
  <1>8. Apart(u.pipes, 0) /\ Bounded(u)
    <2>1. Apart(t.pipes, i)
      BY <1>2 DEF Apart, Indexes
    <2> QED
      BY <1>2, <1>3, <1>6, <2>1 DEF Bounded
  <1>9. u.readers # <<>>
    <2>1. t.pipes # <<>>
      BY DEF Indexes
    <2> QED
      BY <1>2, <1>3, <1>6, <2>1
  <1>10. MAX_CACHE_LEN >= 2 => \A j \in Indexes(u.readers) : Fed(u, j)
    BY <1>2, <1>3, <1>6 DEF Fed
  <1> QED
    BY <1>7, <1>8, <1>9, <1>10 DEF Good

\* A chunk of a reply, with its head if it is the first.
LEMMA ChunkReceived ==
    ASSUME NEW t, Good(t), NEW i \in Indexes(t.pipes), NEW n \in Chunks(t.pipes[i]),
           NEW u, u = IF n = 0 THEN GotHead(t, i) ELSE Received(GotHead(t, i), i, n)
    PROVE  Good(u)
  <1>1. PICK v : v = GotHead(t, i)
    OBVIOUS
  <1>2. /\ TaskOK(t) /\ Bounded(t) /\ Apart(t.pipes, 0)
        /\ t.readers = <<>> => t.pipes = <<>>
        /\ MAX_CACHE_LEN >= 2 => \A j \in Indexes(t.readers) : Fed(t, j)
    BY DEF Good
  <1>3. Headed(t, v)
    BY <1>1, <1>2, HeadKeeps
  <1>4. TaskOK(v) /\ v.st.filesize > 0 /\ Len(v.readers) = Len(t.readers)
        /\ Indexes(v.readers) = Indexes(t.readers) /\ Indexes(v.pipes) = Indexes(t.pipes)
    BY <1>3 DEF Headed, Indexes
  <1>5. Bounded(v) /\ Apart(v.pipes, 0)
    BY <1>2, <1>3, <1>4 DEF Headed, Bounded, Apart
  <1>6. Len(t.readers) # 0
    <2>1. t.pipes # <<>> /\ t.readers \in Seq(ReaderRecords)
      BY <1>2, TaskParts DEF Indexes
    <2> QED
      BY <1>2, <2>1
  <1>7. CASE n = 0
    <2>1. MAX_CACHE_LEN >= 2 => \A j \in Indexes(v.readers) : Fed(v, j)
      BY <1>2, <1>3, <1>4, HeadFeeds
    <2>2. v.readers # <<>>
      BY <1>4, <1>6
    <2> QED
      BY <1>1, <1>4, <1>5, <1>7, <2>1, <2>2 DEF Good
  <1>8. CASE n # 0
    <2>1. u = Received(v, i, n) /\ n > 0
      BY <1>1, <1>8, FileAssumption DEF Chunks
    <2>2. n \in Chunks(v.pipes[i])
      BY <1>3 DEF Headed, Chunks, ReplyEnd
    <2>3. /\ TaskOK(u) /\ Bounded(u) /\ Apart(u.pipes, 0)
          /\ Len(u.readers) = Len(v.readers)
          /\ MAX_CACHE_LEN >= 2 => \A j \in Indexes(u.readers) : Fed(u, j)
      BY <1>4, <1>5, <2>1, <2>2, ReceivedKeeps
    <2>4. u.readers # <<>>
      BY <1>4, <1>6, <2>3
    <2> QED
      BY <2>3, <2>4 DEF Good
  <1> QED
    BY <1>7, <1>8

\* A task that has just been opened.
LEMMA NewTaskGood == Good(NewTask)
  <1>1. /\ NewTask.st = EmptyStorage /\ NewTask.readers = <<>> /\ NewTask.pipes = <<>>
        /\ NewTask.code = 0
    BY DEF NewTask
  <1>2. EmptyStorage \in Storages /\ EmptyStorage.filesize = 0
        /\ EmptyStorage.estimate_size = 0 /\ EmptyStorage.completed_size = 0
    BY EmptySound DEF EmptyStorage, Sound
  <1>3. NewTask \in TaskRecords
    BY <1>2 DEF NewTask, TaskRecords
  <1>4. Indexes(<<>>) = {}
    BY DEF Indexes
  <1>5. TaskOK(NewTask)
    BY <1>1, <1>2, <1>3, <1>4, EmptySound DEF TaskOK
  <1>6. Bounded(NewTask)
    <2>1. MaxHeld \in Nat
      BY <1>5, HoldPositionsAre
    <2>2. HoldSize(MaxHeld) \in Nat
      BY <2>1, HoldSizeMonotone
    <2> QED
      BY <1>1, <1>2, <2>2, FileAssumption DEF Bounded
  <1>7. Apart(NewTask.pipes, 0) /\ \A j \in Indexes(NewTask.readers) : Fed(NewTask, j)
    BY <1>1, <1>4 DEF Apart
  <1> QED
    BY <1>1, <1>5, <1>6, <1>7 DEF Good

-----------------------------------------------------------------------------
(* The inductive invariant, and one step for each action.                  *)

IInv == Good(Current)

\* The current task, part by part.
LEMMA CurrentIs ==
    /\ Current.st = st /\ Current.readers = readers
    /\ Current.pipes = pipes /\ Current.code = code
  BY DEF Current

\* What a task becomes is the next one.
LEMMA BecomeIs ==
    ASSUME NEW t, Good(t), Become(t)
    PROVE  IInv' /\ Current' = t
  <1>1. /\ st' = t.st /\ readers' = t.readers /\ pipes' = t.pipes /\ code' = t.code
    BY DEF Become
  <1>2. t = [st |-> t.st, readers |-> t.readers, pipes |-> t.pipes, code |-> t.code]
    BY TaskParts DEF Good
  <1>3. Current' = t
    BY <1>1, <1>2 DEF Current
  <1> QED
    BY <1>3 DEF IInv

\* A task is opened.
LEMMA InitIInv == Init => IInv
  <1> SUFFICES ASSUME Init PROVE IInv
    OBVIOUS
  <1>1. Current = NewTask
    BY DEF Init, Current, NewTask
  <1> QED
    BY <1>1, NewTaskGood DEF IInv

\* A session's first bytes, or none.
LEMMA AddReaderStep ==
    ASSUME IInv, NEW id \in Readers, NEW range \in Ranges, AddReader(id, range)
    PROVE  IInv'
  <1>1. Good(Current) /\ TaskOK(Current)
    BY DEF IInv, Good
  <1>2. PICK r : r = [id |-> id, at |-> range.pos, unsent |-> 0,
                      end |-> IF range.len > 0 THEN range.pos + range.len
                              ELSE IF st.filesize > 0 THEN FileSize ELSE 0]
    OBVIOUS
  <1>3. PICK v : v = DispatchReader(Joined(Current, r), r.at)
    OBVIOUS
  <1>4. PICK u : u = Transfer(v, Len(v.readers))
    OBVIOUS
  <1>5. r.at = range.pos /\ r.id = id /\ r.unsent = 0
        /\ r.end = IF range.len > 0 THEN range.pos + range.len
                   ELSE IF st.filesize > 0 THEN FileSize ELSE 0
    BY <1>2
  <1>6. Become(u)
    BY <1>2, <1>3, <1>4, <1>5 DEF AddReader, Joined
  <1>7. /\ range.pos \in 0..FileSize - 1 /\ range.len \in 0..FileSize
        /\ range.pos + range.len <= FileSize /\ FileSize \in Nat \ {0}
        /\ LIMIT \in Nat \ {0}
    BY TaskAssumption, FileAssumption
  <1>8. /\ r.at \in 0..FileSize /\ r.at < FileSize /\ r.end \in 0..FileSize
        /\ r.end = 0 \/ r.at <= r.end
        /\ st.filesize > 0 => r.end # 0
    BY <1>5, <1>7
  <1>9. r \in ReaderRecords
    <2>1. 0 \in 0..2 * LIMIT
      BY <1>7
    <2> QED
      BY <1>2, <1>5, <1>8, <2>1 DEF ReaderRecords
  <1>10. ReaderOK(Current, r)
    BY <1>5, <1>8, CurrentIs DEF ReaderOK
  <1>11. \A j \in Indexes(Current.readers) : Current.readers[j].id # r.id
    BY <1>5, CurrentIs DEF AddReader
  <1>12. Good(u)
    BY <1>1, <1>3, <1>4, <1>8, <1>9, <1>10, <1>11, ReaderAdded
  <1> QED
    BY <1>6, <1>12, BecomeIs

\* A preloader.
LEMMA AddPreloaderStep ==
    ASSUME IInv, NEW id \in Preloaders, AddPreloader(id)
    PROVE  IInv'
  <1>1. Good(Current) /\ TaskOK(Current)
    BY DEF IInv, Good
  <1>2. PICK r : r = [id |-> id, at |-> 0, unsent |-> 0, end |-> 0]
    OBVIOUS
  <1>3. PICK u : u = DispatchReader(Joined(Current, r), r.at)
    OBVIOUS
  <1>4. r.at = 0 /\ r.id = id /\ r.unsent = 0 /\ r.end = 0
    BY <1>2
  <1>5. Become(u)
    BY <1>2, <1>3, <1>4 DEF AddPreloader, Joined
  <1>6. r \in ReaderRecords /\ r.id \notin Readers
    <2>1. 0 \in 0..2 * LIMIT /\ 0 \in 0..FileSize /\ id \notin Readers
      BY TaskAssumption, FileAssumption
    <2> QED
      BY <1>2, <1>4, <2>1 DEF ReaderRecords
  <1>7. ReaderOK(Current, r)
    BY <1>4, <1>6 DEF ReaderOK
  <1>8. \A j \in Indexes(Current.readers) : Current.readers[j].id # r.id
    BY <1>4, CurrentIs DEF AddPreloader
  <1>9. Good(u)
    BY <1>1, <1>3, <1>6, <1>7, <1>8, PreloaderAdded
  <1> QED
    BY <1>5, <1>9, BecomeIs

\* A reader leaves.
LEMMA RemoveReaderStep ==
    ASSUME IInv, NEW id, RemoveReader(id)
    PROVE  IInv'
  <1>1. Good(Current)
    BY DEF IInv
  <1>2. PICK i \in Indexes(readers) : Become(Removed(Current, i))
    BY DEF RemoveReader
  <1>3. PICK u : u = Removed(Current, i)
    OBVIOUS
  <1>4. i \in Indexes(Current.readers)
    BY <1>2, CurrentIs
  <1>5. Good(u)
    BY <1>1, <1>3, <1>4, ReaderRemoved DEF Good
  <1> QED
    BY <1>2, <1>3, <1>5, BecomeIs

\* A client is sent bytes.
LEMMA SentStep ==
    ASSUME IInv, NEW id, NEW k \in 1..2 * LIMIT, Sent(id, k)
    PROVE  IInv'
  <1>1. Good(Current)
    BY DEF IInv
  <1>2. PICK i \in Indexes(readers) :
           /\ k <= readers[i].unsent
           /\ LET t == [Current EXCEPT !.readers[i].unsent = @ - k]
                  r == t.readers[i]
              IN  Become(IF r.at = r.end /\ r.unsent = 0 THEN Removed(t, i) ELSE Transfer(t, i))
    BY DEF Sent
  <1>3. PICK v : v = SentTo(Current, i, k)
    OBVIOUS
  <1>4. PICK u : u = IF v.readers[i].at = v.readers[i].end /\ v.readers[i].unsent = 0
                     THEN Removed(v, i) ELSE Transfer(v, i)
    OBVIOUS
  <1>5. Become(u)
    BY <1>2, <1>3, <1>4 DEF SentTo
  <1>6. i \in Indexes(Current.readers) /\ k <= Current.readers[i].unsent
    BY <1>2, CurrentIs
  <1>7. Good(u)
    BY <1>1, <1>3, <1>4, <1>6, BytesSent
  <1> QED
    BY <1>5, <1>7, BecomeIs

\* A pipe hands over a chunk.
LEMMA ChunkStep ==
    ASSUME IInv, NEW i \in Indexes(pipes), NEW n, Chunk(i, n)
    PROVE  IInv'
  <1>1. Good(Current) /\ i \in Indexes(Current.pipes) /\ n \in Chunks(Current.pipes[i])
    BY CurrentIs DEF IInv, Chunk
  <1>2. PICK u : u = IF n = 0 THEN GotHead(Current, i) ELSE Received(GotHead(Current, i), i, n)
    OBVIOUS
  <1>3. Become(u)
    BY <1>2 DEF Chunk
  <1>4. Good(u)
    BY <1>1, <1>2, ChunkReceived
  <1> QED
    BY <1>3, <1>4, BecomeIs

\* A reply ends.
LEMMA CompleteStep ==
    ASSUME IInv, NEW i \in Indexes(pipes), Complete(i)
    PROVE  IInv' /\ (MAX_CACHE_LEN >= 2 => AllAsked(Current'))
  <1>1. Good(Current) /\ i \in Indexes(Current.pipes) /\ Current.pipes[i].opened
    BY CurrentIs DEF IInv, Complete
  <1>2. PICK u : u = DispatchReaders(WithoutPipe(Current, i))
    OBVIOUS
  <1>3. Become(u)
    BY <1>2 DEF Complete, WithoutPipe
  <1>4. Good(u) /\ (MAX_CACHE_LEN >= 2 => AllAsked(u))
    BY <1>1, <1>2, PipeCompleted
  <1> QED
    BY <1>3, <1>4, BecomeIs

\* A download fails.
LEMMA PipeFailsStep ==
    ASSUME IInv, NEW i \in Indexes(pipes), PipeFails(i)
    PROVE  IInv'
  <1>1. Good(Current) /\ i \in Indexes(Current.pipes)
    BY CurrentIs DEF IInv
  <1>2. PICK u : u = Failed(WithoutPipe(Current, i))
    OBVIOUS
  <1>3. Become(u)
    BY <1>2 DEF PipeFails, WithoutPipe, Failed
  <1>4. Good(u)
    BY <1>1, <1>2, PipeFailed
  <1> QED
    BY <1>3, <1>4, BecomeIs

\* Every step keeps the invariant.
LEMMA NextIInv == IInv /\ [Next]_vars => IInv'
  <1> SUFFICES ASSUME IInv, [Next]_vars PROVE IInv'
    OBVIOUS
  <1>1. CASE \E id \in Readers, range \in Ranges : AddReader(id, range)
    BY <1>1, AddReaderStep
  <1>2. CASE \E id \in Preloaders : AddPreloader(id)
    BY <1>2, AddPreloaderStep
  <1>3. CASE \E id \in Readers \cup Preloaders : RemoveReader(id)
    BY <1>3, RemoveReaderStep
  <1>4. CASE \E id \in Readers, k \in 1..2 * LIMIT : Sent(id, k)
    BY <1>4, SentStep
  <1>5. CASE \E i \in Indexes(pipes), n \in 0..MaxRecv : Chunk(i, n)
    BY <1>5, ChunkStep
  <1>6. CASE \E i \in Indexes(pipes) : Complete(i)
    BY <1>6, CompleteStep
  <1>7. CASE \E i \in Indexes(pipes) : PipeFails(i)
    BY <1>7, PipeFailsStep
  <1>8. CASE Close
    BY <1>8, NewTaskGood, BecomeIs DEF Close
  <1>9. CASE UNCHANGED vars
    BY <1>9 DEF IInv, Current, vars
  <1> QED
    BY <1>1, <1>2, <1>3, <1>4, <1>5, <1>6, <1>7, <1>8, <1>9 DEF Next

\* Every state of the task satisfies the invariant.
THEOREM TaskInvariant == Spec => []IInv
  BY InitIInv, NextIInv, PTL DEF Spec

-----------------------------------------------------------------------------
(* The properties.                                                         *)

\* No piece or block lies behind the end of the file.
LEMMA CachedInFile ==
    ASSUME NEW s, Sound(s)
    PROVE  s.pieces \subseteq 0..PieceAt(FileSize) /\ s.blocks \subseteq 0..PieceAt(FileSize)
  <1>1. /\ s.filesize \in {0, FileSize} /\ FileSize \in Nat
        /\ s.pieces \subseteq PiecesOf(s.filesize)
        /\ s.blocks = { BlockOf(p) : p \in s.pieces }
    BY FileAssumption DEF Sound, Storages
  <1>2. PieceAt(FileSize) \in Nat /\ FileSize < (PieceAt(FileSize) + 1) * PIECE
        /\ (PieceAt(FileSize) + 1) * PIECE \in Nat
    BY <1>1, EndPiece
  <1> DEFINE last == PieceAt(FileSize)
  <1> HIDE DEF last
  <1>3. ASSUME NEW p \in s.pieces PROVE p \in 0..last /\ BlockOf(p) \in 0..last
    <2>1. p \in Nat /\ p * PIECE < FileSize /\ p * PIECE \in Nat
      BY <1>1, PieceAssumption DEF PiecesOf
    <2>2. p * PIECE < (last + 1) * PIECE /\ last \in Nat /\ last + 1 \in Nat
      BY <1>1, <1>2, <2>1 DEF last
    <2>3. p < last + 1
      BY <2>1, <2>2, TimesPiece, PieceAssumption
    <2>4. BlockOf(p) \in Nat /\ BlockOf(p) * PIECES_PER_BLOCK <= p
      BY <2>1, PieceAssumption, DivBounds DEF BlockOf
    <2> DEFINE b == BlockOf(p)
    <2> HIDE DEF b
    <2>5. b <= b * PIECES_PER_BLOCK /\ b * PIECES_PER_BLOCK \in Nat
      BY <2>4, PieceAssumption DEF b
    <2>6. b \in 0..last
      BY <2>1, <2>2, <2>3, <2>4, <2>5 DEF b
    <2> QED
      BY <2>1, <2>2, <2>3, <2>6 DEF b
  <1> QED
    BY <1>1, <1>3 DEF last

\* Every variable has its type in every state, for every size of piece, file
\* and cache and every set of readers: positions stay in the file, at most
\* two limits of bytes wait to be sent, and pipes stand where pieces end.
THEOREM TaskTypes == Spec => []TypeOK
  <1>1. IInv => TypeOK
    <2> SUFFICES ASSUME IInv PROVE TypeOK
      OBVIOUS
    <2>1. TaskOK(Current) /\ Sound(Current.st)
      BY DEF IInv, Good, TaskOK
    <2>2. st.filesize \in {0, FileSize} /\ st.estimate_size = st.filesize
      BY <2>1, TaskParts, CurrentIs
    <2>3. st.pieces \subseteq 0..PieceAt(FileSize) /\ st.blocks \subseteq 0..PieceAt(FileSize)
      BY <2>1, CachedInFile, CurrentIs
    <2>4. readers \in Seq(ReaderRecords) /\ pipes \in Seq(PipeRecords) /\ code \in {0, 502}
      BY <2>1, TaskParts, CurrentIs
    <2>5. \A i \in Indexes(pipes) : pipes[i].pos % PIECE = 0 \/ pipes[i].pos = FileSize
      BY <2>1, CurrentIs DEF TaskOK, PipeOK
    <2> QED
      BY <2>2, <2>3, <2>4, <2>5 DEF TypeOK
  <1> QED
    BY <1>1, TaskInvariant, PTL

\* However many readers there are and wherever they read, what is cached for
\* the task never grows past what is kept for that many readers by more than
\* one delivery of a pipe, though on_recv() gives clear_buffer_for() only
\* the last reader's position to keep.
THEOREM CacheBounded == Spec => []CacheIsBounded
  <1>1. IInv => CacheIsBounded
    BY CurrentIs DEF IInv, Good, Bounded, MaxHeld, CacheIsBounded
  <1> QED
    BY <1>1, TaskInvariant, PTL

\* No byte is downloaded twice at once: whatever pipes dispatch_reader()
\* opens and however they advance, no two stand at the same position after
\* the step.
THEOREM PipesStayApart == Spec => []PipesDistinct
  <1>1. IInv => PipesDistinct
    <2> SUFFICES ASSUME IInv PROVE PipesDistinct
      OBVIOUS
    <2>1. Apart(pipes, 0)
      BY CurrentIs DEF IInv, Good
    <2> QED
      BY <2>1 DEF Apart, PipesDistinct, Indexes
  <1> QED
    BY <1>1, TaskInvariant, PTL

\* When the last reader is gone remove_reader() has closed every pipe, and
\* none is opened before the next reader comes.
THEOREM NoPipeWithoutReader == Spec => []NoOrphanPipes
  <1>1. IInv => NoOrphanPipes
    BY CurrentIs DEF IInv, Good, NoOrphanPipes
  <1> QED
    BY <1>1, TaskInvariant, PTL

\* No wake-up is lost: unless its origin has failed, a session that has sent
\* all it had finds nothing in the cache because the piece is not there, and
\* at the start of a piece there is a pipe that will bring it.  A window of
\* less than two bytes is content with what it has, so the window has two.
THEOREM NoWakeUpLost ==
    ASSUME MAX_CACHE_LEN >= 2
    PROVE  Spec => []StarvedHasPipe
  <1>1. IInv => StarvedHasPipe
    <2> SUFFICES ASSUME IInv PROVE StarvedHasPipe
      OBVIOUS
    <2>1. \A i \in Indexes(readers) : Fed(Current, i)
      BY CurrentIs DEF IInv, Good
    <2> QED
      BY <2>1, CurrentIs DEF Fed, HasPipe, StarvedHasPipe
  <1> QED
    BY <1>1, TaskInvariant, PTL

\* on_pipe_complete() calls dispatch_reader() for every reader: after it each
\* starved session, wherever in a piece it stands, has a pipe at the start of
\* the piece it needs.  A reader that on_recv() leaves in the middle of a piece
\* without one is thus helped by the next reply that ends.
THEOREM EndOfReplyAsksAgain ==
    ASSUME MAX_CACHE_LEN >= 2
    PROVE  Spec => [][\A i \in Indexes(pipes) : Complete(i) => AllAsked(Current)']_vars
  <1>1. IInv /\ [Next]_vars
          => [\A i \in Indexes(pipes) : Complete(i) => AllAsked(Current)']_vars
    BY CompleteStep DEF AllAsked, HasPipe, Current
  <1> QED
    BY <1>1, TaskInvariant, PTL DEF Spec
=============================================================================
