-------------------------------- MODULE Task --------------------------------
(***************************************************************************)
(* The download task of one resource (src/src/ms_task.c): the readers that *)
(* want bytes of it, the pipes that download them, and the piece cache in  *)
(* between.  dispatch_reader() opens a pipe where a reader will run out of *)
(* cached bytes, dispatch_pipe() closes a pipe no reader needs.            *)
(*                                                                         *)
(* A pipe is known to the task by its positions only, and a reader by the  *)
(* position it has read up to, reader->pos + reader->sending, here at.     *)
(* Of the session behind a reader the model keeps what the task depends    *)
(* on: when it reads and how much (module Session has the rest).  A        *)
(* preloader is a reader with empty callbacks, which stays at the start of *)
(* the file (src/src/ms_preloader.c).                                      *)
(*                                                                         *)
(* One chunk of a reply is handed over in one on_recv(), of whole pieces   *)
(* or up to the end of the file.                                           *)
(***************************************************************************)
EXTENDS PieceCache

CONSTANTS
    Readers,    \* the sessions that may read it, one at a time each
    Preloaders, \* the preloaders that may be opened on it
    Ranges,     \* what they ask for: [pos, len], len = 0: to the end
    LIMIT,      \* MS_SEND_BUF_LIMIT of ms_session.c
    Failures    \* whether the origin may fail

ASSUME TaskAssumption ==
    /\ LIMIT \in Nat \ {0} /\ MaxRecv # 0
    /\ Ranges \subseteq [pos : 0..FileSize - 1, len : 0..FileSize]
    /\ \A r \in Ranges : r.pos + r.len <= FileSize
    /\ Failures \in BOOLEAN /\ Readers \cap Preloaders = {}
    /\ IsFiniteSet(Readers) /\ IsFiniteSet(Preloaders)

VARIABLES
    st,         \* the storage
    readers,    \* the queue of readers, each [id, at, unsent, end]
    pipes,      \* the queue of pipes, each [pos, req_pos, req_len, opened]
    code        \* task->code

vars == <<st, readers, pipes, code>>

\* task_open()
NewTask == [st |-> EmptyStorage, readers |-> <<>>, pipes |-> <<>>, code |-> 0]

Indexes(seq) == 1..Len(seq)
RemoveIndex(seq, i) == SubSeq(seq, 1, i - 1) \o SubSeq(seq, i + 1, Len(seq))

-----------------------------------------------------------------------------
(* The functions of the task, on t = [st, readers, pipes, code].           *)

PieceStart(pos) == pos - (pos % PIECE)

\* dispatch_reader() and create_pipe_for(), for a reader that is at a
\* position: open a pipe at the piece after the bytes cached for it, unless
\* they are enough, reach the end, or a pipe is there already.
DispatchReader(t, at) ==
    LET end     == Least(at + MAX_CACHE_LEN, t.st.estimate_size)
        cached  == CachedFrom(t.st, at)
        ready   == IF end > 0 /\ cached.pos = at /\ cached.len > 0 THEN cached.len ELSE 0
        enough  == end > 0 /\ cached.pos = at /\ cached.len >= MAX_CACHE_LEN \div 2
        missing == at + ready
        from    == PieceStart(missing)
    IN  IF \/ enough
           \/ missing > 0 /\ missing = end
           \/ \E i \in Indexes(t.pipes) : t.pipes[i].pos = from
           \/ from >= end /\ end # 0
           \/ t.code # 0
        THEN t
        ELSE [t EXCEPT !.pipes = Append(@,
                [pos |-> from, req_pos |-> from, opened |-> FALSE,
                 req_len |-> IF end > 0 THEN end - from ELSE 0])]

\* The loop of task_read() and of on_pipe_complete().
DispatchReaders(t) ==
    LET u[k \in 0..Len(t.readers)] ==
            IF k = 0 THEN t ELSE DispatchReader(u[k - 1], t.readers[k].at)
    IN  u[Len(t.readers)]

\* The position of the reader nearest_reader() finds at or behind pos.
Behind(t, pos) ==
    { t.readers[i].at : i \in { j \in Indexes(t.readers) : t.readers[j].at <= pos } }

\* The positions of the other pipes behind a pipe.
PipesBehind(t, pos) ==
    { t.pipes[i].pos : i \in { j \in Indexes(t.pipes) : t.pipes[j].pos < pos } }

Greatest(S) == CHOOSE m \in S : \A n \in S : n <= m

\* Mutant: pipes at the same position are let be.
UnneededByReaders(t, i) ==
    LET pos    == t.pipes[i].pos
        behind == Behind(t, pos)
        nearer == PipesBehind(t, pos)
    IN  \/ behind = {}
        \/ Greatest(behind) + MAX_CACHE_LEN <= pos
        \/ nearer # {} /\ Greatest(behind) <= Greatest(nearer)

\* Whether dispatch_pipe() closes the i-th pipe: another pipe is at its
\* position, no reader is behind it, the nearest one is too far behind, or
\* a pipe is between the two.
Unneeded(t, i) ==
    LET pos    == t.pipes[i].pos
        behind == Behind(t, pos)
        nearer == PipesBehind(t, pos)
    IN  \/ \E j \in Indexes(t.pipes) \ {i} : t.pipes[j].pos = pos
        \/ behind = {}
        \/ Greatest(behind) + MAX_CACHE_LEN <= pos
        \/ nearer # {} /\ Greatest(behind) <= Greatest(nearer)

DispatchPipe(t, i) ==
    IF Unneeded(t, i) THEN [t EXCEPT !.pipes = RemoveIndex(@, i)] ELSE t

\* The pipe that has so many after it.
DispatchPipeBefore(t, after) == DispatchPipe(t, Len(t.pipes) - after)

\* The loop of remove_reader(), from the first pipe to the last.
DispatchPipes(t) ==
    LET u[k \in 0..Len(t.pipes)] ==
            IF k = 0 THEN t ELSE DispatchPipeBefore(u[k - 1], Len(t.pipes) - k)
    IN  u[Len(t.pipes)]

\* try_transfer_data() of the i-th reader, with task_read(): half the limit
\* may wait to be sent before it reads again, and it reads what is there.
Transfer(t, i) ==
    LET r == t.readers[i]
        n == ReadLen(t.st, r.at, Least(LIMIT, r.end - r.at))
    IN  IF \/ r.id \in Preloaders
           \/ r.unsent > LIMIT \div 2 \/ r.end = 0 \/ t.st.filesize = 0
        THEN t
        ELSE [DispatchReaders(t) EXCEPT
                !.readers[i].at = @ + n, !.readers[i].unsent = @ + n]

\* The loop of on_recv().
TransferAll(t) ==
    LET u[k \in 0..Len(t.readers)] == IF k = 0 THEN t ELSE Transfer(u[k - 1], k)
    IN  u[Len(t.readers)]

\* Readers without an end learn it.  SubSeq() gives TLC a tuple to work on.
Learnt(q) ==
    SubSeq([k \in Indexes(q) |-> IF q[k].end = 0 /\ q[k].id \in Readers
                                 THEN [q[k] EXCEPT !.end = FileSize] ELSE q[k]],
           1, Len(q))

\* on_filesize() and on_content_size(), when the i-th pipe gets the head of
\* its reply.
GotHead(t, i) ==
    LET p     == t.pipes[i]
        first == t.st.filesize = 0 \/ p.req_len = 0
    IN  IF p.opened THEN t
        ELSE [t EXCEPT
                !.pipes[i].opened = TRUE,
                !.st = IF first THEN SetFilesize(@, FileSize) ELSE @,
                !.readers = IF first THEN Learnt(@) ELSE @]

\* The positions on_recv() asks the storage to keep: index is never
\* increased, so the last reader's is put in the place of the first.
HoldPositions(t) ==
    [k \in Indexes(t.readers) |-> IF k = 1 THEN t.readers[Len(t.readers)].at ELSE 0]

\* Mutant: no room is made.
ReceivedNoRoom(t, i, n) ==
    LET stored == [t EXCEPT !.st = Write(@, t.pipes[i].pos, n), !.pipes[i].pos = @ + n]
    IN  DispatchPipe(TransferAll(stored), i)

\* on_recv(): n bytes of the i-th pipe.
Received(t, i, n) ==
    LET pos    == t.pipes[i].pos
        room   == ClearBufferFor(t.st, n, HoldPositions(t))
        stored == [t EXCEPT !.st = Write(room, pos, n), !.pipes[i].pos = @ + n]
    IN  DispatchPipe(TransferAll(stored), i)

\* Mutant: the range goes past the end of the file.
ReplyEndPastFile(p) == IF p.req_len = 0 THEN FileSize ELSE p.req_pos + p.req_len + 1

\* What follows the bytes a pipe asked for; the range is asked for with its
\* end included, which is one byte more than its length.
ReplyEnd(p) ==
    IF p.req_len = 0 THEN FileSize ELSE Least(p.req_pos + p.req_len + 1, FileSize)

\* What the i-th pipe may hand over next.
Chunks(p) ==
    { n \in 0..MaxRecv : /\ p.pos + n <= ReplyEnd(p)
                         /\ n % PIECE = 0 \/ p.pos + n = FileSize }

-----------------------------------------------------------------------------

Current == [st |-> st, readers |-> readers, pipes |-> pipes, code |-> code]

Become(t) ==
    \E u \in {t} : st' = u.st /\ readers' = u.readers /\ pipes' = u.pipes /\ code' = u.code

Init == st = EmptyStorage /\ readers = <<>> /\ pipes = <<>> /\ code = 0

\* ms_stream_handler(): add_reader(), then the first transfer.
AddReader(id, range) ==
    /\ \A i \in Indexes(readers) : readers[i].id # id
    /\ LET r == [id |-> id, at |-> range.pos, unsent |-> 0,
                 end |-> IF range.len > 0 THEN range.pos + range.len
                         ELSE IF st.filesize > 0 THEN FileSize ELSE 0]
           t == DispatchReader([Current EXCEPT !.readers = Append(@, r)], range.pos)
       IN  Become(Transfer(t, Len(t.readers)))

\* Mutant: nothing is downloaded for a preloader by itself.
AddPreloaderOnly(id) ==
    /\ \A i \in Indexes(readers) : readers[i].id # id
    /\ Become([Current EXCEPT !.readers =
                 Append(@, [id |-> id, at |-> 0, unsent |-> 0, end |-> 0])])

\* POST /api/tasks: a preloader is added, and reads nothing.
AddPreloader(id) ==
    /\ \A i \in Indexes(readers) : readers[i].id # id
    /\ LET r == [id |-> id, at |-> 0, unsent |-> 0, end |-> 0]
       IN  Become(DispatchReader([Current EXCEPT !.readers = Append(@, r)], 0))

\* Mutant: the pipes of a reader that is gone are let be.
RemovedOnly(t, i) == [t EXCEPT !.readers = RemoveIndex(@, i)]

Removed(t, i) == DispatchPipes([t EXCEPT !.readers = RemoveIndex(@, i)])

\* The client goes away, or asks for something else; or a preloader is
\* deleted through the API.
RemoveReader(id) ==
    \E i \in Indexes(readers) : readers[i].id = id /\ Become(Removed(Current, i))

\* The client of a reader is sent k bytes: on_send() of the session.
Sent(id, k) ==
    \E i \in Indexes(readers) :
        /\ readers[i].id = id /\ k <= readers[i].unsent
        /\ LET t == [Current EXCEPT !.readers[i].unsent = @ - k]
               r == t.readers[i]
           IN  Become(IF r.at = r.end /\ r.unsent = 0 THEN Removed(t, i) ELSE Transfer(t, i))

\* A chunk of a reply, with its head if it is the first.
Chunk(i, n) ==
    /\ n \in Chunks(pipes[i])
    /\ n > 0 \/ ~pipes[i].opened
    /\ Become(IF n = 0 THEN GotHead(Current, i) ELSE Received(GotHead(Current, i), i, n))

\* Mutant: no reader is dispatched when a pipe ends.
CompleteOnly(i) ==
    /\ pipes[i].opened /\ Chunks(pipes[i]) \subseteq {0}
    /\ Become([Current EXCEPT !.pipes = RemoveIndex(@, i)])

\* The reply has ended: on_pipe_complete().
Complete(i) ==
    /\ pipes[i].opened /\ Chunks(pipes[i]) \subseteq {0}
    /\ Become(DispatchReaders([Current EXCEPT !.pipes = RemoveIndex(@, i)]))

\* The download fails: on_close().  The code stays for good.
PipeFails(i) ==
    /\ Failures
    /\ Become([Current EXCEPT !.pipes = RemoveIndex(@, i), !.code = 502])

\* task_close() of a task without readers, and the one that follows it.
Close == readers = <<>> /\ Become(NewTask)

Next ==
    \/ \E id \in Readers, range \in Ranges : AddReader(id, range)
    \/ \E id \in Preloaders : AddPreloader(id)
    \/ \E id \in Readers \cup Preloaders : RemoveReader(id)
    \/ \E id \in Readers, k \in 1..2 * LIMIT : Sent(id, k)
    \/ \E i \in Indexes(pipes), n \in 0..MaxRecv : Chunk(i, n)
    \/ \E i \in Indexes(pipes) : Complete(i)
    \/ \E i \in Indexes(pipes) : PipeFails(i)
    \/ Close

Spec == Init /\ [][Next]_vars

\* A pipe goes on: its connection delivers, or its reply is over.
PipeAt(pos) == \E i \in Indexes(pipes) : pipes[i].pos = pos

PipeAdvances(pos) ==
    \E i \in Indexes(pipes) :
        /\ pipes[i].pos = pos
        /\ Complete(i) \/ \E n \in 1..MaxRecv : Chunk(i, n)

HasUnsent(id) == \E i \in Indexes(readers) : readers[i].id = id /\ readers[i].unsent > 0

ReaderSent(id) == \E k \in 1..2 * LIMIT : Sent(id, k)

\* Origin and clients go on: every connection the task keeps open delivers
\* the rest of its reply, and every client reads what it is sent.  This is
\* weak fairness of PipeAdvances and of ReaderSent, written out with their
\* guards: what the actions do is costly to compute as an ENABLED.
Fairness ==
    /\ \A pos \in 0..FileSize :
          []<>~PipeAt(pos) \/ []<><<PipeAdvances(pos)>>_vars
    /\ \A id \in Readers :
          []<>~HasUnsent(id) \/ []<><<ReaderSent(id)>>_vars

FairSpec == Spec /\ Fairness

-----------------------------------------------------------------------------

PipeRecords == [pos : 0..FileSize, req_pos : 0..FileSize, req_len : 0..FileSize,
                opened : BOOLEAN]
ReaderRecords == [id : Readers \cup Preloaders, at : 0..FileSize, unsent : 0..2 * LIMIT, end : 0..FileSize]

\* Every variable has its type; pipes are at pieces or at the end.
TypeOK ==
    /\ st.filesize \in {0, FileSize} /\ st.estimate_size = st.filesize
    /\ st.pieces \subseteq 0..PieceAt(FileSize)
    /\ st.blocks \subseteq 0..PieceAt(FileSize)
    /\ readers \in Seq(ReaderRecords) /\ pipes \in Seq(PipeRecords)
    /\ code \in {0, 502}
    /\ \A i \in Indexes(pipes) : pipes[i].pos % PIECE = 0 \/ pipes[i].pos = FileSize

\* The cache is bounded whatever the readers do: it grows past what is kept
\* for them by one delivery at most.
CacheIsBounded ==
    st.completed_size <= HoldSize(Cardinality(Readers \cup Preloaders)) + MaxRecv

\* No two pipes stand at the same byte: what one downloads the other does
\* not download again.
PipesDistinct ==
    \A i, j \in Indexes(pipes) : i # j => pipes[i].pos # pipes[j].pos

\* A task without readers downloads nothing.
NoOrphanPipes == readers = <<>> => pipes = <<>>

\* A reader that has sent all it had and is not at its end.
Starved(r) == r.unsent = 0 /\ (r.end = 0 \/ r.at < r.end)

\* No wake-up is lost: a starved reader has nothing to read in the cache and,
\* at the start of a piece, a pipe stands where it reads on.  Neither the
\* eviction nor dispatch_pipe() nor a reply that ends takes that pipe away
\* for good, and no data comes without its readers being told.
StarvedHasPipe ==
    \A i \in Indexes(readers) :
        readers[i].id \in Readers /\ Starved(readers[i]) =>
            /\ PieceAt(readers[i].at) \notin st.pieces
            /\ code = 0 /\ readers[i].at % PIECE = 0 =>
                  \E j \in Indexes(pipes) : pipes[j].pos = readers[i].at

\* A starved reader has what it waits for coming: a pipe at or behind the
\* piece it needs.  dispatch_pipe() never closes the last one.
NoStall ==
    code = 0 =>
      \A i \in Indexes(readers) :
        readers[i].id \in Readers /\ Starved(readers[i]) =>
          \E j \in Indexes(pipes) : pipes[j].pos <= readers[i].at

\* A reader gets all it asked for, unless the origin fails or its client
\* goes away.
Reading(id) == \E i \in Indexes(readers) : readers[i].id = id
EveryReaderServed == \A id \in Readers : Reading(id) ~> ~Reading(id) \/ code # 0

\* A preloader, whatever the sessions beside it do, has the start of the
\* file downloaded: half a window, at which dispatch_reader() is content.
StartCached ==
    LET cached == CachedFrom(st, 0)
    IN  cached.pos = 0 /\ cached.len >= MAX_CACHE_LEN \div 2

PreloadFills ==
    \A id \in Preloaders : Reading(id) ~> StartCached \/ ~Reading(id) \/ code # 0
=============================================================================
