------------------------------ MODULE HttpPipe ------------------------------
(***************************************************************************)
(* A pipe: the download of one range of the origin over one connection     *)
(* after another (src/src/ms_http_pipe.c).  pipe_handler() assembles       *)
(* pieces from body events of any length, follows redirects, and tells the *)
(* task of the end.  The task may close the pipe at any time, also from    *)
(* within on_recv(); the pipe is freed when its connection has closed.     *)
(*                                                                         *)
(* A body is bytes from the position asked for, so a buffer is the number  *)
(* of bytes in it.  URLs and headers other than lengths are left out, and  *)
(* of the codes of a reply one of each kind is taken.  The asserts are     *)
(* compiled out of a release build; a line whose assert fails is noted.    *)
(***************************************************************************)
EXTENDS Integers, Sequences

CONSTANTS
    PIECE,      \* MS_PIECE_UNIT_SIZE
    FileSize,   \* bytes in the resource
    Requests,   \* what pipes are opened for: [pos, len], len = 0: to the end
    IO,         \* bound: bytes of one body event (MG_TCP_IO_SIZE)
    ErrorBody   \* bound: bytes in the body of a redirect or an error

MS_MAX_REDIRECT_TIME == 3

ASSUME PipeAssumption ==
    /\ PIECE \in Nat \ {0} /\ FileSize \in Nat \ {0} /\ IO \in Nat \ {0}
    /\ ErrorBody \in Nat
    /\ Requests \subseteq [pos : 0..FileSize - 1, len : 0..FileSize]
    /\ \A r \in Requests : r.pos % PIECE = 0 /\ r.pos + r.len <= FileSize

VARIABLES
    request,    \* req_pos and req_len of the pipe
    pipe,       \* [pos, len, buf, closing, redirecting, redirect_time, freed]
    conn,       \* its connection: phase, doomed (MG_F_CLOSE_IMMEDIATELY),
                \* called (MS_F_ON_CONTENT_CALLED), and of the reply its
                \* code (0: no head yet), total and arrived bytes of the body
    told,       \* the ends the task was told: on_complete(), on_close()
    failed      \* the lines whose assert has failed, see OnRecv

vars == <<request, pipe, conn, told, failed>>

Content == 206
Redirect == 302
Refused == 404
Codes == {Content, Redirect, Refused}

Least(a, b) == IF a < b THEN a ELSE b

NewConn == [phase |-> "connecting", doomed |-> FALSE, called |-> FALSE,
            code |-> 0, total |-> 0, arrived |-> 0]

NewPipe(r) == [pos |-> r.pos, len |-> r.len, buf |-> 0, closing |-> FALSE,
               redirecting |-> FALSE, redirect_time |-> 0, freed |-> FALSE]

\* The bytes of the origin's answer to the range pipe_connect() asks for,
\* which ends one byte after pos + len.
Answered(p) ==
    IF p.len = 0 THEN FileSize - p.pos ELSE Least(p.len + 1, FileSize - p.pos)

-----------------------------------------------------------------------------
(* The handler, on x = [pipe, conn, told, failed].  The task closes the    *)
(* pipe in on_recv() or does not, so a function that calls it has several  *)
(* outcomes.                                                               *)

Assert(x, line, ok) == IF ok THEN x ELSE [x EXCEPT !.failed = @ \cup {line}]

\* pipe_close()
PipeClose(x) == [x EXCEPT !.pipe.closing = TRUE, !.conn.doomed = TRUE]

\* The callback of the end: the task closes the pipe.
TellEnd(x, end) == PipeClose([x EXCEPT !.told = Append(@, end)])

\* pos is moved on and on_recv() called, for n bytes.  Line 427 is the
\* assert of storage_write(), which stores them.
OnRecv(x, n) ==
    LET pos == x.pipe.pos + n
        y   == Assert([x EXCEPT !.pipe.pos = pos], 427, pos = FileSize \/ n % PIECE = 0)
    IN  {y, PipeClose(y)}

\* Lines 94-125; without a length the range is what the reply has.
GotHead(x) ==
    [x EXCEPT !.conn.called = TRUE,
              !.pipe.len = IF ~x.conn.called /\ @ = 0 THEN x.conn.total ELSE @]

\* How much of n bytes goes to the buffer first, lines 132-159.
Taken(x, n) ==
    IF x.pipe.buf > 0 \/ n < PIECE THEN Least(PIECE - x.pipe.buf, n) ELSE 0

\* Lines 158-172: when the buffer is full its piece is handed over.
FillBuffer(x, n) ==
    LET y == [x EXCEPT !.pipe.buf = @ + n]
    IN  IF y.pipe.buf = PIECE
        THEN { [z EXCEPT !.pipe.buf = 0] : z \in OnRecv(y, PIECE) }
        ELSE {y}

\* Mutant: the part of a piece that follows is handed over too.
HandOverAll(x, n) ==
    IF n = 0 THEN {x} ELSE OnRecv(x, n)

\* Lines 186-196: the whole pieces in the rest, and its end to the buffer.
HandOverRest(x, n) ==
    LET whole == n - (n % PIECE)
    IN  { [y EXCEPT !.pipe.buf = @ + (n % PIECE)] :
            y \in IF whole > 0 THEN OnRecv(x, whole) ELSE {x} }

\* Mutant: the cut piece at the end is kept.
KeepLast(x, r) == {x}

\* Lines 198-203: when the range is complete the buffer is handed over,
\* also when it is empty.
HandOverLast(x, r) ==
    IF x.pipe.pos + x.pipe.buf = r.pos + x.pipe.len
    THEN { [y EXCEPT !.pipe.buf = 0] : y \in OnRecv(x, x.pipe.buf) }
    ELSE {x}

\* Lines 130-203.
GotBody(x, r, n) ==
    LET y == Assert(x, 130, x.pipe.pos % PIECE = 0)
        k == Taken(y, n)
    IN  UNION { HandOverLast(z, r) :
                  z \in UNION { HandOverRest(w, n - k) : w \in FillBuffer(y, k) } }

Ignores(x) == x.pipe.closing \/ x.pipe.redirecting

\* Mutant: the body of any reply is taken for the file.
ChunkOfAny(x, r, n) ==
    IF Ignores(x) THEN {x}
    ELSE IF n = 0 THEN {GotHead(x)}
    ELSE GotBody(GotHead(x), r, n)

\* MG_EV_HTTP_CHUNK with n bytes of the body.
ChunkEvent(x, r, n) ==
    IF Ignores(x) \/ x.conn.code # Content THEN {x}
    ELSE IF n = 0 THEN {GotHead(x)}
    ELSE GotBody(GotHead(x), r, n)

\* Mutant: redirects are not counted.
FollowUncounted(x) ==
    [x EXCEPT !.pipe.redirecting = TRUE, !.conn.doomed = TRUE]

\* Mutant: there is no limit to redirects.
FollowAny(x) ==
    [x EXCEPT !.pipe.redirect_time = @ + 1, !.pipe.redirecting = TRUE, !.conn.doomed = TRUE]

\* Lines 209-222.
FollowRedirect(x) ==
    LET y == [x EXCEPT !.pipe.redirect_time = @ + 1]
    IN  IF y.pipe.redirect_time > MS_MAX_REDIRECT_TIME THEN TellEnd(y, 310)
        ELSE [y EXCEPT !.pipe.redirecting = TRUE, !.conn.doomed = TRUE]

\* Mutant: the end is told although the task has closed the pipe.
ReplyAnyway(x) ==
    IF x.pipe.redirecting THEN x
    ELSE IF x.conn.code = Redirect THEN FollowRedirect(x)
    ELSE TellEnd(x, x.conn.code)

\* MG_EV_HTTP_REPLY; on_complete() is the end with the code of content.
ReplyEvent(x) ==
    IF Ignores(x) THEN x
    ELSE IF x.conn.code = Redirect THEN FollowRedirect(x)
    ELSE TellEnd(x, x.conn.code)

\* free_pipe(), in the last event of the connection.
FreePipe(x) == [x EXCEPT !.pipe.freed = TRUE, !.conn.phase = "gone"]

\* MG_EV_CLOSE; pipe_connect() makes the next connection.
CloseEvent(x) ==
    IF x.pipe.closing THEN FreePipe(x)
    ELSE IF x.pipe.redirecting
         THEN [x EXCEPT !.pipe.redirecting = FALSE, !.conn = NewConn]
    ELSE FreePipe(TellEnd(x, 502))

-----------------------------------------------------------------------------

Current == [pipe |-> pipe, conn |-> conn, told |-> told, failed |-> failed]

Become(x) ==
    \E y \in {x} : /\ pipe' = y.pipe /\ conn' = y.conn
                   /\ told' = y.told /\ failed' = y.failed
                   /\ UNCHANGED request

\* ms_http_pipe_create() and connect().
Init ==
    /\ request \in Requests
    /\ pipe = NewPipe(request) /\ conn = NewConn
    /\ told = <<>> /\ failed = {}

Connect ==
    /\ conn.phase = "connecting" /\ ~conn.doomed
    /\ Become([Current EXCEPT !.conn.phase = "open"])

\* MG_EV_CONNECT with an error; mongoose closes the connection.
ConnectFails ==
    /\ conn.phase = "connecting" /\ ~conn.doomed
    /\ Become(TellEnd([Current EXCEPT !.conn.doomed = TRUE], 502))

\* n more bytes of the body arrive: a body event and, if they are the last,
\* the event of the reply.
Arrive(x, n) ==
    LET y == [x EXCEPT !.conn.arrived = @ + n]
    IN  \E z \in ChunkEvent(y, request, n) :
            Become(IF y.conn.arrived = y.conn.total THEN ReplyEvent(z) ELSE z)

\* The head of a reply arrives, and n bytes of its body.
Answer(code, total, n) ==
    /\ conn.phase = "open" /\ ~conn.doomed /\ conn.code = 0
    /\ code = Content => total = Answered(pipe)
    /\ code # Content => total <= ErrorBody
    /\ n <= total
    /\ Arrive([Current EXCEPT !.conn.code = code, !.conn.total = total], n)

More(n) ==
    /\ conn.phase = "open" /\ ~conn.doomed /\ conn.code # 0
    /\ conn.arrived + n <= conn.total
    /\ Arrive(Current, n)

\* The origin or the network ends the connection.
Drop ==
    /\ conn.phase = "open" /\ ~conn.doomed
    /\ Become([Current EXCEPT !.conn.doomed = TRUE])

\* mg_close_conn(): what is there of a reply that is not complete counts as
\* the reply, then the event of the close.
CloseConn ==
    /\ conn.phase # "gone" /\ conn.doomed
    /\ LET cut == conn.code # 0 /\ conn.arrived < conn.total
       IN  \E x \in IF cut THEN ChunkEvent(Current, request, 0) ELSE {Current} :
              Become(CloseEvent(IF cut THEN ReplyEvent(x) ELSE x))

\* The task closes the pipe, outside its callbacks: dispatch_pipe() for a
\* reader that has gone, or task_close().
TaskCloses ==
    /\ ~pipe.closing
    /\ Become(PipeClose(Current))

Next ==
    \/ Connect \/ ConnectFails
    \/ \E code \in Codes, total \in 0..FileSize + ErrorBody, n \in 0..IO :
          Answer(code, total, n)
    \/ \E n \in 1..IO : More(n)
    \/ Drop \/ CloseConn \/ TaskCloses

Spec == Init /\ [][Next]_vars

\* A connection gets somewhere: mongoose reports its establishment or its
\* failure, the origin answers and goes on or the connection breaks, and
\* the event loop closes a connection that is doomed.
Replied ==
    \/ \E code \in Codes, total \in 0..FileSize + ErrorBody, n \in 0..IO :
          Answer(code, total, n)
    \/ \E n \in 1..IO : More(n)
    \/ Drop

Fairness ==
    /\ WF_vars(Connect \/ ConnectFails)
    /\ WF_vars(Replied)
    /\ WF_vars(CloseConn)

FairSpec == Spec /\ Fairness

-----------------------------------------------------------------------------

PipeRecords == [pos : 0..FileSize, len : 0..FileSize, buf : 0..PIECE - 1,
                closing : BOOLEAN, redirecting : BOOLEAN,
                redirect_time : 0..MS_MAX_REDIRECT_TIME + 1, freed : BOOLEAN]

ConnRecords == [phase : {"connecting", "open", "gone"}, doomed : BOOLEAN,
                called : BOOLEAN, code : Codes \cup {0},
                total : 0..FileSize + ErrorBody, arrived : 0..FileSize + ErrorBody]

\* Every variable has its type; redirects are limited, and the buffer holds
\* less than a piece between events.
TypeOK ==
    /\ request \in Requests /\ pipe \in PipeRecords /\ conn \in ConnRecords
    /\ told \in Seq(Codes \cup {310, 502}) /\ failed \subseteq {130, 427}

\* No byte of the file is lost, doubled or taken from another reply: what
\* was handed over and what is buffered is what has arrived of the content,
\* however it was split into events and whoever closed the pipe meanwhile.
BytesAccounted ==
    pipe.pos + pipe.buf =
        request.pos + (IF conn.code = Content THEN conn.arrived ELSE 0)

\* The asserts on the place and the length of what is handed over hold.
AssertsHold == failed = {}

\* When a reply has come whole, every byte that was asked for has been
\* handed over by the time the task is told.
NothingKeptBack ==
    told = <<Content>> /\ conn.arrived = conn.total =>
        pipe.pos >= (IF request.len = 0 THEN FileSize ELSE request.pos + request.len)

\* What the task of a pipe relies on (module PipeFeed).
Feed == INSTANCE PipeFeed WITH
    fed    <- pipe.pos,
    told   <- told # <<>>,
    status <- IF pipe.freed THEN "freed" ELSE IF pipe.closing THEN "closed" ELSE "open"

RefinesFeed == Feed!Spec

\* Every pipe is freed in the end, whatever the origin answers.
PipeFreed == <>pipe.freed

\* Line 427 of ms_mem_storage.c: what is handed over is whole pieces, or
\* ends where the file does.
HandsOverWholePieces == 427 \notin failed
=============================================================================
