------------------------------ MODULE Session ------------------------------
(***************************************************************************)
(* One connection of a client and the session that answers its requests   *)
(* (src/src/ms_session.c), with the handlers that drive it:               *)
(* ms_stream_handler() for a request, server_handler() for bytes sent and  *)
(* for the end of the connection, and the callbacks of the task.           *)
(*                                                                         *)
(* A session fills its buffer (buf) from the task's cache, hands it to the *)
(* connection (send_mbuf) and is told how many bytes the socket took.  The *)
(* socket does not say whether they were header or body: header_sending,   *)
(* sending, pos and len are the session's own bookkeeping of that.         *)
(*                                                                         *)
(* A byte of the stream is an integer: a byte of the body is its offset in *)
(* the file, HeaderByte a byte of a head, ErrorByte one of an error page.  *)
(* The asserts are compiled out of a release build (src/ms.gyp), so the    *)
(* model goes on after one fails and notes its line in failed.             *)
(***************************************************************************)
EXTENDS Integers, Sequences

CONSTANTS
    SIZE,        \* size_t counts modulo this
    LIMIT,       \* MS_SEND_BUF_LIMIT
    HEADER,      \* bytes of a response head; an error page has one
    IO,          \* bound: bytes the socket takes at once
    FileSize,    \* bytes in the resource
    Requests,    \* the ranges clients ask for: [pos, len], len = 0: to the end
    Methods,     \* the methods they use, of {"GET", "HEAD"}
    Pipelining,  \* whether a request may come before the last reply ended
    Errors,      \* whether a download may fail
    LateData     \* whether downloads deliver to a connection that is closing

\* What a connection may hold is far less than size_t can count.
ASSUME SessionAssumption ==
    /\ SIZE \in Nat /\ LIMIT + LIMIT \div 2 < SIZE
    /\ LIMIT \in Nat \ {0} /\ HEADER \in Nat \ {0} /\ IO \in Nat \ {0}
    /\ FileSize \in Nat \ {0}
    /\ Requests \subseteq [pos : 0..FileSize - 1, len : Nat]
    /\ Methods \subseteq {"GET", "HEAD"}
    /\ {Pipelining, Errors, LateData} \subseteq BOOLEAN

VARIABLES
    conn,       \* the mg_connection: open, header_sent (MS_F_HEADER_SEND),
                \* closing (MG_F_SEND_AND_CLOSE), send_mbuf
    session,    \* the ms_session of the connection, or NoSession
    task,       \* its task: filesize (0: not known yet) and code
    request,    \* the last request of this client
    received,   \* what the client has received since that request
    failed      \* the lines of ms_session.c whose assert has failed, and 139

vars == <<conn, session, task, request, received, failed>>

HeaderByte == -1
ErrorByte == -2
NoSession == [method |-> "none"]

NewConn == [open |-> TRUE, header_sent |-> FALSE, closing |-> FALSE, send_mbuf |-> <<>>]
NewTask == [filesize |-> 0, code |-> 0]

HasSession == session # NoSession
SizeT(n) == n % SIZE
Lesser(a, b) == IF a < b THEN a ELSE b
Body(from, n) == [i \in 1..n |-> from + i - 1]
HeadBytes(n) == [i \in 1..n |-> HeaderByte]

-----------------------------------------------------------------------------
(* The functions of the session, on x = [conn, session, failed].  What the *)
(* cache holds is left open, so a function that reads it has several       *)
(* outcomes.                                                               *)

Assert(x, line, ok) == IF ok THEN x ELSE [x EXCEPT !.failed = @ \cup {line}]

\* Mutant: the bytes of the head are not counted.
SendHeadUncounted(x) ==
    IF x.conn.header_sent THEN x
    ELSE [x EXCEPT !.conn.header_sent = TRUE,
                   !.conn.send_mbuf = @ \o HeadBytes(HEADER)]

\* Lines 86-105; header_sending counts all that send_mbuf holds by then.
SendHead(x) ==
    IF x.conn.header_sent THEN x
    ELSE LET mbuf == x.conn.send_mbuf \o HeadBytes(HEADER)
         IN  [x EXCEPT !.conn.header_sent = TRUE,
                       !.conn.send_mbuf = mbuf,
                       !.session.header_sending = @ + Len(mbuf)]

\* Mutant: the bytes kept back are read again.
ReadFromSent(x) ==
    x.session.pos + Len(x.conn.send_mbuf) - x.session.header_sending

ReadFrom(x) ==
    x.session.pos + Len(x.session.buf) + Len(x.conn.send_mbuf) - x.session.header_sending

\* Lines 112-125: what to ask the cache for.
Wanted(x) ==
    Lesser(Lesser(LIMIT - Len(x.session.buf), SizeT(x.session.len - x.session.sending)),
           FileSize - ReadFrom(x))

\* Lines 127-130: the cache has any number of the bytes wanted.
ReadBody(x) ==
    LET s == x.session
        y == Assert(x, 127, \/ s.req_len = 0
                            \/ ReadFrom(x) + Wanted(x) <= s.req_pos + s.req_len)
    IN  { [y EXCEPT !.session.buf = @ \o Body(ReadFrom(x), n)] : n \in 0..Wanted(x) }

TooMuch(x) == Len(x.session.buf) + x.session.header_sending > LIMIT

\* Lines 137-140: how much of the buffer to send; as many bytes as the head
\* takes are kept back.
Portion(x) ==
    IF ~TooMuch(x) THEN Len(x.session.buf)
    ELSE IF Len(x.session.buf) >= x.session.header_sending
    THEN Len(x.session.buf) - x.session.header_sending
    ELSE 0

\* Lines 132-148.  Should the head be longer than the buffer, len wraps at
\* line 139 and what mg_send() copies is undefined; that is noted as line
\* 139, and nothing is sent.
SendBody(x) ==
    LET s   == x.session
        len == Portion(x)
        y   == Assert(x, 139, TooMuch(x) => Len(s.buf) >= s.header_sending)
        z   == Assert(y, 143, s.req_len = 0 \/ s.pos + s.sending + len <= s.req_pos + s.req_len)
    IN  IF s.buf = <<>> THEN x
        ELSE [z EXCEPT !.conn.send_mbuf = @ \o SubSeq(s.buf, 1, len),
                       !.session.sending = SizeT(@ + len),
                       !.session.buf = SubSeq(@, len + 1, Len(@))]

\* Mutant: a session does not wait for the connection to drain.
TransferAlways(x, tsk) ==
    IF x.session.len = 0 \/ tsk.filesize = 0 THEN {x}
    ELSE IF x.session.method = "HEAD" THEN {[SendHead(x) EXCEPT !.conn.closing = TRUE]}
    ELSE { SendBody(z) : z \in UNION { ReadBody(z) : z \in {SendHead(x)} } }

\* try_transfer_data(): the set of its outcomes.
TryTransfer(x, tsk) ==
    LET s == x.session
        y == Assert(x, 59, s.sending + s.header_sending = Len(x.conn.send_mbuf))
    IN  IF s.sending > LIMIT \div 2 \/ s.len = 0 \/ tsk.filesize = 0
        THEN {y}
        ELSE IF s.method = "HEAD"
        THEN {[SendHead(y) EXCEPT !.conn.closing = TRUE]}
        ELSE { SendBody(z) : z \in UNION { ReadBody(z) : z \in {SendHead(y)} } }

\* Mutants: an error page is sent after a head; a session whose head is sent
\* is not closed.
CloseWithPage(x, tsk) ==
    IF tsk.code = 0 \/ x.session.sending > 0 \/ x.session.header_sending > 0 \/ x.conn.closing
    THEN x
    ELSE [x EXCEPT !.conn.closing = TRUE, !.conn.send_mbuf = Append(@, ErrorByte)]

CloseBeforeHead(x, tsk) ==
    IF tsk.code = 0 \/ x.conn.header_sent \/ x.conn.closing THEN x
    ELSE [x EXCEPT !.conn.closing = TRUE, !.conn.send_mbuf = Append(@, ErrorByte)]

\* ms_session_close_if_need()
CloseIfNeed(x, tsk) ==
    IF tsk.code = 0 \/ x.session.sending > 0 \/ x.session.header_sending > 0 THEN x
    ELSE IF x.conn.header_sent \/ x.conn.closing
         THEN [x EXCEPT !.conn.closing = TRUE]
         ELSE [x EXCEPT !.conn.closing = TRUE,
                        !.conn.send_mbuf = Append(@, ErrorByte)]

TransferThenClose(x, tsk) == { CloseIfNeed(y, tsk) : y \in TryTransfer(x, tsk) }

\* The bookkeeping of on_send(), lines 163-187.
Counted(x, num_sent) ==
    LET h    == x.session.header_sending
        body == IF h > num_sent THEN 0 ELSE num_sent - h
        y    == [x EXCEPT !.session.header_sending = IF h > num_sent THEN h - num_sent ELSE 0]
        z    == Assert(y, 184, x.session.len > 0 => x.session.len >= body)
    IN  IF x.session.len = 0 THEN y
        ELSE [z EXCEPT !.session.pos = @ + body,
                       !.session.len = IF @ > 0 THEN @ - body ELSE @,
                       !.session.sending = SizeT(@ - body)]

\* Mutant: the session ends when all it has handed over is sent.
OnSendEndsEarly(x, tsk, num_sent) ==
    IF x.conn.closing THEN {x}
    ELSE UNION { IF y.session.sending = 0 /\ y.session.header_sending = 0
                 THEN {[y EXCEPT !.session = NoSession]}
                 ELSE TransferThenClose(y, tsk) : y \in {Counted(x, num_sent)} }

\* on_send(); removing the reader from the task is modelled in module Task.
OnSend(x, tsk, num_sent) ==
    IF x.conn.closing THEN {x}
    ELSE UNION { IF x.session.len = 0 THEN {y}
                 ELSE IF y.session.len = 0 /\ y.session.sending = 0
                 THEN {[y EXCEPT !.session = NoSession]}
                 ELSE TransferThenClose(y, tsk) : y \in {Counted(x, num_sent)} }

Open(r, method, tsk) ==
    [method |-> method, pos |-> r.pos,
     len |-> IF r.len = 0 /\ tsk.filesize > 0 THEN tsk.filesize - r.pos ELSE r.len,
     req_pos |-> r.pos, req_len |-> r.len,
     sending |-> 0, header_sending |-> 0, buf |-> <<>>]

-----------------------------------------------------------------------------

Current == [conn |-> conn, session |-> session, failed |-> failed]

Become(outcomes) ==
    \E x \in outcomes : conn' = x.conn /\ session' = x.session /\ failed' = x.failed

Init ==
    /\ conn = NewConn /\ session = NoSession /\ task = NewTask
    /\ request \in [range : Requests, method : Methods]
    /\ received = <<>> /\ failed = {}

\* MG_EV_HTTP_REQUEST.  The session of an unfinished reply is dropped; what
\* it gave to the connection is not.
Request(r, method) ==
    /\ conn.open
    /\ Pipelining \/ (~HasSession /\ ~conn.closing /\ conn.send_mbuf = <<>>)
    /\ LET x == [Current EXCEPT !.conn.header_sent = FALSE,
                                !.session = Open(r, method, task)]
       IN  Become(TransferThenClose(x, task))
    /\ request' = [range |-> r, method |-> method]
    /\ received' = <<>>
    /\ UNCHANGED task

\* The head of a download reaches the task: on_content_size_from().
LearnSize ==
    /\ HasSession /\ task.filesize = 0
    /\ task' = [task EXCEPT !.filesize = FileSize]
    /\ session' = [session EXCEPT !.len = IF @ > 0 THEN @ ELSE FileSize - session.pos]
    /\ UNCHANGED <<conn, request, received, failed>>

\* A download hands data to the task: on_recv(), for every reader.
Recv ==
    /\ HasSession /\ task.filesize > 0
    /\ conn.closing => LateData
    /\ Become(TransferThenClose(Current, task))
    /\ UNCHANGED <<task, request, received>>

\* A download fails: on_close() of the task, on_error() of the session.
TaskError ==
    /\ Errors /\ HasSession
    /\ task' = [task EXCEPT !.code = 404]
    /\ Become({CloseIfNeed(Current, task')})
    /\ UNCHANGED <<request, received>>

\* The socket takes k bytes; MG_EV_SEND.
SendOut(k) ==
    /\ conn.open /\ k <= Len(conn.send_mbuf)
    /\ received' = received \o SubSeq(conn.send_mbuf, 1, k)
    /\ LET x == [Current EXCEPT !.conn.send_mbuf = SubSeq(@, k + 1, Len(@))]
       IN  Become(IF HasSession THEN OnSend(x, task, k) ELSE {x})
    /\ UNCHANGED <<task, request>>

\* Mutant: the session outlives its connection.
ClosedConnOnly ==
    /\ conn' = [conn EXCEPT !.open = FALSE, !.send_mbuf = <<>>]
    /\ UNCHANGED <<session, task, request, received, failed>>

\* MG_EV_CLOSE
Closed ==
    /\ conn' = [conn EXCEPT !.open = FALSE, !.send_mbuf = <<>>]
    /\ session' = NoSession
    /\ UNCHANGED <<task, request, received, failed>>

\* The event loop closes a drained connection at the end of a round, after
\* the handlers of the other connections.
CloseDrained == conn.open /\ conn.closing /\ conn.send_mbuf = <<>> /\ Closed

\* The client goes away, or a send fails.
Disconnect == conn.open /\ Closed

Accept ==
    /\ ~conn.open
    /\ conn' = NewConn /\ received' = <<>>
    /\ UNCHANGED <<session, task, request, failed>>

\* ms_remove_task_if_need(), and the task the next request opens.
TaskExpires ==
    /\ ~HasSession
    /\ task' = NewTask
    /\ UNCHANGED <<conn, session, request, received, failed>>

Next ==
    \/ \E r \in Requests, method \in Methods : Request(r, method)
    \/ LearnSize
    \/ Recv
    \/ TaskError
    \/ \E k \in 1..IO : SendOut(k)
    \/ CloseDrained \/ Disconnect \/ Accept \/ TaskExpires

Spec == Init /\ [][Next]_vars

\* The client reads what it is sent, the event loop runs, and a download
\* that has not failed goes on delivering what the session waits for.
Fairness ==
    /\ WF_vars(\E k \in 1..IO : SendOut(k))
    /\ WF_vars(CloseDrained)
    /\ WF_vars(task.code = 0 /\ LearnSize)
    /\ WF_vars(task.code = 0 /\ Recv)

FairSpec == Spec /\ Fairness

-----------------------------------------------------------------------------

Bytes == -2..FileSize - 1

Sessions ==
    [method : {"GET", "HEAD"}, pos : Nat, len : Int, req_pos : Nat, req_len : Nat,
     sending : 0..SIZE - 1, header_sending : Nat, buf : Seq(Bytes)]

\* Every variable has its type, the buffer of the session never outgrows
\* its allocation, and only an open connection has a session.
TypeOK ==
    /\ conn \in [open : BOOLEAN, header_sent : BOOLEAN, closing : BOOLEAN,
                 send_mbuf : Seq(Bytes)]
    /\ session \in Sessions \cup {NoSession}
    /\ HasSession => conn.open /\ Len(session.buf) <= LIMIT
    /\ task \in [filesize : {0, FileSize}, code : {0, 404}]
    /\ request \in [range : Requests, method : Methods]
    /\ received \in Seq(Bytes)
    /\ failed \subseteq {59, 127, 139, 143, 184}

\* None of the asserts of ms_session.c fails: the counters agree with the
\* connection's buffer each time a transfer starts, nothing past the range
\* is read or sent, and no more body is accounted as sent than is left; nor
\* does the length at line 139 wrap.
AssertsHold == failed = {}

\* Line 59: header_sending and sending account for all of send_mbuf.
CountersMatch == 59 \notin failed

\* Line 127: the session asks the cache for nothing past the range.
ReadsInRange == 127 \notin failed

\* A refill starts at up to half the limit and adds up to the limit: a
\* connection that is not read holds no more than that, which is more than
\* the limit the comment at line 138 speaks of.
SendMbufBounded == Len(conn.send_mbuf) <= LIMIT + LIMIT \div 2

\* Byte i of the reply to a range that starts at from.
ReplyByte(from, i) == IF i <= HEADER THEN HeaderByte ELSE from + i - HEADER - 1

\* Whatever mixture of sends, refills and arrivals, what the client has, what
\* the connection holds and what the session keeps back are one reply: a
\* head, once and first, and then consecutive bytes of the file starting at
\* the first one asked for.
StreamInOrder ==
    LET stream == received \o conn.send_mbuf \o (IF HasSession THEN session.buf ELSE <<>>)
    IN  \A i \in 1..Len(stream) :
            stream[i] \in {ReplyByte(request.range.pos, i), ErrorByte}

\* An error page is sent only in place of a reply, never within one: it is
\* all that is sent for its request.
ErrorPageAlone ==
    LET sent == received \o conn.send_mbuf
    IN  \A i \in 1..Len(sent) : sent[i] = ErrorByte => Len(sent) = 1

\* The reply a session gives is the one RangeReply promises: after the head
\* the bytes of the range in order, and the connection kept for another
\* request only after the last of them.
Reply == INSTANCE RangeReply WITH
    phase <- IF ~conn.open THEN "closed" ELSE IF HasSession THEN "serving" ELSE "idle",
    range <- request.range,
    got <- SubSeq(received, HEADER + 1, Len(received))

RefinesReply == Reply!Spec

\* Every session ends: complete, cut by an error of the download, or by the
\* client.
SessionEnds == HasSession ~> ~HasSession
=============================================================================
