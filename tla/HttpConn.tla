------------------------------ MODULE HttpConn ------------------------------
(***************************************************************************)
(* A connection of mongoose (src/src/mongoose.c) as the program uses it:   *)
(* one that a pipe opens to an origin, with the look-up of its host, or    *)
(* one that a client of the server opens.  mg_http_handler() cuts the      *)
(* bytes that come into messages and tells the user's handler of them:     *)
(* pipe_handler(), which takes the body away as it comes                   *)
(* (MG_F_DELETE_CHUNK), or server_handler(), which leaves it until the     *)
(* request is there whole.                                                 *)
(*                                                                         *)
(* A byte is its message and its place in it; the first HeadLen bytes of a *)
(* message are its head.  One round of the loop of mg_http_handler() is a  *)
(* step, so whatever others do in between is a step of theirs.             *)
(***************************************************************************)
EXTENDS Integers, SequencesExt

CONSTANTS
    Sides,       \* "client", "server" or both
    Peers,       \* what a peer may send: sequences of bodies [len, known]
    HeadLen,     \* bytes in the head of a message
    MaxIO,       \* MG_TCP_IO_SIZE: bytes read at a time
    MaxRetries   \* of the resolver

ASSUME ConnAssumption ==
    /\ Sides \subseteq {"client", "server"}
    /\ HeadLen \in Nat \ {0} /\ MaxIO \in Nat \ {0} /\ MaxRetries \in Nat
    /\ Peers \subseteq Seq([len : Nat, known : BOOLEAN])

VARIABLES
    side, bodies,   \* which of the two, and what the peer sends
    conn,           \* at, its flags, and whether there is something to send
    dns,            \* the connection to the name server and its request
    http,           \* recv_mbuf, rcvd, and whether the loop goes round
    arrived,        \* how much the peer has sent
    user,           \* what the handler does: "listens", has "quit", was "told"
    heard           \* history: the events it was told, bytes and requests

vars == <<side, bodies, conn, dns, http, arrived, user, heard>>

\* All that the peer sends.
Wire ==
    FlattenSeq([m \in 1..Len(bodies) |->
        [k \in 1..HeadLen + bodies[m].len |-> [msg |-> m, at |-> k]]])

NoDns == [conn |-> "none", doomed |-> FALSE, retries |-> 0, due |-> FALSE,
          queued |-> FALSE, asked |-> FALSE, sent |-> 0, calls |-> 0]

\* mg_resolve_async_opt()
NewDns == [NoDns EXCEPT !.conn = "connecting", !.asked = TRUE]

\* mg_connect_http() to a name or to an address; mg_accept_conn().
Init ==
    /\ side \in Sides /\ bodies \in Peers
    /\ side = "client" => Len(bodies) = 1
    /\ \E at \in IF side = "client" THEN {"resolving", "connecting"} ELSE {"open"} :
        /\ conn = [at |-> at, doomed |-> FALSE, ending |-> FALSE, out |-> side = "client"]
        /\ dns = IF at = "resolving" THEN NewDns ELSE NoDns
    /\ http = [io |-> <<>>, rcvd |-> 0, parsing |-> FALSE]
    /\ arrived = 0 /\ user = "listens"
    /\ heard = [events |-> <<>>, body |-> <<>>, requests |-> <<>>]

Hears(event) == [heard EXCEPT !.events = Append(@, event)]

-----------------------------------------------------------------------------
\* The resolver, mg_resolve_async_eh(), in rounds of the loop of mongoose:
\* the event of the poll first, then what its socket is ready for.

\* mg_send_dns_query(), counted at once.
Queried(d) == [d EXCEPT !.retries = @ + 1, !.due = FALSE, !.queued = TRUE]

\* Mutant: after the last query the resolver waits for an answer.
PolledForEver(d) ==
    IF d.asked /\ d.retries <= MaxRetries /\ d.conn = "open" /\ (d.retries = 0 \/ d.due)
    THEN Queried(d) ELSE d

\* MG_EV_POLL
Polled(d) ==
    CASE d.asked /\ d.retries > MaxRetries -> [d EXCEPT !.doomed = TRUE]
      [] d.asked /\ d.retries <= MaxRetries /\ d.conn = "open" /\ (d.retries = 0 \/ d.due)
           -> Queried(d)
      [] OTHER -> d

\* mg_if_can_send_cb(), MG_EV_SEND: whatever became of it, the query is gone
\* from the buffer, and an error does not close the connection.
SentOut(d, ok) ==
    IF d.doomed THEN d
    ELSE [d EXCEPT !.queued = FALSE, !.sent = IF ok THEN @ + 1 ELSE @]

DnsTurn == dns.conn \in {"connecting", "open"} /\ ~dns.doomed

DnsQuiet ==
    /\ DnsTurn /\ dns' = Polled(dns)
    /\ UNCHANGED <<side, bodies, conn, http, arrived, user, heard>>

\* mg_if_connect_cb(), MG_EV_CONNECT; without a socket it is doomed.
DnsConnect(ok) ==
    /\ DnsTurn /\ dns.conn = "connecting"
    /\ LET d == Queried([Polled(dns) EXCEPT !.conn = "open", !.doomed = ~ok])
       IN  dns' = SentOut(d, TRUE)
    /\ UNCHANGED <<side, bodies, conn, http, arrived, user, heard>>

DnsSend(ok) ==
    /\ DnsTurn /\ dns.queued
    /\ dns' = SentOut(Polled(dns), ok)
    /\ UNCHANGED <<side, bodies, conn, http, arrived, user, heard>>

\* Five seconds after the last query.
DnsDue ==
    /\ DnsTurn /\ dns.conn = "open" /\ ~dns.due
    /\ dns' = [dns EXCEPT !.due = TRUE]
    /\ UNCHANGED <<side, bodies, conn, http, arrived, user, heard>>

\* Mutant: the request is not forgotten when it is answered.
AnsweredOnly(d) == [d EXCEPT !.doomed = TRUE, !.calls = @ + 1]

\* The request is answered, and freed.
Answered(d) == [d EXCEPT !.doomed = TRUE, !.asked = FALSE, !.calls = @ + 1]

\* resolve_cb() of a failure: the connection was never in the list, and is
\* told and closed at once.
ResolveFails ==
    /\ conn' = [conn EXCEPT !.at = "closed", !.doomed = TRUE]
    /\ user' = IF user = "listens" THEN "quit" ELSE user
    /\ heard' = [heard EXCEPT !.events =
                    @ \o (IF user = "listens" THEN <<"failed">> ELSE <<>>) \o <<"close">>]

\* MG_EV_RECV: an answer with an address, which resolve_cb() connects to,
\* with none, or nothing that could be read as an answer.
DnsRecv(found) ==
    /\ DnsTurn /\ dns.sent > 0
    /\ LET d == Polled(dns)
       IN  IF d.doomed \/ found = "nothing"
           THEN dns' = [d EXCEPT !.doomed = TRUE] /\ UNCHANGED <<conn, user, heard>>
           ELSE /\ dns' = Answered(d)
                /\ IF found = "address"
                   THEN conn' = [conn EXCEPT !.at = "connecting"] /\ UNCHANGED <<user, heard>>
                   ELSE ResolveFails
    /\ UNCHANGED <<side, bodies, http, arrived>>

\* MG_EV_CLOSE of the name server's connection; mg_mgr_free() closes it too.
DnsClose ==
    /\ dns.conn \in {"connecting", "open"}
    /\ dns' = [dns EXCEPT !.conn = "gone", !.asked = FALSE, !.doomed = TRUE,
                          !.calls = IF dns.asked THEN @ + 1 ELSE @]
    /\ IF dns.asked THEN ResolveFails ELSE UNCHANGED <<conn, user, heard>>
    /\ UNCHANGED <<side, bodies, http, arrived>>

-----------------------------------------------------------------------------
\* The connection.

\* mg_if_connect_cb(): a pipe that is told a failure closes.
ConnectDone(ok) ==
    /\ conn.at = "connecting" /\ ~conn.doomed
    /\ conn' = [conn EXCEPT !.at = "open", !.doomed = ~ok]
    /\ user' = IF ok \/ user # "listens" THEN user ELSE "quit"
    /\ heard' = IF user = "listens" THEN Hears(IF ok THEN "connected" ELSE "failed") ELSE heard
    /\ UNCHANGED <<side, bodies, dns, http, arrived>>

\* mg_if_can_send_cb()
Send(ok) ==
    /\ conn.at = "open" /\ ~conn.doomed /\ conn.out /\ ~http.parsing
    /\ conn' = [conn EXCEPT !.out = IF ok THEN FALSE ELSE @, !.doomed = ~ok]
    /\ UNCHANGED <<side, bodies, dns, http, arrived, user, heard>>

\* mg_recv_tcp(), MG_EV_RECV: n bytes more.
Recv(n) ==
    /\ conn.at = "open" /\ ~conn.doomed /\ ~conn.ending /\ ~http.parsing
    /\ arrived + n <= Len(Wire) /\ arrived' = arrived + n
    /\ http' = [io |-> http.io \o SubSeq(Wire, arrived + 1, arrived + n),
                rcvd |-> http.rcvd + n, parsing |-> TRUE]
    /\ UNCHANGED <<side, bodies, conn, dns, user, heard>>

\* The peer shuts its side: what is to be sent is sent, and then it closes.
Eof ==
    /\ conn.at = "open" /\ ~conn.doomed /\ ~conn.ending /\ ~http.parsing
    /\ conn' = [conn EXCEPT !.ending = TRUE]
    /\ UNCHANGED <<side, bodies, dns, http, arrived, user, heard>>

RecvError ==
    /\ conn.at = "open" /\ ~conn.doomed /\ ~http.parsing
    /\ conn' = [conn EXCEPT !.doomed = TRUE]
    /\ UNCHANGED <<side, bodies, dns, http, arrived, user, heard>>

-----------------------------------------------------------------------------
\* mg_http_handler(), on x = [conn, http, user, heard].

Current == [conn |-> conn, http |-> http, user |-> user, heard |-> heard]
Become(x) == conn' = x.conn /\ http' = x.http /\ user' = x.user /\ heard' = x.heard

\* mg_parse_http(): the message whose head is in front, 0 if the head is not
\* there whole, -1 if something else is.
Parsed(io) ==
    CASE Len(io) < HeadLen -> 0
      [] Len(io) >= HeadLen /\ \A k \in 1..HeadLen : io[k] = [msg |-> io[1].msg, at |-> k]
           -> io[1].msg
      [] OTHER -> -1

MessageLen(m) == HeadLen + bodies[m].len

\* Mutant: the head is not counted.
ReachesBody(m, n) == bodies[m].known /\ bodies[m].len <= n

\* A message without a length has none that could be reached.
Reaches(m, n) == bodies[m].known /\ MessageLen(m) <= n

Takes(x) == side = "client" /\ x.user = "listens"

\* Mutant: the chunk is not deleted.
DeliverChunkKept(x, quits) ==
    IF Takes(x)
    THEN [x EXCEPT !.heard.body = @ \o SubSeq(x.http.io, HeadLen + 1, Len(x.http.io))]
    ELSE x

\* deliver_chunk(): all that follows the head.  A pipe takes it away, and may
\* close at it.
DeliverChunk(x, quits) ==
    IF Takes(x)
    THEN [x EXCEPT !.heard.body = @ \o SubSeq(x.http.io, HeadLen + 1, Len(x.http.io)),
                   !.http.io = SubSeq(@, 1, HeadLen),
                   !.user = IF quits THEN "quit" ELSE @,
                   !.conn.doomed = @ \/ quits]
    ELSE x

\* MG_EV_HTTP_REPLY, at which a pipe closes or follows a redirect, or
\* MG_EV_HTTP_REQUEST, which is answered.
DeliverMessage(x, m, size) ==
    CASE Takes(x) -> [x EXCEPT !.heard.events = Append(@, "end"),
                               !.user = "told", !.conn.doomed = TRUE]
      [] side = "server" -> [x EXCEPT !.heard.requests = Append(@, [msg |-> m, size |-> size]),
                                      !.conn.out = TRUE]
      [] OTHER -> x

\* mbuf_remove() does nothing when there is less than that, which is so when
\* a pipe has taken the body away.
Removed(io, n) == IF n <= Len(io) THEN SubSeq(io, n + 1, Len(io)) ELSE io

\* Mutant: the bytes of a message are not taken off the count.
MessageDoneUncounted(x, m) ==
    LET io == Removed(x.http.io, MessageLen(m))
    IN  [x EXCEPT !.http.io = io, !.http.parsing = io # <<>>]

\* Mutant: the body alone is removed.
MessageDoneBody(x, m) ==
    LET io == Removed(x.http.io, bodies[m].len)
    IN  [x EXCEPT !.http.io = io, !.http.rcvd = @ - bodies[m].len, !.http.parsing = io # <<>>]

\* What follows the message is looked at in another round.
MessageDone(x, m) ==
    LET io == Removed(x.http.io, MessageLen(m))
    IN  [x EXCEPT !.http.io = io, !.http.rcvd = @ - MessageLen(m), !.http.parsing = io # <<>>]

\* One round of the loop.
Again(quits) ==
    /\ http.parsing
    /\ LET m == Parsed(http.io)
           x == Current
       IN  CASE m = -1 -> Become([x EXCEPT !.conn.doomed = TRUE, !.http.parsing = FALSE])
             [] m = 0 -> Become([x EXCEPT !.http.parsing = FALSE])
             [] m > 0 /\ ~Reaches(m, http.rcvd)
                  -> Become(DeliverChunk([x EXCEPT !.http.parsing = FALSE], quits))
             [] m > 0 /\ Reaches(m, http.rcvd)
                  -> Become(MessageDone(
                        DeliverMessage(DeliverChunk(x, quits), m, Len(http.io) - HeadLen), m))
    /\ UNCHANGED <<side, bodies, dns, arrived>>

\* MG_EV_CLOSE: a message whose head is there is told of, whole or not.
Told(x, quits) ==
    LET m == Parsed(x.http.io)
    IN  IF m > 0
        THEN DeliverMessage(DeliverChunk(x, quits), m, Len(x.http.io) - HeadLen)
        ELSE x

\* mg_close_conn(), from mg_if_poll() or from mg_mgr_free().
CloseConn(quits) ==
    /\ conn.at \in {"connecting", "open"} /\ ~http.parsing
    /\ LET x == Told(Current, quits)
       IN  Become([x EXCEPT !.conn.at = "closed", !.conn.doomed = TRUE,
                            !.heard.events = Append(@, "close"), !.http.rcvd = 0])
    /\ UNCHANGED <<side, bodies, dns, arrived>>

\* mg_if_poll()
Poll == (conn.doomed \/ (conn.ending /\ ~conn.out)) /\ CloseConn(FALSE)

\* The handler or its task closes the connection, in a callback or outside
\* (pipe_close(), MG_F_CLOSE_IMMEDIATELY of a session).
UserCloses ==
    /\ conn.at # "closed" /\ user = "listens"
    /\ conn' = [conn EXCEPT !.doomed = TRUE]
    /\ user' = IF side = "client" THEN "quit" ELSE user
    /\ UNCHANGED <<side, bodies, dns, http, arrived, heard>>

Next ==
    \/ DnsQuiet \/ DnsDue \/ DnsClose
    \/ \E ok \in BOOLEAN : DnsConnect(ok) \/ DnsSend(ok) \/ ConnectDone(ok) \/ Send(ok)
    \/ \E found \in {"address", "other", "nothing"} : DnsRecv(found)
    \/ \E n \in 1..MaxIO : Recv(n)
    \/ \E quits \in BOOLEAN : Again(quits) \/ CloseConn(quits)
    \/ Eof \/ RecvError \/ UserCloses

Spec == Init /\ [][Next]_vars

\* The event loop polls every connection in each round and finishes what it
\* has begun; time passes.
Fairness ==
    /\ WF_vars(DnsQuiet) /\ WF_vars(DnsDue) /\ WF_vars(DnsConnect(TRUE))
    /\ WF_vars(dns.doomed /\ DnsClose)
    /\ WF_vars(Again(FALSE)) /\ WF_vars(Poll)

FairSpec == Spec /\ Fairness

-----------------------------------------------------------------------------

Bytes == [msg : 1..Len(bodies), at : 1..Len(Wire)]

\* Every variable has its type; a pipe that has closed has a connection that
\* is about to (line 63 of ms_http_pipe.c), the resolver asks a bounded
\* number of times, and a head is never looked for inside of a message.
TypeOK ==
    /\ conn \in [at : {"resolving", "connecting", "open", "closed"},
                 doomed : BOOLEAN, ending : BOOLEAN, out : BOOLEAN]
    /\ dns \in [conn : {"none", "connecting", "open", "gone"}, doomed : BOOLEAN,
                retries : 0..MaxRetries + 1, due : BOOLEAN, queued : BOOLEAN,
                asked : BOOLEAN, sent : 0..MaxRetries + 1, calls : Nat]
    /\ http.io \in Seq(Bytes) /\ http.rcvd \in 0..Len(Wire) /\ Parsed(http.io) # -1
    /\ arrived \in 0..Len(Wire)
    /\ user \in {"listens", "quit", "told"} /\ (user # "listens" => conn.doomed)

\* Between reads nothing is lost and nothing is counted twice, however the
\* messages were split: of a reply the head is kept and the pipe has all the
\* rest; of requests the one that is not complete is kept, from its start.
BytesAccounted ==
    ~http.parsing /\ conn.at = "open" /\ ~conn.doomed =>
        IF side = "client"
        THEN http.io \o heard.body = SubSeq(Wire, 1, arrived)
        ELSE /\ http.rcvd = Len(http.io)
             /\ http.io = SubSeq(Wire, arrived - http.rcvd + 1, arrived)
             /\ http.io # <<>> => http.io[1].at = 1 /\ ~Reaches(http.io[1].msg, http.rcvd)

\* The requests of a connection are told of in order, each once, and whole,
\* but for one that its connection ends in the middle of.
RequestsInOrder ==
    \A i \in 1..Len(heard.requests) :
        /\ heard.requests[i].msg = i
        /\ \/ heard.requests[i].size >= bodies[i].len
           \/ i = Len(heard.requests) /\ conn.at = "closed"

\* A pipe is told of its connection before all else, of the end of a reply
\* once, and of the close last; if it does not close of itself a reply whose
\* head has come always ends.
EventsInOrder ==
    /\ heard.events \in
          { <<>>, <<"connected">>, <<"failed">>, <<"connected", "end">>,
            <<"close">>, <<"connected", "close">>, <<"failed", "close">>,
            <<"connected", "end", "close">> }
    /\ heard.body # <<>> => "connected" \in ToSet(heard.events)
    /\ conn.at = "closed" /\ user # "quit" /\ arrived >= HeadLen =>
          heard.events = <<"connected", "end", "close">>

\* What mg_http_handler() tells the user's handler, either one.
MessagesInOrder == IF side = "client" THEN EventsInOrder ELSE RequestsInOrder

\* The resolver calls back once and frees its request then; it has given up
\* on queries that were sent MaxRetries times, one less than it counts.
ResolvesOnce ==
    /\ dns.calls = IF dns.conn = "none" \/ conn.at = "resolving" THEN 0 ELSE 1
    /\ dns.asked <=> conn.at = "resolving"
    /\ dns.sent <= IF MaxRetries = 0 THEN 1 ELSE MaxRetries

\* What HttpPipe takes for granted of its connection, which is nothing of
\* one that a client of the server has opened.
OfPipe(value, other) == IF side = "client" THEN value ELSE other

Events == INSTANCE HttpEvents WITH
    phase   <- OfPipe(CASE conn.at = "closed" -> "gone"
                        [] conn.at # "closed" /\ "connected" \in ToSet(heard.events) -> "open"
                        [] OTHER -> "connecting", "connecting"),
    length  <- OfPipe(IF bodies[1].known THEN bodies[1].len ELSE Len(Wire), 0),
    given   <- OfPipe(Len(heard.body), 0),
    told    <- OfPipe(user = "told", FALSE),
    closing <- OfPipe(user # "listens" \/ conn.at = "closed", FALSE)

RefinesEvents == Events!Spec

\* A connection that is to be closed is, even if its host is being looked
\* up; and a look-up ends.
Ends ==
    /\ conn.doomed ~> conn.at = "closed"
    /\ conn.at = "resolving" ~> conn.at # "resolving"
=============================================================================
