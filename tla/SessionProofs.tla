--------------------------- MODULE SessionProofs ---------------------------
(***************************************************************************)
(* That a session answers a request with the bytes of its range, for every *)
(* size of limit, head, file and send.  The invariant relates the four     *)
(* places where a byte of the reply can be (the client, the connection,    *)
(* the buffer of the session, the cache) to the session's own bookkeeping  *)
(* of them: pos, len, sending and header_sending.                          *)
(***************************************************************************)
EXTENDS Session, SequenceTheorems, TLAPS

\* A client asks for nothing before the last reply has ended, and a download
\* delivers nothing to a connection that is closing.
OneAtATime == ~Pipelining /\ ~LateData

\* A head takes at most half of the limit, so that line 139 never wraps.
HeadFits == 2 * HEADER <= LIMIT + 1

Conns == [open : BOOLEAN, header_sent : BOOLEAN, closing : BOOLEAN, send_mbuf : Seq(Bytes)]

\* What the functions of the session work on.
States == [conn : Conns, session : Sessions, failed : SUBSET {59, 127, 139, 143, 184}]

\* seq is what comes after the first R bytes of the reply from there on.
Carries(seq, R, from) == \A i \in 1..Len(seq) : seq[i] = ReplyByte(from, R + i)

\* Of R bytes received: what is missing of the head, and what is body.
HeadLeft(R) == IF R < HEADER THEN HEADER - R ELSE 0
BodyIn(R) == IF R < HEADER THEN 0 ELSE R - HEADER

\* How many bytes of the reply the connection holds, and the session.
Unsent(x) == Len(x.conn.send_mbuf)
Kept(x) == Len(x.session.buf)

\* Nothing of the reply has been made yet.
Fresh(x, R, r) ==
    /\ R = 0 /\ x.conn.send_mbuf = <<>> /\ x.session.buf = <<>>
    /\ x.session.sending = 0 /\ x.session.header_sending = 0 /\ x.session.pos = r.pos

\* The counters of the session say what the connection holds and what the
\* client has.
Counts(x, R, r) ==
    /\ x.session.header_sending = HeadLeft(R)
    /\ x.session.sending + x.session.header_sending = Unsent(x)
    /\ x.session.pos = r.pos + BodyIn(R)

\* A session in the middle of a reply to r of which the client has R bytes.
\* Once it has no more to send, or waits for its connection to close, its
\* counters are left as they are.
Serving(x, R, r) ==
    /\ x.conn.open
    /\ x.session.req_pos = r.pos /\ x.session.req_len = r.len
    /\ Kept(x) <= LIMIT
    /\ Unsent(x) <= LIMIT + LIMIT \div 2
    /\ Carries(x.conn.send_mbuf, R, r.pos)
    /\ Carries(x.session.buf, R + Unsent(x), r.pos)
    /\ ~x.conn.header_sent => Fresh(x, R, r) /\ ~x.conn.closing
    /\ x.conn.header_sent /\ ~x.conn.closing /\ x.session.len # 0 => Counts(x, R, r)

\* A session that has answered with an error page.
Refused(x, R) ==
    /\ x.conn.open /\ x.conn.closing /\ x.session.buf = <<>> /\ ~x.conn.header_sent
    /\ R + Unsent(x) = 1
    /\ \A i \in 1..Unsent(x) : x.conn.send_mbuf[i] = ErrorByte

\* What there is of the session's answer to r, of which the client has got.
Answering(x, got, r, tsk) ==
    \/ /\ Serving(x, Len(got), r) /\ Carries(got, 0, r.pos)
       /\ tsk.filesize = 0 => ~x.conn.header_sent
    \/ /\ Refused(x, Len(got))
       /\ \A i \in 1..Len(got) : got[i] = ErrorByte

\* Between two requests nothing is unsent, and the client has (part of) a
\* reply or an error page.
Quiet(c, got, r) ==
    /\ c.open => ~c.closing
    /\ c.send_mbuf = <<>>
    /\ Carries(got, 0, r.pos) \/ got = <<ErrorByte>>

\* The inductive invariant of the session.
SessionInv ==
    /\ HasSession => Answering(Current, received, request.range, task)
    /\ ~HasSession => Quiet(conn, received, request.range)

-----------------------------------------------------------------------------
(* Sequences of bytes.                                                     *)

\* The lesser of three numbers exceeds none of them.
LEMMA LesserOfThree ==
    ASSUME NEW a \in Int, NEW b \in Int, NEW c \in Int
    PROVE  LET l == Lesser(Lesser(a, b), c) IN l \in Int /\ l <= a /\ l <= b /\ l <= c
  BY DEF Lesser

\* The constants are numbers, and one and a half limits do not wrap.
LEMMA ConstantsFit ==
    /\ SIZE \in Nat /\ LIMIT \in Nat /\ HEADER \in Nat /\ FileSize \in Nat
    /\ HEADER > 0 /\ FileSize > 0 /\ LIMIT > 0
    /\ LIMIT \div 2 \in Nat /\ LIMIT + LIMIT \div 2 < SIZE
  <1>1. LIMIT \div 2 \in Nat
    BY SessionAssumption
  <1> QED  BY <1>1, SessionAssumption

\* What follows a part of the reply continues it.
LEMMA CarriesConcat ==
    ASSUME NEW s \in Seq(Bytes), NEW t \in Seq(Bytes), NEW R \in Nat, NEW from \in Nat,
           Carries(s, R, from), Carries(t, R + Len(s), from)
    PROVE  s \o t \in Seq(Bytes) /\ Len(s \o t) = Len(s) + Len(t) /\ Carries(s \o t, R, from)
  <1>1. Len(s) \in Nat /\ Len(t) \in Nat
    BY LenProperties
  <1>2. /\ s \o t \in Seq(Bytes) /\ Len(s \o t) = Len(s) + Len(t)
        /\ \A i \in 1..Len(s) + Len(t) :
             (s \o t)[i] = IF i <= Len(s) THEN s[i] ELSE t[i - Len(s)]
    BY ConcatProperties
  <1>3. ASSUME NEW i \in 1..Len(s \o t)  PROVE (s \o t)[i] = ReplyByte(from, R + i)
    <2>1. CASE i <= Len(s)
      BY <1>1, <1>2, <2>1 DEF Carries
    <2>2. CASE i > Len(s)
      <3>1. i - Len(s) \in 1..Len(t)
        BY <1>1, <1>2, <2>2
      <3>2. t[i - Len(s)] = ReplyByte(from, R + Len(s) + (i - Len(s)))
        BY <3>1 DEF Carries
      <3>3. R + Len(s) + (i - Len(s)) = R + i
        BY <1>1
      <3> QED  BY <1>1, <1>2, <2>2, <3>2, <3>3
    <2> QED  BY <1>1, <2>1, <2>2
  <1> QED  BY <1>2, <1>3 DEF Carries

\* The first k bytes of a part, and what is left of it.
LEMMA CarriesSplit ==
    ASSUME NEW s \in Seq(Bytes), NEW R \in Nat, NEW from \in Nat, NEW k \in 0..Len(s),
           Carries(s, R, from)
    PROVE  /\ SubSeq(s, 1, k) \in Seq(Bytes) /\ Len(SubSeq(s, 1, k)) = k
           /\ Carries(SubSeq(s, 1, k), R, from)
           /\ SubSeq(s, k + 1, Len(s)) \in Seq(Bytes)
           /\ Len(SubSeq(s, k + 1, Len(s))) = Len(s) - k
           /\ Carries(SubSeq(s, k + 1, Len(s)), R + k, from)
  <1>0. Len(s) \in Nat /\ k \in Nat /\ k <= Len(s) /\ \A i \in 1..Len(s) : s[i] \in Bytes
    BY LenProperties, ElementOfSeq
  <1>1. /\ SubSeq(s, 1, k) \in Seq(Bytes)
        /\ Len(SubSeq(s, 1, k)) = IF 1 <= k THEN k - 1 + 1 ELSE 0
        /\ \A i \in 1..k - 1 + 1 : SubSeq(s, 1, k)[i] = s[1 + i - 1]
    <2>1. \A i \in 1..k : s[i] \in Bytes
      BY <1>0
    <2> QED  BY <1>0, <2>1, SubSeqProperties
  <1>2. /\ SubSeq(s, k + 1, Len(s)) \in Seq(Bytes)
        /\ Len(SubSeq(s, k + 1, Len(s))) = IF k + 1 <= Len(s) THEN Len(s) - (k + 1) + 1 ELSE 0
        /\ \A i \in 1..Len(s) - (k + 1) + 1 : SubSeq(s, k + 1, Len(s))[i] = s[k + 1 + i - 1]
    <2>1. \A i \in k + 1..Len(s) : s[i] \in Bytes
      BY <1>0
    <2>2. k + 1 \in Int /\ Len(s) \in Int
      BY <1>0
    <2> HIDE <1>0
    <2> QED  BY <2>1, <2>2, SubSeqProperties
  <1>3. Len(SubSeq(s, 1, k)) = k /\ Len(SubSeq(s, k + 1, Len(s))) = Len(s) - k
    BY <1>0, <1>1, <1>2
  <1>4. Carries(SubSeq(s, 1, k), R, from)
    <2> SUFFICES ASSUME NEW i \in 1..k
                 PROVE  SubSeq(s, 1, k)[i] = ReplyByte(from, R + i)
      BY <1>3 DEF Carries
    <2>1. SubSeq(s, 1, k)[i] = s[i]
      BY <1>0, <1>1
    <2> QED  BY <1>0, <2>1 DEF Carries
  <1>5. Carries(SubSeq(s, k + 1, Len(s)), R + k, from)
    <2> SUFFICES ASSUME NEW i \in 1..Len(s) - k
                 PROVE  SubSeq(s, k + 1, Len(s))[i] = ReplyByte(from, R + k + i)
      BY <1>3 DEF Carries
    <2>1. SubSeq(s, k + 1, Len(s))[i] = s[k + i]
      BY <1>0, <1>2
    <2>2. k + i \in 1..Len(s) /\ R + (k + i) = R + k + i
      BY <1>0
    <2>3. s[k + i] = ReplyByte(from, R + (k + i))
      BY <2>2 DEF Carries
    <2> QED  BY <2>1, <2>2, <2>3
  <1> QED  BY <1>1, <1>2, <1>3, <1>4, <1>5

\* The bytes of the file from where the reply is are its next ones.
LEMMA CarriesBody ==
    ASSUME NEW R \in Nat, NEW from \in Nat, NEW n \in Nat, R >= HEADER,
           from + R - HEADER + n <= FileSize
    PROVE  LET b == Body(from + R - HEADER, n) IN
           b \in Seq(Bytes) /\ Len(b) = n /\ Carries(b, R, from)
  <1> DEFINE e(i) == from + R - HEADER + i - 1
             b == [i \in 1..n |-> e(i)]
  <1>1. \A i \in 1..n : e(i) \in Bytes
    BY ConstantsFit DEF Bytes
  <1>2. b \in Seq(Bytes) /\ Len(b) = n
    <2> HIDE DEF e
    <2>1. b \in Seq(Bytes)
      BY <1>1, IsASeq
    <2> QED  BY <2>1, LenProperties
  <1>3. Carries(b, R, from)
    BY <1>2, ConstantsFit DEF Carries, ReplyByte
  <1> QED  BY <1>2, <1>3 DEF Body

\* A head is where a reply starts.
LEMMA CarriesHead ==
    ASSUME NEW from \in Nat
    PROVE  /\ HeadBytes(HEADER) \in Seq(Bytes) /\ Len(HeadBytes(HEADER)) = HEADER
           /\ Carries(HeadBytes(HEADER), 0, from)
  <1> DEFINE e(i) == HeaderByte
             b == [i \in 1..HEADER |-> e(i)]
  <1>1. \A i \in 1..HEADER : e(i) \in Bytes
    BY ConstantsFit DEF Bytes, HeaderByte
  <1>2. b \in Seq(Bytes) /\ Len(b) = HEADER
    <2>1. b \in Seq(Bytes)
      <3> HIDE DEF e
      <3> QED  BY <1>1, ConstantsFit, IsASeq
    <2> QED  BY <2>1, ConstantsFit, LenProperties
  <1>3. Carries(b, 0, from)
    BY <1>2, ConstantsFit DEF Carries, ReplyByte
  <1> QED  BY <1>2, <1>3 DEF HeadBytes

-----------------------------------------------------------------------------
(* The functions of the session.                                           *)

\* size_t does not wrap below SIZE.
LEMMA SizeTBelow ==
    ASSUME NEW n \in 0..SIZE - 1
    PROVE  SizeT(n) = n
  BY ConstantsFit DEF SizeT

\* A size_t is a natural below SIZE.
LEMMA SizeTRange ==
    ASSUME NEW n \in Int
    PROVE  SizeT(n) \in 0..SIZE - 1
  BY ConstantsFit DEF SizeT

\* The parts of a state have their types.
LEMMA StateParts ==
    ASSUME NEW x \in States
    PROVE  /\ x.conn \in Conns /\ x.session \in Sessions
           /\ x.failed \subseteq {59, 127, 139, 143, 184}
           /\ x = [conn |-> x.conn, session |-> x.session, failed |-> x.failed]
  BY DEF States

\* Noting a failed assert changes nothing else.
LEMMA AssertIsNote ==
    ASSUME NEW x \in States, NEW line \in {59, 127, 139, 143, 184}, NEW ok \in BOOLEAN
    PROVE  LET y == Assert(x, line, ok) IN
           /\ y \in States /\ y.conn = x.conn /\ y.session = x.session
           /\ ok => y.failed = x.failed
  BY DEF Assert, States

\* A state with another connection and another session only.
With(x, c, s) == [x EXCEPT !.conn = c, !.session = s]

\* Putting a connection and a session into a state.
LEMMA StateWith ==
    ASSUME NEW x \in States, NEW c \in Conns, NEW s \in Sessions
    PROVE  /\ With(x, c, s) \in States
           /\ With(x, c, s).conn = c /\ With(x, c, s).session = s
           /\ With(x, c, s).failed = x.failed
  BY DEF States, With

\* What a range is, as Requests has them.
Ranges == [pos : 0..FileSize - 1, len : Nat]

\* A session that may transfer: it is in a reply, not closing, with bytes
\* still to be told sent.
Active(x, R, r) == Serving(x, R, r) /\ ~x.conn.closing /\ x.session.len # 0

\* Counts of a state are numbers.
LEMMA StateNumbers ==
    ASSUME NEW x \in States
    PROVE  /\ x.conn.send_mbuf \in Seq(Bytes) /\ x.session.buf \in Seq(Bytes)
           /\ Unsent(x) \in Nat /\ Kept(x) \in Nat
           /\ x.session.sending \in Nat /\ x.session.header_sending \in Nat
           /\ x.session.pos \in Nat /\ x.session.len \in Int
  <1>1. x.conn.send_mbuf \in Seq(Bytes) /\ x.session.buf \in Seq(Bytes)
    BY StateParts DEF Conns, Sessions
  <1>2. Unsent(x) \in Nat /\ Kept(x) \in Nat
    BY <1>1, LenProperties DEF Unsent, Kept
  <1>3. /\ x.session.sending \in Nat /\ x.session.header_sending \in Nat
        /\ x.session.pos \in Nat /\ x.session.len \in Int
    BY SMTT(30), StateParts, ConstantsFit DEF Sessions
  <1> QED  BY <1>1, <1>2, <1>3

\* Where the next byte for the buffer is read from is where the reply is.
LEMMA ReadFromContinues ==
    ASSUME NEW x \in States, NEW R \in Nat, NEW r \in Ranges,
           Active(x, R, r), x.conn.header_sent
    PROVE  /\ ReadFrom(x) = r.pos + (R + Unsent(x) + Kept(x)) - HEADER
           /\ R + Unsent(x) + Kept(x) \in Nat
           /\ R + Unsent(x) + Kept(x) >= HEADER
  <1>1. Unsent(x) \in Nat /\ Kept(x) \in Nat /\ x.session.sending \in Nat
    BY StateNumbers
  <1>2. r.pos \in Nat /\ HEADER \in Nat
    BY ConstantsFit DEF Ranges
  <1>3. /\ x.session.sending + x.session.header_sending = Unsent(x)
        /\ x.session.header_sending = HeadLeft(R) /\ x.session.pos = r.pos + BodyIn(R)
    BY DEF Active, Serving, Counts
  <1>4. ReadFrom(x) = x.session.pos + Kept(x) + Unsent(x) - x.session.header_sending
    BY DEF ReadFrom, Kept, Unsent
  <1> QED  BY <1>1, <1>2, <1>3, <1>4 DEF HeadLeft, BodyIn

\* The head is made once, and first.
LEMMA SendHeadServes ==
    ASSUME NEW x \in States, NEW R \in Nat, NEW r \in Ranges, Active(x, R, r), HeadFits
    PROVE  LET y == SendHead(x) IN
           /\ y \in States /\ Active(y, R, r) /\ y.conn.header_sent
           /\ y.failed = x.failed /\ y.session.len = x.session.len /\ y.session.pos = x.session.pos
           /\ y.session.sending = x.session.sending /\ y.session.buf = x.session.buf
           /\ y.conn.open = x.conn.open
           /\ y.conn.send_mbuf = IF x.conn.header_sent THEN x.conn.send_mbuf ELSE HeadBytes(HEADER)
  <1>1. CASE x.conn.header_sent
    BY <1>1 DEF SendHead
  <1>2. CASE ~x.conn.header_sent
    <2> DEFINE mbuf == x.conn.send_mbuf \o HeadBytes(HEADER)
               c == [x.conn EXCEPT !.header_sent = TRUE, !.send_mbuf = mbuf]
               s == [x.session EXCEPT !.header_sending = @ + Len(mbuf)]
               y == With(x, c, s)
    <2>0. Fresh(x, R, r) /\ x.conn \in Conns /\ x.session \in Sessions
      BY <1>2, StateParts DEF Active, Serving
    <2>1. /\ HeadBytes(HEADER) \in Seq(Bytes) /\ Len(HeadBytes(HEADER)) = HEADER
          /\ Carries(HeadBytes(HEADER), 0, r.pos)
      BY CarriesHead, ConstantsFit DEF Ranges
    <2>2. mbuf = HeadBytes(HEADER)
      BY <2>0, <2>1, ConcatEmptySeq DEF Fresh
    <2>3. SendHead(x) = y
      BY <1>2 DEF SendHead, States, Conns, Sessions, With
    <2>4. c \in Conns
      <3> HIDE DEF mbuf
      <3> QED  BY <2>0, <2>1, <2>2 DEF Conns
    <2>5. s \in Sessions
      <3>1. x.session.header_sending + Len(mbuf) \in Nat
        BY SMTT(30), <2>0, <2>1, <2>2, ConstantsFit DEF Sessions
      <3> HIDE DEF mbuf
      <3> QED  BY <2>0, <3>1 DEF Sessions
    <2>6. y \in States /\ y.conn = c /\ y.session = s /\ y.failed = x.failed
      <3> HIDE DEF c, s
      <3> QED  BY <2>4, <2>5, StateWith
    <2>7. /\ c.open = x.conn.open /\ c.header_sent /\ c.closing = x.conn.closing
          /\ c.send_mbuf = HeadBytes(HEADER)
      <3> HIDE DEF mbuf
      <3> QED  BY <2>0, <2>2 DEF Conns
    <2>8. /\ s.pos = x.session.pos /\ s.len = x.session.len /\ s.sending = x.session.sending
          /\ s.buf = x.session.buf /\ s.req_pos = x.session.req_pos
          /\ s.req_len = x.session.req_len
          /\ s.header_sending = x.session.header_sending + HEADER
      <3> HIDE DEF mbuf
      <3> QED  BY <2>0, <2>1, <2>2 DEF Sessions
    <2> HIDE DEF mbuf, c, s, y
    <2>u. Unsent(y) = HEADER /\ Kept(y) = Kept(x)
      BY <2>1, <2>6, <2>7, <2>8 DEF Unsent, Kept
    <2>9. Counts(y, R, r)
      BY <2>0, <2>6, <2>8, <2>u, ConstantsFit DEF Counts, Fresh, HeadLeft, BodyIn, Ranges
    <2>10. HEADER <= LIMIT + LIMIT \div 2
      BY ConstantsFit DEF HeadFits
    <2>11. Len(<<>>) = 0 /\ Carries(s.buf, R + Unsent(y), r.pos)
      BY <2>0, <2>8 DEF Fresh, Carries
    <2>12. Active(y, R, r)
      BY <2>0, <2>1, <2>6, <2>7, <2>8, <2>9, <2>10, <2>11, <2>u DEF Active, Serving, Fresh
    <2> QED  BY <1>2, <2>3, <2>6, <2>7, <2>8, <2>12
  <1> QED  BY <1>1, <1>2

\* What the cache gives continues what the connection and the buffer hold.
LEMMA ReadBodyServes ==
    ASSUME NEW x \in States, NEW R \in Nat, NEW r \in Ranges,
           Active(x, R, r), x.conn.header_sent, NEW y \in ReadBody(x)
    PROVE  /\ y \in States /\ Active(y, R, r)
           /\ y.conn = x.conn
           /\ y.session.sending = x.session.sending /\ y.session.pos = x.session.pos
           /\ y.session.len = x.session.len /\ y.session.header_sending = x.session.header_sending
           /\ \E n \in 0..Wanted(x) : Kept(y) = Kept(x) + n
           /\ (x.session.req_len = 0 \/ ReadFrom(x) + Wanted(x) <= x.session.req_pos + x.session.req_len)
                => y.failed = x.failed
  <1> DEFINE ok == \/ x.session.req_len = 0
                   \/ ReadFrom(x) + Wanted(x) <= x.session.req_pos + x.session.req_len
             a == Assert(x, 127, ok)
  <1>1. a \in States /\ a.conn = x.conn /\ a.session = x.session /\ (ok => a.failed = x.failed)
    <2>1. ok \in BOOLEAN
      OBVIOUS
    <2> HIDE DEF ok
    <2> QED  BY <2>1, AssertIsNote
  <1>2. PICK n \in 0..Wanted(x) : y = [a EXCEPT !.session.buf = @ \o Body(ReadFrom(x), n)]
    BY DEF ReadBody
  <1> HIDE DEF ok, a
  <1>3. x.conn \in Conns /\ x.session \in Sessions /\ x.conn.send_mbuf \in Seq(Bytes)
        /\ x.session.buf \in Seq(Bytes)
    BY StateParts DEF Conns, Sessions
  <1>4. Unsent(x) \in Nat /\ Kept(x) \in Nat /\ r.pos \in Nat
        /\ x.session.sending \in Nat /\ x.session.len \in Int
    BY StateNumbers, ConstantsFit DEF Ranges
  <1>5. /\ n \in Nat /\ ReadFrom(x) \in Int
        /\ n <= LIMIT - Kept(x) /\ n <= FileSize - ReadFrom(x)
    <2>1. ReadFrom(x) \in Int
      <3>1. ReadFrom(x) = r.pos + (R + Unsent(x) + Kept(x)) - HEADER
        BY ReadFromContinues
      <3> QED  BY <1>4, <3>1, ConstantsFit
    <2>2. SizeT(x.session.len - x.session.sending) \in Int
      <3>1. x.session.len - x.session.sending \in Int
        BY <1>4
      <3> QED  BY <3>1, SizeTRange, ConstantsFit
    <2>3. Wanted(x) \in Int /\ Wanted(x) <= LIMIT - Kept(x)
          /\ Wanted(x) <= FileSize - ReadFrom(x)
      <3>1. LIMIT - Kept(x) \in Int /\ FileSize - ReadFrom(x) \in Int
        BY <1>4, <2>1, ConstantsFit
      <3>2. Wanted(x) = Lesser(Lesser(LIMIT - Kept(x), SizeT(x.session.len - x.session.sending)),
                               FileSize - ReadFrom(x))
        BY DEF Wanted, Kept
      <3> QED  BY <2>2, <3>1, <3>2, LesserOfThree
    <2> QED  BY <1>4, <2>1, <2>3, ConstantsFit
  <1> DEFINE b == Body(ReadFrom(x), n)
             at == R + Unsent(x) + Kept(x)
             s == [x.session EXCEPT !.buf = @ \o b]
  <1>6. b \in Seq(Bytes) /\ Len(b) = n /\ Carries(b, at, r.pos)
    <2>1. ReadFrom(x) = r.pos + at - HEADER /\ at \in Nat /\ at >= HEADER
      BY ReadFromContinues
    <2> HIDE DEF at
    <2>2. r.pos + at - HEADER + n <= FileSize
      BY <1>4, <1>5, <2>1, ConstantsFit
    <2> QED  BY <1>4, <1>5, <2>1, <2>2, CarriesBody
  <1>7. /\ x.session.buf \o b \in Seq(Bytes) /\ Len(x.session.buf \o b) = Kept(x) + n
        /\ Carries(x.session.buf \o b, R + Unsent(x), r.pos)
    <2>1. Carries(x.session.buf, R + Unsent(x), r.pos)
      BY DEF Active, Serving
    <2>2. R + Unsent(x) \in Nat
      BY <1>4
    <2>3. Carries(b, R + Unsent(x) + Len(x.session.buf), r.pos)
      BY <1>6 DEF Kept
    <2> HIDE DEF b
    <2> QED  BY <1>3, <1>4, <1>6, <2>1, <2>2, <2>3, CarriesConcat DEF Kept
  <1>8. /\ s \in Sessions /\ s.buf = x.session.buf \o b /\ s.pos = x.session.pos
        /\ s.len = x.session.len /\ s.sending = x.session.sending
        /\ s.header_sending = x.session.header_sending
        /\ s.req_pos = x.session.req_pos /\ s.req_len = x.session.req_len
    <2> DEFINE t == x.session.buf \o b
    <2> HIDE DEF b, t
    <2>1. t \in Seq(Bytes) /\ s = [x.session EXCEPT !.buf = t]
      BY <1>7 DEF t
    <2> HIDE DEF s
    <2>2. /\ s \in Sessions /\ s.buf = t /\ s.pos = x.session.pos
          /\ s.len = x.session.len /\ s.sending = x.session.sending
          /\ s.header_sending = x.session.header_sending
          /\ s.req_pos = x.session.req_pos /\ s.req_len = x.session.req_len
      BY <1>3, <2>1 DEF Sessions
    <2> QED  BY <2>2 DEF t
  <1>9. y = With(a, x.conn, s)
    BY ZenonT(60), <1>1, <1>2 DEF States, With
  <1>10. y \in States /\ y.conn = x.conn /\ y.session = s /\ y.failed = a.failed
    <2> HIDE DEF s
    <2> QED  BY <1>1, <1>3, <1>8, <1>9, StateWith
  <1>11. Len(s.buf) <= LIMIT
    <2> HIDE DEF s, b
    <2> QED  BY SMTT(30), <1>4, <1>5, <1>7, <1>8, ConstantsFit
  <1>u. Unsent(y) = Unsent(x) /\ Kept(y) = Kept(x) + n /\ Kept(y) = Len(s.buf)
    <2> HIDE DEF s, b
    <2> QED  BY <1>7, <1>8, <1>10 DEF Unsent, Kept
  <1>12. Active(y, R, r)
    <2> HIDE DEF s, b
    <2> QED  BY <1>7, <1>8, <1>10, <1>11, <1>u DEF Active, Serving, Counts, Fresh
  <1>13. /\ y.session.sending = x.session.sending /\ y.session.pos = x.session.pos
         /\ y.session.len = x.session.len /\ y.session.header_sending = x.session.header_sending
         /\ Kept(y) = Kept(x) + n
    <2> HIDE DEF s
    <2> QED  BY <1>8, <1>10, <1>u
  <1> QED  BY <1>1, <1>10, <1>12, <1>13 DEF ok

\* A head never takes more than the buffer holds when both are too much.
LEMMA PortionBounds ==
    ASSUME NEW x \in States, NEW R \in Nat, NEW r \in Ranges,
           Active(x, R, r), x.conn.header_sent, HeadFits
    PROVE  /\ Portion(x) \in 0..Kept(x)
           /\ Portion(x) + x.session.header_sending <= LIMIT
           /\ Kept(x) + x.session.header_sending > LIMIT => Kept(x) >= x.session.header_sending
  <1>1. Kept(x) \in Nat /\ x.session.header_sending \in Nat
    BY StateNumbers
  <1>2. x.session.header_sending = HeadLeft(R) /\ Kept(x) <= LIMIT
    BY DEF Active, Serving, Counts
  <1>3. x.session.header_sending <= HEADER
    BY <1>2, ConstantsFit DEF HeadLeft
  <1>4. Portion(x) = IF Kept(x) + x.session.header_sending <= LIMIT THEN Kept(x)
                     ELSE IF Kept(x) >= x.session.header_sending
                          THEN Kept(x) - x.session.header_sending
                     ELSE 0
    <2>1. Kept(x) + x.session.header_sending \in Int /\ Len(x.session.buf) = Kept(x)
      BY <1>1 DEF Kept
    <2> QED  BY <2>1, ConstantsFit DEF Portion, TooMuch
  <1> QED  BY <1>1, <1>2, <1>3, <1>4, ConstantsFit DEF HeadFits

\* What a transfer adds fits in size_t and in the bound of the connection.
LEMMA SendingFits ==
    ASSUME NEW s \in Nat, NEW h \in Nat, NEW n \in Nat, s <= LIMIT \div 2, n + h <= LIMIT
    PROVE  s + n \in 0..SIZE - 1 /\ s + h + n <= LIMIT + LIMIT \div 2
  BY ConstantsFit

\* The first bytes of the buffer go to the connection, and stay in order.
LEMMA SendSomeServes ==
    ASSUME NEW x \in States, NEW R \in Nat, NEW r \in Ranges,
           Active(x, R, r), x.conn.header_sent, HeadFits, x.session.sending <= LIMIT \div 2,
           x.session.buf # <<>>
    PROVE  LET y == SendBody(x) IN
           /\ y \in States /\ Active(y, R, r) /\ y.conn.header_sent
           /\ Unsent(y) = Unsent(x) + Portion(x) /\ Kept(y) = Kept(x) - Portion(x)
           /\ y.session.sending = x.session.sending + Portion(x)
           /\ y.session.pos = x.session.pos /\ y.session.len = x.session.len
           /\ (\/ x.session.req_len = 0
               \/ x.session.pos + x.session.sending + Portion(x) <= x.session.req_pos + x.session.req_len)
                => y.failed = x.failed
  <1> DEFINE len == Portion(x)
             ok1 == TooMuch(x) => Len(x.session.buf) >= x.session.header_sending
             ok2 == \/ x.session.req_len = 0
                    \/ x.session.pos + x.session.sending + len <= x.session.req_pos + x.session.req_len
             a == Assert(x, 139, ok1)
             z == Assert(a, 143, ok2)
             mbuf == x.conn.send_mbuf \o SubSeq(x.session.buf, 1, len)
             buf == SubSeq(x.session.buf, len + 1, Len(x.session.buf))
             c == [x.conn EXCEPT !.send_mbuf = mbuf]
             s == [x.session EXCEPT !.sending = SizeT(@ + len), !.buf = buf]
             y == With(z, c, s)
  <1>0. /\ x.conn \in Conns /\ x.session \in Sessions
        /\ x.conn.send_mbuf \in Seq(Bytes) /\ x.session.buf \in Seq(Bytes)
    BY StateParts, StateNumbers
  <1>n. /\ Unsent(x) \in Nat /\ Kept(x) \in Nat /\ x.session.sending \in Nat
        /\ x.session.header_sending \in Nat /\ x.session.pos \in Nat /\ r.pos \in Nat
    BY StateNumbers, ConstantsFit DEF Ranges
  <1>1. len \in 0..Kept(x) /\ len + x.session.header_sending <= LIMIT
    BY PortionBounds
  <1>ok. ok1
    BY PortionBounds DEF Kept, TooMuch
  <1>2. z \in States /\ z.conn = x.conn /\ z.session = x.session /\ (ok2 => z.failed = x.failed)
    <2>1. ok1 \in BOOLEAN /\ ok2 \in BOOLEAN
      OBVIOUS
    <2> HIDE DEF ok1, ok2
    <2>2. a \in States /\ a.conn = x.conn /\ a.session = x.session
          /\ (ok1 => a.failed = x.failed)
      BY <2>1, AssertIsNote
    <2>3. a.failed = x.failed
      BY <1>ok, <2>2
    <2> HIDE DEF a
    <2> QED  BY <2>1, <2>2, <2>3, AssertIsNote
  <1>4. SendBody(x) = y
    <2>1. SendBody(x) = [z EXCEPT !.conn.send_mbuf = @ \o SubSeq(x.session.buf, 1, len),
                                  !.session.sending = SizeT(@ + len),
                                  !.session.buf = SubSeq(@, len + 1, Len(@))]
      BY DEF SendBody
    <2> HIDE DEF z, len
    <2> QED  BY ZenonT(60), <1>0, <1>2, <2>1 DEF With, States, Conns, Sessions
  <1>5. /\ buf \in Seq(Bytes) /\ Len(buf) = Kept(x) - len
        /\ Carries(buf, R + Unsent(x) + len, r.pos)
        /\ mbuf \in Seq(Bytes) /\ Len(mbuf) = Unsent(x) + len
        /\ Carries(mbuf, R, r.pos)
    <2> DEFINE all == x.session.buf
               first == SubSeq(all, 1, len)
    <2>1. Carries(x.conn.send_mbuf, R, r.pos) /\ Carries(x.session.buf, R + Unsent(x), r.pos)
      BY DEF Active, Serving
    <2>2. R + Unsent(x) \in Nat /\ len \in 0..Len(x.session.buf)
      BY <1>n, <1>1 DEF Kept
    <2>3. /\ first \in Seq(Bytes) /\ Len(first) = len /\ Carries(first, R + Unsent(x), r.pos)
          /\ buf \in Seq(Bytes) /\ Len(buf) = Len(x.session.buf) - len
          /\ Carries(buf, R + Unsent(x) + len, r.pos)
      <3> DEFINE at == R + Unsent(x)
      <3>1. at \in Nat /\ Carries(x.session.buf, at, r.pos)
        BY <2>1, <2>2
      <3>3. all \in Seq(Bytes) /\ Carries(all, at, r.pos) /\ len \in 0..Len(all)
        BY <1>0, <2>2, <3>1
      <3> HIDE DEF len, at, all
      <3>4. /\ SubSeq(all, 1, len) \in Seq(Bytes) /\ Len(SubSeq(all, 1, len)) = len
            /\ Carries(SubSeq(all, 1, len), at, r.pos)
            /\ SubSeq(all, len + 1, Len(all)) \in Seq(Bytes)
            /\ Len(SubSeq(all, len + 1, Len(all))) = Len(all) - len
            /\ Carries(SubSeq(all, len + 1, Len(all)), at + len, r.pos)
        BY <1>n, <3>1, <3>3, CarriesSplit
      <3>2. /\ first \in Seq(Bytes) /\ Len(first) = len /\ Carries(first, at, r.pos)
            /\ buf \in Seq(Bytes) /\ Len(buf) = Len(x.session.buf) - len
            /\ Carries(buf, at + len, r.pos)
        BY <3>4 DEF all
      <3> HIDE DEF first, buf
      <3> QED  BY <3>2 DEF at
    <2>4. /\ mbuf \in Seq(Bytes) /\ Len(mbuf) = Len(x.conn.send_mbuf) + Len(first)
          /\ Carries(mbuf, R, r.pos)
      <3>1. Carries(first, R + Len(x.conn.send_mbuf), r.pos)
        BY <2>3 DEF Unsent
      <3> DEFINE held == x.conn.send_mbuf
      <3>2. mbuf = held \o first /\ held \in Seq(Bytes) /\ Carries(held, R, r.pos)
        BY <1>0, <2>1
      <3>3. Carries(first, R + Len(held), r.pos)
        BY <3>1
      <3> HIDE DEF first, mbuf, held
      <3>4. /\ held \o first \in Seq(Bytes) /\ Len(held \o first) = Len(held) + Len(first)
            /\ Carries(held \o first, R, r.pos)
        BY <1>n, <2>3, <3>2, <3>3, CarriesConcat
      <3> QED  BY <3>2, <3>4 DEF held
    <2> HIDE DEF len, buf, mbuf, first
    <2> QED  BY <2>3, <2>4 DEF Unsent, Kept
  <1>6. SizeT(x.session.sending + len) = x.session.sending + len
        /\ x.session.sending + len \in 0..SIZE - 1
    <2>1. x.session.sending + len \in 0..SIZE - 1
      <3> HIDE DEF len
      <3> QED  BY SMTT(30), <1>n, <1>1, SendingFits
    <2> QED  BY <2>1, SizeTBelow
  <1> HIDE DEF len, mbuf, buf, z
  <1>7. /\ c \in Conns /\ c.send_mbuf = mbuf /\ c.open = x.conn.open
        /\ c.header_sent = x.conn.header_sent /\ c.closing = x.conn.closing
    BY <1>0, <1>5 DEF Conns
  <1>8. /\ s \in Sessions /\ s.buf = buf /\ s.sending = x.session.sending + len
        /\ s.pos = x.session.pos /\ s.len = x.session.len
        /\ s.header_sending = x.session.header_sending
        /\ s.req_pos = x.session.req_pos /\ s.req_len = x.session.req_len
    <2> DEFINE n == x.session.sending + len
    <2>1. n \in 0..SIZE - 1 /\ s = [x.session EXCEPT !.sending = n, !.buf = buf]
      BY <1>6
    <2> HIDE DEF n, s
    <2>2. /\ s \in Sessions /\ s.buf = buf /\ s.sending = n
          /\ s.pos = x.session.pos /\ s.len = x.session.len
          /\ s.header_sending = x.session.header_sending
          /\ s.req_pos = x.session.req_pos /\ s.req_len = x.session.req_len
      BY <1>0, <1>5, <2>1 DEF Sessions
    <2> QED  BY <2>2 DEF n
  <1> HIDE DEF c, s
  <1>9. y \in States /\ y.conn = c /\ y.session = s /\ y.failed = z.failed
    BY <1>2, <1>7, <1>8, StateWith
  <1> HIDE DEF y
  <1>10. Unsent(y) = Unsent(x) + len /\ Kept(y) = Kept(x) - len
    BY <1>5, <1>7, <1>8, <1>9 DEF Unsent, Kept
  <1>11. /\ x.session.header_sending = HeadLeft(R) /\ Kept(x) <= LIMIT
         /\ x.session.sending + x.session.header_sending = Unsent(x)
         /\ x.session.pos = r.pos + BodyIn(R)
    BY DEF Active, Serving, Counts
  <1>12. Unsent(y) <= LIMIT + LIMIT \div 2 /\ Kept(y) <= LIMIT
         /\ y.session.sending + y.session.header_sending = Unsent(y)
         /\ R + Unsent(y) = R + Unsent(x) + len
    <2>1. x.session.sending + x.session.header_sending + len <= LIMIT + LIMIT \div 2
      BY <1>n, <1>1, SendingFits
    <2>2. Unsent(y) = x.session.sending + x.session.header_sending + len
      BY <1>n, <1>1, <1>10, <1>11
    <2>3. Kept(y) <= LIMIT
      BY <1>n, <1>1, <1>10, <1>11, ConstantsFit
    <2>4. y.session.sending = x.session.sending + len
          /\ y.session.header_sending = x.session.header_sending
      BY <1>8, <1>9
    <2>5. len \in Nat /\ R + (Unsent(x) + len) = R + Unsent(x) + len
      BY <1>n, <1>1
    <2>6. x.session.sending + len + x.session.header_sending
            = x.session.sending + x.session.header_sending + len
      BY SMTT(30), <1>n, <2>5
    <2>7. y.session.sending + y.session.header_sending = Unsent(y)
      BY <2>2, <2>4, <2>6
    <2>8. R + Unsent(y) = R + Unsent(x) + len
      BY <1>10, <2>5
    <2> QED  BY <2>1, <2>2, <2>3, <2>7, <2>8
  <1>13. Active(y, R, r)
    BY <1>5, <1>7, <1>8, <1>9, <1>10, <1>11, <1>12 DEF Active, Serving, Counts, Fresh
  <1> QED
    BY <1>2, <1>4, <1>7, <1>8, <1>9, <1>10, <1>13 DEF len

\* mg_send() moves a portion of the buffer into the connection.
LEMMA SendBodyServes ==
    ASSUME NEW x \in States, NEW R \in Nat, NEW r \in Ranges,
           Active(x, R, r), x.conn.header_sent, HeadFits, x.session.sending <= LIMIT \div 2
    PROVE  LET y == SendBody(x) IN
           /\ y \in States /\ Active(y, R, r) /\ y.conn.header_sent
           /\ Unsent(y) = Unsent(x) + Portion(x) /\ Kept(y) = Kept(x) - Portion(x)
           /\ y.session.sending = x.session.sending + Portion(x)
           /\ y.session.pos = x.session.pos /\ y.session.len = x.session.len
           /\ (\/ x.session.req_len = 0
               \/ x.session.pos + x.session.sending + Portion(x) <= x.session.req_pos + x.session.req_len)
                => y.failed = x.failed
  <1>1. CASE x.session.buf # <<>>
    BY <1>1, SendSomeServes
  <1>2. CASE x.session.buf = <<>>
    <2>1. SendBody(x) = x /\ Kept(x) = 0
      BY <1>2 DEF SendBody, Kept
    <2>2. Portion(x) = 0
      BY <2>1, PortionBounds
    <2>3. Unsent(x) \in Nat /\ x.session.sending \in Nat
      BY StateNumbers
    <2> QED  BY <2>1, <2>2, <2>3
  <1> QED  BY <1>1, <1>2

\* Setting the closing flag, or adding an error page to an empty buffer.
LEMMA SetClosing ==
    ASSUME NEW x \in States
    PROVE  LET y == [x EXCEPT !.conn.closing = TRUE] IN
           /\ y \in States /\ y.session = x.session /\ y.failed = x.failed
           /\ y.conn.open = x.conn.open /\ y.conn.header_sent = x.conn.header_sent
           /\ y.conn.closing /\ y.conn.send_mbuf = x.conn.send_mbuf
  <1> DEFINE c == [x.conn EXCEPT !.closing = TRUE]
  <1>1. x.conn \in Conns /\ x.session \in Sessions
    BY StateParts
  <1>2. /\ c \in Conns /\ c.open = x.conn.open /\ c.header_sent = x.conn.header_sent
        /\ c.closing /\ c.send_mbuf = x.conn.send_mbuf
    BY <1>1 DEF Conns
  <1>3. [x EXCEPT !.conn.closing = TRUE] = With(x, c, x.session)
    BY DEF With, States
  <1> HIDE DEF c
  <1>4. /\ With(x, c, x.session) \in States /\ With(x, c, x.session).conn = c
        /\ With(x, c, x.session).session = x.session /\ With(x, c, x.session).failed = x.failed
    BY <1>1, <1>2, StateWith
  <1> QED  BY <1>2, <1>3, <1>4

\* A transfer goes on with the reply, and starts none before the size of the
\* file is known.
LEMMA TransferServes ==
    ASSUME NEW x \in States, NEW R \in Nat, NEW r \in Ranges, NEW tsk,
           Serving(x, R, r), ~x.conn.closing, HeadFits, NEW z \in TryTransfer(x, tsk)
    PROVE  /\ z \in States /\ Serving(z, R, r)
           /\ tsk.filesize = 0 => z.conn.header_sent = x.conn.header_sent
  <1> DEFINE ok == x.session.sending + x.session.header_sending = Len(x.conn.send_mbuf)
             y == Assert(x, 59, ok)
             v == SendHead(y)
  <1>1. y \in States /\ y.conn = x.conn /\ y.session = x.session
    <2>1. ok \in BOOLEAN
      OBVIOUS
    <2> HIDE DEF ok
    <2> QED  BY <2>1, AssertIsNote
  <1>2. Serving(y, R, r)
    BY ZenonT(60), <1>1 DEF Serving, Fresh, Counts, Unsent, Kept
  <1>3. CASE x.session.sending > LIMIT \div 2 \/ x.session.len = 0 \/ tsk.filesize = 0
    <2>1. z = y
      BY <1>3 DEF TryTransfer
    <2> QED  BY <1>1, <1>2, <2>1
  <1>4. CASE ~(x.session.sending > LIMIT \div 2 \/ x.session.len = 0 \/ tsk.filesize = 0)
    <2>1. Active(y, R, r) /\ y.session.sending <= LIMIT \div 2 /\ tsk.filesize # 0
      <3>1. x.session.sending \in Nat
        BY StateNumbers
      <3> QED  BY <1>1, <1>2, <1>4, <3>1, ConstantsFit DEF Active
    <2>2. /\ v \in States /\ Active(v, R, r) /\ v.conn.header_sent
          /\ v.session.sending <= LIMIT \div 2
      <3> HIDE DEF y
      <3> QED  BY <1>1, <2>1, SendHeadServes
    <2>3. CASE x.session.method = "HEAD"
      <3>1. z = [v EXCEPT !.conn.closing = TRUE]
        BY <1>4, <2>3 DEF TryTransfer
      <3> HIDE DEF v
      <3>2. /\ z \in States /\ z.session = v.session /\ z.conn.open = v.conn.open
            /\ z.conn.header_sent = v.conn.header_sent /\ z.conn.closing
            /\ z.conn.send_mbuf = v.conn.send_mbuf
        BY <2>2, <3>1, SetClosing
      <3>3. Serving(z, R, r)
        BY <2>2, <3>2 DEF Active, Serving, Unsent, Kept
      <3> QED  BY <2>1, <3>2, <3>3
    <2>4. CASE x.session.method # "HEAD"
      <3>1. PICK w \in ReadBody(v) : z = SendBody(w)
        BY <1>4, <2>4 DEF TryTransfer
      <3> HIDE DEF v
      <3>2. /\ w \in States /\ Active(w, R, r) /\ w.conn = v.conn
            /\ w.session.sending = v.session.sending
        BY <2>2, <3>1, ReadBodyServes
      <3>4. z \in States /\ Active(z, R, r)
        BY <2>2, <3>1, <3>2, SendBodyServes
      <3> QED  BY <2>1, <3>4 DEF Active
    <2> QED  BY <2>3, <2>4
  <1> QED  BY <1>3, <1>4

\* An error closes a session with nothing on its way: with an error page
\* before its head, and without one after it.
LEMMA CloseIfNeedServes ==
    ASSUME NEW x \in States, NEW R \in Nat, NEW r \in Ranges, NEW tsk,
           Serving(x, R, r), NEW y, y = CloseIfNeed(x, tsk)
    PROVE  /\ y \in States
           /\ y.conn.header_sent = x.conn.header_sent
           /\ Serving(y, R, r) \/ (R = 0 /\ Refused(y, R))
  <1>1. CASE tsk.code = 0 \/ x.session.sending > 0 \/ x.session.header_sending > 0
    BY <1>1 DEF CloseIfNeed
  <1> DEFINE quiet == ~(tsk.code = 0 \/ x.session.sending > 0 \/ x.session.header_sending > 0)
  <1>2. CASE quiet /\ (x.conn.header_sent \/ x.conn.closing)
    <2>1. y = [x EXCEPT !.conn.closing = TRUE]
      BY <1>2 DEF CloseIfNeed
    <2>2. /\ y \in States /\ y.session = x.session /\ y.conn.open = x.conn.open
          /\ y.conn.header_sent = x.conn.header_sent /\ y.conn.closing
          /\ y.conn.send_mbuf = x.conn.send_mbuf
      BY <2>1, SetClosing
    <2>3. y.conn.header_sent
      BY <1>2, <2>2 DEF Serving
    <2>4. Serving(y, R, r)
      BY <2>2, <2>3 DEF Serving, Unsent, Kept
    <2> QED  BY <2>2, <2>4
  <1>3. CASE quiet /\ ~(x.conn.header_sent \/ x.conn.closing)
    <2> DEFINE m == Append(x.conn.send_mbuf, ErrorByte)
               c == [x.conn EXCEPT !.closing = TRUE, !.send_mbuf = m]
    <2>1. y = With(x, c, x.session)
      BY <1>3 DEF CloseIfNeed, With, States, Conns
    <2>2. x.conn \in Conns /\ x.session \in Sessions /\ Fresh(x, R, r) /\ x.conn.open
      BY <1>3, StateParts DEF Serving
    <2>3. m = <<ErrorByte>> /\ ErrorByte \in Bytes /\ m \in Seq(Bytes) /\ Len(m) = 1
      BY <2>2, ConstantsFit DEF Fresh, Bytes, ErrorByte
    <2> HIDE DEF m
    <2>4. /\ c \in Conns /\ c.open = x.conn.open /\ c.header_sent = x.conn.header_sent
          /\ c.closing /\ c.send_mbuf = m
      BY <2>2, <2>3 DEF Conns
    <2> HIDE DEF c
    <2>5. y \in States /\ y.conn = c /\ y.session = x.session
      BY <2>1, <2>2, <2>4, StateWith
    <2>6. R = 0 /\ y.session.buf = <<>> /\ R + Unsent(y) = 1
      BY <2>2, <2>3, <2>4, <2>5 DEF Fresh, Unsent
    <2>7. y.conn.open /\ y.conn.closing /\ ~y.conn.header_sent
      BY <1>3, <2>2, <2>4, <2>5
    <2>8. \A i \in 1..Unsent(y) : y.conn.send_mbuf[i] = ErrorByte
      <3>1. y.conn.send_mbuf = <<ErrorByte>> /\ Unsent(y) = 1
        BY <2>3, <2>4, <2>5 DEF Unsent
      <3> QED  BY <3>1
    <2> QED  BY <2>4, <2>5, <2>6, <2>7, <2>8 DEF Refused
  <1> QED  BY <1>1, <1>2, <1>3

\* The connection after the socket has taken k bytes.
Drained(x, k) == [x EXCEPT !.conn.send_mbuf = SubSeq(@, k + 1, Len(@))]

\* What is left in the connection continues what the client has got.
LEMMA DrainedCarries ==
    ASSUME NEW x \in States, NEW R \in Nat, NEW from \in Nat, NEW k \in 0..Unsent(x),
           Carries(x.conn.send_mbuf, R, from)
    PROVE  LET w == Drained(x, k) IN
           /\ w \in States /\ w.session = x.session /\ w.failed = x.failed
           /\ w.conn.open = x.conn.open /\ w.conn.header_sent = x.conn.header_sent
           /\ w.conn.closing = x.conn.closing
           /\ Unsent(w) = Unsent(x) - k /\ Kept(w) = Kept(x)
           /\ Carries(w.conn.send_mbuf, R + k, from)
           /\ Carries(SubSeq(x.conn.send_mbuf, 1, k), R, from)
           /\ SubSeq(x.conn.send_mbuf, 1, k) \in Seq(Bytes)
           /\ Len(SubSeq(x.conn.send_mbuf, 1, k)) = k
  <1> DEFINE all == x.conn.send_mbuf
             m == SubSeq(all, k + 1, Len(all))
             c == [x.conn EXCEPT !.send_mbuf = m]
             w == With(x, c, x.session)
  <1>1. x.conn \in Conns /\ x.session \in Sessions /\ all \in Seq(Bytes) /\ k \in 0..Len(all)
        /\ Carries(all, R, from) /\ Unsent(x) = Len(all)
    BY StateParts, StateNumbers DEF Unsent
  <1>2. Drained(x, k) = w
    BY DEF Drained, With, States, Conns
  <1> HIDE DEF all
  <1>3. /\ m \in Seq(Bytes) /\ Len(m) = Len(all) - k /\ Carries(m, R + k, from)
        /\ Carries(SubSeq(all, 1, k), R, from)
        /\ SubSeq(all, 1, k) \in Seq(Bytes) /\ Len(SubSeq(all, 1, k)) = k
    BY <1>1, CarriesSplit
  <1> HIDE DEF m
  <1>4. /\ c \in Conns /\ c.send_mbuf = m /\ c.open = x.conn.open
        /\ c.header_sent = x.conn.header_sent /\ c.closing = x.conn.closing
    BY <1>1, <1>3 DEF Conns
  <1> HIDE DEF c
  <1>5. w \in States /\ w.conn = c /\ w.session = x.session /\ w.failed = x.failed
    BY <1>1, <1>4, StateWith
  <1> HIDE DEF w
  <1>6. Unsent(w) = Unsent(x) - k /\ Kept(w) = Kept(x)
    BY <1>1, <1>3, <1>4, <1>5 DEF Unsent, Kept
  <1> QED  BY <1>2, <1>3, <1>4, <1>5, <1>6 DEF all

\* Body bytes among k sent bytes when h bytes of the head were unsent.
BodyOf(k, h) == IF h > k THEN 0 ELSE k - h

\* What on_send() does to the counters, before it transfers more.
LEMMA CountedEffect ==
    ASSUME NEW w \in States, NEW k \in Nat,
           w.session.len # 0 => BodyOf(k, w.session.header_sending) <= w.session.sending
    PROVE  LET h == w.session.header_sending
               body == BodyOf(k, h)
               y == Counted(w, k)
           IN
           /\ y \in States /\ y.conn = w.conn /\ y.session.buf = w.session.buf
           /\ y.session.req_pos = w.session.req_pos /\ y.session.req_len = w.session.req_len
           /\ w.session.len = 0 => y.session.len = 0 /\ y.failed = w.failed
           /\ w.session.len # 0 =>
                /\ y.session.header_sending = (IF h > k THEN h - k ELSE 0)
                /\ y.session.sending = w.session.sending - body
                /\ y.session.pos = w.session.pos + body
                /\ y.session.len = (IF w.session.len > 0 THEN w.session.len - body ELSE w.session.len)
                /\ (w.session.len > 0 => w.session.len >= body) => y.failed = w.failed
  <1> DEFINE h == w.session.header_sending
             body == BodyOf(k, h)
             left == IF h > k THEN h - k ELSE 0
             s == [w.session EXCEPT !.header_sending = left]
             v == With(w, w.conn, s)
             ok == w.session.len > 0 => w.session.len >= body
             z == Assert(v, 184, ok)
             l == IF w.session.len > 0 THEN w.session.len - body ELSE w.session.len
             p == w.session.pos + body
             n == w.session.sending - body
             t == [w.session EXCEPT !.header_sending = left, !.pos = p, !.len = l, !.sending = n]
  <1>1. /\ w.conn \in Conns /\ w.session \in Sessions
        /\ h \in Nat /\ w.session.sending \in Nat /\ w.session.pos \in Nat /\ w.session.len \in Int
        /\ w.session.sending <= SIZE - 1
    BY StateParts, StateNumbers, ConstantsFit DEF Sessions
  <1>2. body \in Nat /\ left \in Nat /\ l \in Int /\ p \in Nat
    BY <1>1 DEF BodyOf
  <1> HIDE DEF left, body
  <1>3. /\ s \in Sessions /\ s.pos = w.session.pos /\ s.len = w.session.len
        /\ s.buf = w.session.buf /\ s.sending = w.session.sending
        /\ s.req_pos = w.session.req_pos /\ s.req_len = w.session.req_len
        /\ s.header_sending = left
    BY <1>1, <1>2 DEF Sessions
  <1>4. v \in States /\ v.conn = w.conn /\ v.session = s /\ v.failed = w.failed
    <2> HIDE DEF s
    <2> QED  BY <1>1, <1>3, StateWith
  <1>5. z \in States /\ z.conn = w.conn /\ z.session = s /\ (ok => z.failed = w.failed)
    <2>1. ok \in BOOLEAN
      OBVIOUS
    <2> HIDE DEF ok, v, s
    <2>2. z \in States /\ z.conn = v.conn /\ z.session = v.session /\ (ok => z.failed = v.failed)
      <3>1. v \in States /\ 184 \in {59, 127, 139, 143, 184}
        BY <1>4
      <3> QED  BY <2>1, <3>1, AssertIsNote
    <2> HIDE DEF z
    <2> QED  BY <1>4, <2>2
  <1>6. v = [w EXCEPT !.session.header_sending = left]
    BY DEF With, States
  <1>7. ASSUME w.session.len = 0  PROVE Counted(w, k) = v
    <2>1. Counted(w, k) = [w EXCEPT !.session.header_sending = left]
      BY <1>7 DEF Counted, left
    <2> QED  BY <1>6, <2>1
  <1>8. ASSUME w.session.len # 0
        PROVE  /\ Counted(w, k) \in States /\ Counted(w, k).conn = w.conn
               /\ Counted(w, k).session = t /\ Counted(w, k).failed = z.failed
    <2>1. n \in 0..SIZE - 1 /\ SizeT(n) = n
      <3>1. n \in 0..SIZE - 1
        BY <1>1, <1>2, <1>8, ConstantsFit DEF body
      <3> QED  BY <3>1, SizeTBelow
    <2>2. Counted(w, k) = [z EXCEPT !.session.pos = @ + body,
                                    !.session.len = IF @ > 0 THEN @ - body ELSE @,
                                    !.session.sending = SizeT(@ - body)]
      <3>1. Counted(w, k) =
              LET yy == [w EXCEPT !.session.header_sending = left]
                  zz == Assert(yy, 184, ok)
              IN  [zz EXCEPT !.session.pos = @ + body,
                             !.session.len = IF @ > 0 THEN @ - body ELSE @,
                             !.session.sending = SizeT(@ - body)]
        BY <1>8 DEF Counted, left, body, BodyOf
      <3> DEFINE a == Assert([w EXCEPT !.session.header_sending = left], 184, ok)
      <3>2. a = z
        <4> HIDE DEF v, ok, left
        <4> QED  BY <1>6
      <3>3. Counted(w, k) = [a EXCEPT !.session.pos = @ + body,
                                      !.session.len = IF @ > 0 THEN @ - body ELSE @,
                                      !.session.sending = SizeT(@ - body)]
        BY <3>1
      <3> HIDE DEF a, z, ok, v
      <3> QED  BY <3>2, <3>3
    <2>3. Counted(w, k) = With(z, z.conn,
              [z.session EXCEPT !.pos = @ + body,
                                !.len = IF @ > 0 THEN @ - body ELSE @,
                                !.sending = SizeT(@ - body)])
      <3> HIDE DEF z
      <3> QED  BY <1>5, <2>2 DEF With, States
    <2>4. [z.session EXCEPT !.pos = @ + body,
                            !.len = IF @ > 0 THEN @ - body ELSE @,
                            !.sending = SizeT(@ - body)] = t
      <3>1. z.session.pos + body = p /\ SizeT(z.session.sending - body) = n
            /\ (IF z.session.len > 0 THEN z.session.len - body ELSE z.session.len) = l
        <4>1. z.session.pos = w.session.pos /\ z.session.len = w.session.len
              /\ z.session.sending = w.session.sending
          <5> HIDE DEF z, s
          <5> QED  BY <1>3, <1>5
        <4> HIDE DEF z
        <4> QED  BY <2>1, <4>1
      <3>2. [z.session EXCEPT !.pos = p, !.len = l, !.sending = n] = t
        <4> HIDE DEF p, l, n, z
        <4> QED  BY <1>1, <1>5 DEF Sessions
      <3> HIDE DEF p, l, n, z, t
      <3> QED  BY <3>1, <3>2
    <2>5. t \in Sessions
      <3> HIDE DEF p, l, n
      <3> QED  BY <1>1, <1>2, <2>1 DEF Sessions
    <2> HIDE DEF z, t
    <2> QED  BY <1>1, <1>5, <2>3, <2>4, <2>5, StateWith
  <1>9. /\ t.buf = w.session.buf /\ t.req_pos = w.session.req_pos
        /\ t.req_len = w.session.req_len /\ t.header_sending = left
        /\ t.sending = n /\ t.pos = p /\ t.len = l
    <2> HIDE DEF p, l, n
    <2> QED  BY <1>1 DEF Sessions
  <1>10. CASE w.session.len = 0
    <2> HIDE DEF s, v
    <2> QED  BY <1>3, <1>4, <1>7, <1>10
  <1>11. CASE w.session.len # 0
    <2> HIDE DEF t, z
    <2> QED  BY <1>5, <1>8, <1>9, <1>11 DEF left, body
  <1> QED  BY <1>10, <1>11

\* What a send leaves of a reply that goes on.
LEMMA CountedServes ==
    ASSUME NEW x \in States, NEW R \in Nat, NEW r \in Ranges, NEW k \in 1..Unsent(x),
           Serving(x, R, r), ~x.conn.closing
    PROVE  LET y == Counted(Drained(x, k), k) IN
           /\ y \in States /\ Serving(y, R + k, r)
           /\ y.conn.header_sent /\ ~y.conn.closing /\ y.conn.open
           /\ Unsent(y) = Unsent(x) - k /\ Kept(y) = Kept(x)
           /\ x.session.len = 0 => y.session.len = 0
           /\ (x.session.len # 0 /\ y.session.len = 0 /\ y.session.sending = 0) => Unsent(y) = 0
           /\ x.session.len # 0 =>
                /\ Counts(y, R + k, r)
                /\ y.session.len =
                     (IF x.session.len > 0 THEN x.session.len - (BodyIn(R + k) - BodyIn(R))
                      ELSE x.session.len)
                /\ BodyIn(R + k) - BodyIn(R) <= x.session.sending
                /\ (x.session.len > 0 => x.session.len >= BodyIn(R + k) - BodyIn(R))
                     => y.failed = x.failed
           /\ x.session.len = 0 => y.failed = x.failed
  <1> DEFINE w == Drained(x, k)
             h == x.session.header_sending
             y == Counted(w, k)
  <1>n. /\ Unsent(x) \in Nat /\ Kept(x) \in Nat /\ x.session.sending \in Nat /\ h \in Nat
        /\ x.session.pos \in Nat /\ x.session.len \in Int /\ r.pos \in Nat /\ HEADER \in Nat
        /\ k \in Nat /\ k >= 1 /\ k <= Unsent(x) /\ k \in 0..Unsent(x) /\ LIMIT + LIMIT \div 2 \in Nat
    BY StateNumbers, ConstantsFit DEF Ranges
  <1>1. x.conn.header_sent
    <2>1. ~x.conn.header_sent => Unsent(x) = 0
      BY DEF Serving, Fresh, Unsent
    <2> QED  BY <1>n, <2>1
  <1>2. /\ w \in States /\ w.session = x.session /\ w.failed = x.failed
        /\ w.conn.open = x.conn.open /\ w.conn.header_sent = x.conn.header_sent
        /\ w.conn.closing = x.conn.closing
        /\ Unsent(w) = Unsent(x) - k /\ Kept(w) = Kept(x)
        /\ Carries(w.conn.send_mbuf, R + k, r.pos)
    <2>1. Carries(x.conn.send_mbuf, R, r.pos)
      BY DEF Serving
    <2> QED  BY <1>n, <2>1, DrainedCarries
  <1>3. x.session.len # 0 =>
          /\ h = HeadLeft(R) /\ x.session.sending + h = Unsent(x) /\ x.session.pos = r.pos + BodyIn(R)
    BY <1>1 DEF Serving, Counts
  <1>4. x.session.len # 0 =>
          /\ BodyOf(k, h) = BodyIn(R + k) - BodyIn(R) /\ BodyOf(k, h) \in Nat
          /\ BodyOf(k, h) <= x.session.sending
          /\ (IF h > k THEN h - k ELSE 0) = HeadLeft(R + k)
          /\ x.session.pos + BodyOf(k, h) = r.pos + BodyIn(R + k)
          /\ (h > k => BodyOf(k, h) = 0)
          /\ x.session.sending - BodyOf(k, h) + HeadLeft(R + k) = Unsent(x) - k
    BY <1>n, <1>3 DEF BodyOf, BodyIn, HeadLeft
  <1>5. /\ y \in States /\ y.conn = w.conn /\ y.session.buf = w.session.buf
        /\ y.session.req_pos = w.session.req_pos /\ y.session.req_len = w.session.req_len
        /\ w.session.len = 0 => y.session.len = 0 /\ y.failed = w.failed
        /\ w.session.len # 0 =>
             /\ y.session.header_sending = (IF h > k THEN h - k ELSE 0)
             /\ y.session.sending = w.session.sending - BodyOf(k, h)
             /\ y.session.pos = w.session.pos + BodyOf(k, h)
             /\ y.session.len = (IF w.session.len > 0 THEN w.session.len - BodyOf(k, h)
                                 ELSE w.session.len)
             /\ (w.session.len > 0 => w.session.len >= BodyOf(k, h)) => y.failed = w.failed
    <2>1. w.session.len # 0 => BodyOf(k, w.session.header_sending) <= w.session.sending
      BY <1>2, <1>4
    <2>2. h = w.session.header_sending
      BY <1>2
    <2> HIDE DEF w, h
    <2> QED  BY SMTT(30), <1>2, <1>n, <2>1, <2>2, CountedEffect
  <1> HIDE DEF w, h, y
  <1>6. Unsent(y) = Unsent(x) - k /\ Kept(y) = Kept(x)
    BY <1>2, <1>5 DEF Unsent, Kept
  <1>7. x.session.len # 0 => Counts(y, R + k, r)
    BY <1>2, <1>4, <1>5, <1>6 DEF Counts
  <1>8. Serving(y, R + k, r)
    <2>1. /\ x.conn.open /\ x.session.req_pos = r.pos /\ x.session.req_len = r.len
          /\ Kept(x) <= LIMIT /\ Unsent(x) <= LIMIT + LIMIT \div 2
          /\ Carries(x.session.buf, R + Unsent(x), r.pos)
      BY DEF Serving
    <2>2. R + k + Unsent(y) = R + Unsent(x) /\ Unsent(y) <= LIMIT + LIMIT \div 2
      BY <1>n, <1>6, <2>1
    <2> QED  BY <1>1, <1>2, <1>5, <1>6, <1>7, <2>1, <2>2 DEF Serving
  <1>9. x.session.len # 0 =>
          /\ y.session.len =
               (IF x.session.len > 0 THEN x.session.len - (BodyIn(R + k) - BodyIn(R))
                ELSE x.session.len)
          /\ BodyIn(R + k) - BodyIn(R) <= x.session.sending
          /\ (x.session.len > 0 => x.session.len >= BodyIn(R + k) - BodyIn(R)) => y.failed = x.failed
    BY <1>2, <1>4, <1>5
  <1>10. (x.session.len # 0 /\ y.session.len = 0 /\ y.session.sending = 0) => Unsent(y) = 0
    <2> SUFFICES ASSUME x.session.len # 0, y.session.len = 0, y.session.sending = 0
                 PROVE  Unsent(y) = 0
      OBVIOUS
    <2>1. ~(h > k)
      BY <1>n, <1>2, <1>4, <1>5
    <2>2. y.session.header_sending = 0
      BY <1>2, <1>5, <2>1
    <2> QED  BY <1>7, <2>2 DEF Counts
  <1> QED
    BY <1>1, <1>2, <1>5, <1>6, <1>7, <1>8, <1>9, <1>10 DEF y, w, Serving

\* A transfer and then the look at the task's error.
LEMMA TransferThenCloseServes ==
    ASSUME NEW x \in States, NEW R \in Nat, NEW r \in Ranges, NEW tsk,
           Serving(x, R, r), ~x.conn.closing, HeadFits, NEW z \in TransferThenClose(x, tsk)
    PROVE  /\ z \in States
           /\ Serving(z, R, r) \/ (R = 0 /\ Refused(z, R))
           /\ tsk.filesize = 0 => z.conn.header_sent = x.conn.header_sent
  <1>1. PICK y \in TryTransfer(x, tsk) : z = CloseIfNeed(y, tsk)
    BY DEF TransferThenClose
  <1>2. /\ y \in States /\ Serving(y, R, r)
        /\ tsk.filesize = 0 => y.conn.header_sent = x.conn.header_sent
    BY <1>1, TransferServes
  <1>3. /\ z \in States /\ z.conn.header_sent = y.conn.header_sent
        /\ Serving(z, R, r) \/ (R = 0 /\ Refused(z, R))
    BY <1>1, <1>2, CloseIfNeedServes
  <1> QED  BY <1>2, <1>3

\* A send either ends the session with nothing unsent, or the reply goes on.
LEMMA OnSendServes ==
    ASSUME NEW x \in States, NEW R \in Nat, NEW r \in Ranges, NEW k \in 1..Unsent(x), NEW tsk,
           Serving(x, R, r), HeadFits, NEW z \in OnSend(Drained(x, k), tsk, k)
    PROVE  \/ z \in States /\ Serving(z, R + k, r)
           \/ /\ z.session = NoSession /\ z.conn \in Conns /\ z.conn.open /\ ~z.conn.closing
              /\ z.conn.send_mbuf = <<>> /\ z.failed \subseteq {59, 127, 139, 143, 184}
  <1> DEFINE w == Drained(x, k)
             y == Counted(w, k)
  <1>n. k \in Nat /\ k >= 1 /\ k \in 0..Unsent(x) /\ R + k \in Nat /\ R + k # 0 /\ r.pos \in Nat
        /\ Unsent(x) \in Nat /\ LIMIT + LIMIT \div 2 \in Nat
    BY SMTT(30), StateNumbers, ConstantsFit DEF Ranges
  <1>1. /\ w \in States /\ w.session = x.session
        /\ w.conn.open = x.conn.open /\ w.conn.header_sent = x.conn.header_sent
        /\ w.conn.closing = x.conn.closing
        /\ Unsent(w) = Unsent(x) - k /\ Kept(w) = Kept(x)
        /\ Carries(w.conn.send_mbuf, R + k, r.pos)
    <2>1. Carries(x.conn.send_mbuf, R, r.pos)
      BY DEF Serving
    <2> QED  BY <1>n, <2>1, DrainedCarries
  <1>2. CASE x.conn.closing
    <2>1. z = w
      <3> HIDE DEF w
      <3>1. OnSend(w, tsk, k) = {w}
        BY <1>1, <1>2 DEF OnSend
      <3>2. z \in OnSend(w, tsk, k)
        BY DEF w
      <3> QED  BY <3>1, <3>2
    <2> HIDE DEF w
    <2>2. x.conn.header_sent
      BY <1>2 DEF Serving
    <2>3. /\ x.conn.open /\ x.session.req_pos = r.pos /\ x.session.req_len = r.len
          /\ Kept(x) <= LIMIT /\ Unsent(x) <= LIMIT + LIMIT \div 2
          /\ Carries(x.session.buf, R + Unsent(x), r.pos)
      BY DEF Serving
    <2>4. R + k + Unsent(w) = R + Unsent(x) /\ Unsent(w) <= LIMIT + LIMIT \div 2
      BY <1>n, <1>1, <2>3
    <2>5. Serving(w, R + k, r)
      BY <1>1, <1>2, <2>2, <2>3, <2>4 DEF Serving
    <2> QED  BY <1>1, <2>1, <2>5
  <1>3. CASE ~x.conn.closing
    <2>1. /\ y \in States /\ Serving(y, R + k, r)
          /\ y.conn.header_sent /\ ~y.conn.closing /\ y.conn.open
          /\ (x.session.len # 0 /\ y.session.len = 0 /\ y.session.sending = 0) => Unsent(y) = 0
      BY <1>3, CountedServes
    <2>2. CASE x.session.len = 0
      <3>1. z = y
        <4> HIDE DEF w, y
        <4>1. OnSend(w, tsk, k) =
                UNION { IF w.session.len = 0 THEN {v}
                        ELSE IF v.session.len = 0 /\ v.session.sending = 0
                        THEN {[v EXCEPT !.session = NoSession]}
                        ELSE TransferThenClose(v, tsk) : v \in {Counted(w, k)} }
          BY <1>1, <1>3 DEF OnSend
        <4>2. z \in OnSend(w, tsk, k)
          BY DEF w
        <4> QED  BY <1>1, <2>2, <4>1, <4>2 DEF y
      <3> QED  BY <2>1, <3>1
    <2>3. CASE x.session.len # 0
      <3>1. z \in (IF y.session.len = 0 /\ y.session.sending = 0
                   THEN {[y EXCEPT !.session = NoSession]}
                   ELSE TransferThenClose(y, tsk))
        <4> HIDE DEF w, y
        <4>1. OnSend(w, tsk, k) =
                UNION { IF w.session.len = 0 THEN {v}
                        ELSE IF v.session.len = 0 /\ v.session.sending = 0
                        THEN {[v EXCEPT !.session = NoSession]}
                        ELSE TransferThenClose(v, tsk) : v \in {Counted(w, k)} }
          BY <1>1, <1>3 DEF OnSend
        <4>2. z \in OnSend(w, tsk, k)
          BY DEF w
        <4> QED  BY <1>1, <2>3, <4>1, <4>2 DEF y
      <3> HIDE DEF w, y
      <3>2. CASE y.session.len = 0 /\ y.session.sending = 0
        <4>1. z = [y EXCEPT !.session = NoSession] /\ Unsent(y) = 0
          BY <2>1, <2>3, <3>1, <3>2
        <4>2. z.session = NoSession /\ z.conn = y.conn /\ z.failed = y.failed
          BY <2>1, <4>1 DEF States
        <4>3. y.conn \in Conns /\ y.failed \subseteq {59, 127, 139, 143, 184}
          BY <2>1, StateParts
        <4>4. y.conn.send_mbuf = <<>>
          <5>1. y.conn.send_mbuf \in Seq(Bytes) /\ Len(y.conn.send_mbuf) = 0
            BY <2>1, <4>1, StateNumbers DEF Unsent
          <5> QED  BY <5>1, EmptySeq
        <4> QED  BY <2>1, <4>2, <4>3, <4>4
      <3>3. CASE ~(y.session.len = 0 /\ y.session.sending = 0)
        <4>1. z \in TransferThenClose(y, tsk)
          BY <3>1, <3>3
        <4>2. z \in States /\ (Serving(z, R + k, r) \/ (R + k = 0 /\ Refused(z, R + k)))
          BY <1>n, <2>1, <4>1, TransferThenCloseServes
        <4> QED  BY <1>n, <4>2
      <3> QED  BY <3>2, <3>3
    <2> QED  BY <2>2, <2>3
  <1> QED  BY <1>2, <1>3

-----------------------------------------------------------------------------
(* The actions.                                                            *)

\* A session that becomes a state of an answer keeps types and invariant.
LEMMA BecomesAnswer ==
    ASSUME NEW x \in States, conn' = x.conn, session' = x.session, failed' = x.failed,
           received' \in Seq(Bytes), request' \in [range : Requests, method : Methods],
           task' \in [filesize : {0, FileSize}, code : {0, 404}],
           Answering(x, received', request'.range, task')
    PROVE  TypeOK' /\ SessionInv'
  <1>1. /\ x.conn \in Conns /\ x.session \in Sessions
        /\ x.failed \subseteq {59, 127, 139, 143, 184}
        /\ x = [conn |-> x.conn, session |-> x.session, failed |-> x.failed]
    BY StateParts
  <1>2. x.session # NoSession
    BY <1>1 DEF Sessions, NoSession
  <1>3. Current' = x
    BY <1>1 DEF Current
  <1>4. x.conn.open /\ Len(x.session.buf) <= LIMIT
    <2>1. CASE Serving(x, Len(received'), request'.range)
      BY <2>1 DEF Serving, Kept
    <2>2. CASE Refused(x, Len(received'))
      BY <2>2, ConstantsFit DEF Refused
    <2> QED  BY <2>1, <2>2 DEF Answering
  <1>5. TypeOK'
    BY <1>1, <1>4 DEF TypeOK, Conns, HasSession
  <1> QED  BY <1>2, <1>3, <1>5 DEF SessionInv, HasSession

\* The parts of the state have their types.
LEMMA CurrentParts ==
    ASSUME TypeOK
    PROVE  /\ HasSession => Current \in States
           /\ Current.conn = conn /\ Current.session = session /\ Current.failed = failed
           /\ conn \in Conns /\ failed \subseteq {59, 127, 139, 143, 184}
           /\ request.range \in Ranges /\ request.range \in Requests
           /\ received \in Seq(Bytes) /\ Len(received) \in Nat
           /\ task.filesize \in {0, FileSize}
  <1>1. request.range \in Requests
    BY DEF TypeOK
  <1>2. request.range \in Ranges
    BY <1>1, SessionAssumption DEF Ranges
  <1>3. Len(received) \in Nat /\ received \in Seq(Bytes)
    BY LenProperties DEF TypeOK
  <1>4. /\ conn \in Conns /\ failed \subseteq {59, 127, 139, 143, 184}
        /\ task.filesize \in {0, FileSize}
    BY DEF TypeOK, Conns
  <1>5. /\ Current.conn = conn /\ Current.session = session /\ Current.failed = failed
    BY DEF Current
  <1>6. HasSession => Current \in States
    BY <1>4 DEF TypeOK, HasSession, Current, States
  <1> QED  BY <1>1, <1>2, <1>3, <1>4, <1>5, <1>6

\* Request, the whole handler.
LEMMA RequestStep ==
    ASSUME TypeOK, SessionInv, OneAtATime, HeadFits, NEW r \in Requests, NEW m \in Methods,
           Request(r, m)
    PROVE  TypeOK' /\ SessionInv'
  <1> DEFINE c == [conn EXCEPT !.header_sent = FALSE]
             s == Open(r, m, task)
             x == [Current EXCEPT !.conn.header_sent = FALSE, !.session = s]
  <1>0. ~HasSession /\ ~conn.closing /\ conn.send_mbuf = <<>> /\ conn.open
    BY DEF Request, OneAtATime
  <1>1. /\ conn \in Conns /\ failed \subseteq {59, 127, 139, 143, 184} /\ r \in Ranges
        /\ task.filesize \in {0, FileSize}
    BY CurrentParts, SessionAssumption DEF Ranges
  <1>2. /\ c \in Conns /\ c.open = conn.open /\ ~c.header_sent /\ ~c.closing /\ c.send_mbuf = <<>>
    BY <1>0, <1>1 DEF Conns
  <1>3. /\ s \in Sessions /\ s.req_pos = r.pos /\ s.req_len = r.len /\ s.buf = <<>>
        /\ s.pos = r.pos /\ s.sending = 0 /\ s.header_sending = 0
    <2> DEFINE l == IF r.len = 0 /\ task.filesize > 0 THEN task.filesize - r.pos ELSE r.len
    <2>1. r.pos \in Nat /\ r.len \in Nat /\ l \in Int /\ 0 \in 0..SIZE - 1
      BY <1>1, ConstantsFit DEF Ranges
    <2>2. m \in {"GET", "HEAD"} /\ <<>> \in Seq(Bytes)
      BY SessionAssumption
    <2>3. s = [method |-> m, pos |-> r.pos, len |-> l, req_pos |-> r.pos, req_len |-> r.len,
               sending |-> 0, header_sending |-> 0, buf |-> <<>>]
      BY DEF Open
    <2> HIDE DEF l, s
    <2> QED  BY <2>1, <2>2, <2>3 DEF Sessions
  <1> HIDE DEF s
  <1>4. x = [conn |-> c, session |-> s, failed |-> failed]
    <2> DEFINE y == [conn |-> conn, session |-> session, failed |-> failed]
    <2>1. x = [y EXCEPT !.conn = c, !.session = s]
      BY DEF Current
    <2> HIDE DEF c, x
    <2> QED  BY <2>1
  <1>5. Become(TransferThenClose(x, task)) /\ request' = [range |-> r, method |-> m]
        /\ received' = <<>> /\ task' = task
    BY DEF Request, s
  <1> HIDE DEF c, x
  <1>6. x \in States /\ x.conn = c /\ x.session = s
    BY <1>1, <1>2, <1>3, <1>4 DEF States
  <1>7. Len(<<>>) = 0 /\ Unsent(x) = 0 /\ Kept(x) = 0
    BY <1>2, <1>3, <1>6 DEF Unsent, Kept
  <1>8. Serving(x, 0, r)
    <2>1. x.conn.send_mbuf = <<>> /\ x.session.buf = <<>>
      BY <1>2, <1>3, <1>6
    <2>2. Carries(x.conn.send_mbuf, 0, r.pos) /\ Carries(x.session.buf, 0 + Unsent(x), r.pos)
      BY <1>7, <2>1 DEF Carries
    <2>3. 0 <= LIMIT /\ 0 <= LIMIT + LIMIT \div 2
      BY ConstantsFit
    <2>4. Fresh(x, 0, r)
      BY <1>3, <1>6, <2>1 DEF Fresh
    <2> QED  BY <1>0, <1>2, <1>3, <1>6, <1>7, <2>2, <2>3, <2>4 DEF Serving
  <1>9. PICK z \in TransferThenClose(x, task) : conn' = z.conn /\ session' = z.session /\ failed' = z.failed
    BY <1>5 DEF Become
  <1>10. /\ z \in States /\ (Serving(z, 0, r) \/ Refused(z, 0))
         /\ task.filesize = 0 => ~z.conn.header_sent
    BY <1>1, <1>2, <1>6, <1>8, <1>9, TransferThenCloseServes
  <1>11. Len(received') = 0 /\ received' \in Seq(Bytes) /\ request'.range = r
    BY <1>5
  <1>12. Answering(z, received', request'.range, task')
    BY <1>5, <1>10, <1>11 DEF Answering, Carries
  <1>13. /\ request' \in [range : Requests, method : Methods]
         /\ task' \in [filesize : {0, FileSize}, code : {0, 404}]
    BY <1>5 DEF TypeOK
  <1> QED  BY <1>9, <1>10, <1>11, <1>12, <1>13, BecomesAnswer

\* The size of the file gets known.
LEMMA LearnSizeStep ==
    ASSUME TypeOK, SessionInv, LearnSize
    PROVE  TypeOK' /\ SessionInv'
  <1> DEFINE l == IF session.len > 0 THEN session.len ELSE FileSize - session.pos
             s == [session EXCEPT !.len = l]
             x == [conn |-> conn, session |-> s, failed |-> failed]
             R == Len(received)
             r == request.range
  <1>1. /\ Current \in States /\ Current.conn = conn /\ Current.session = session
        /\ conn \in Conns /\ session \in Sessions /\ failed \subseteq {59, 127, 139, 143, 184}
        /\ session.pos \in Nat /\ session.len \in Int
    BY CurrentParts, StateParts, StateNumbers DEF LearnSize
  <1>2. l \in Int /\ s \in Sessions
    <2>1. l \in Int
      BY <1>1, ConstantsFit
    <2> HIDE DEF l
    <2> QED  BY <1>1, <2>1 DEF Sessions
  <1>3. /\ conn' = conn /\ session' = s /\ failed' = failed /\ received' = received
        /\ request' = request /\ task' = [task EXCEPT !.filesize = FileSize]
        /\ HasSession /\ task.filesize = 0
    BY DEF LearnSize
  <1>4. /\ s.pos = session.pos /\ s.req_pos = session.req_pos /\ s.req_len = session.req_len
        /\ s.sending = session.sending /\ s.header_sending = session.header_sending
        /\ s.buf = session.buf
    <2> HIDE DEF l
    <2> QED  BY <1>1, <1>2 DEF Sessions
  <1> HIDE DEF s
  <1>5. x \in States /\ x.conn = conn /\ x.session = s /\ x.failed = failed
    BY <1>1, <1>2 DEF States
  <1> HIDE DEF x
  <1>6. Unsent(x) = Unsent(Current) /\ Kept(x) = Kept(Current)
    BY <1>1, <1>4, <1>5 DEF Unsent, Kept
  <1>7. Answering(Current, received, r, task)
    BY <1>3 DEF SessionInv
  <1>8. Answering(x, received, r, task')
    <2>1. CASE Serving(Current, R, r) /\ Carries(received, 0, r.pos) /\ ~conn.header_sent
      <3>1. Serving(x, R, r)
        BY <1>1, <1>4, <1>5, <1>6, <2>1 DEF Serving, Fresh
      <3> QED  BY <1>5, <2>1, <3>1 DEF Answering
    <2>2. CASE Refused(Current, R) /\ \A i \in 1..R : received[i] = ErrorByte
      <3>1. Refused(x, R)
        BY <1>1, <1>4, <1>5, <1>6, <2>2 DEF Refused
      <3> QED  BY <2>2, <3>1 DEF Answering
    <2> QED  BY <1>1, <1>3, <1>7, <2>1, <2>2 DEF Answering
  <1>9. /\ request' \in [range : Requests, method : Methods] /\ received' \in Seq(Bytes)
        /\ task' \in [filesize : {0, FileSize}, code : {0, 404}]
    BY <1>3 DEF TypeOK
  <1> QED  BY <1>3, <1>5, <1>8, <1>9, BecomesAnswer

\* Data has come for the session.
LEMMA RecvStep ==
    ASSUME TypeOK, SessionInv, OneAtATime, HeadFits, Recv
    PROVE  TypeOK' /\ SessionInv'
  <1> DEFINE R == Len(received)
             r == request.range
  <1>1. /\ Current \in States /\ Current.conn = conn /\ HasSession /\ ~conn.closing
        /\ R \in Nat /\ r \in Ranges /\ task.filesize # 0
        /\ task' = task /\ request' = request /\ received' = received
    BY CurrentParts DEF Recv, OneAtATime
  <1>2. Serving(Current, R, r) /\ Carries(received, 0, r.pos)
    BY <1>1 DEF SessionInv, Answering, Refused
  <1>3. PICK z \in TransferThenClose(Current, task) :
            conn' = z.conn /\ session' = z.session /\ failed' = z.failed
    BY DEF Recv, Become
  <1>4. z \in States /\ (Serving(z, R, r) \/ (R = 0 /\ Refused(z, R)))
    BY <1>1, <1>2, <1>3, TransferThenCloseServes
  <1>5. Answering(z, received', request'.range, task')
    BY <1>1, <1>2, <1>4 DEF Answering
  <1>6. /\ request' \in [range : Requests, method : Methods] /\ received' \in Seq(Bytes)
        /\ task' \in [filesize : {0, FileSize}, code : {0, 404}]
    BY <1>1 DEF TypeOK
  <1> QED  BY <1>3, <1>4, <1>5, <1>6, BecomesAnswer

\* The download has failed.
LEMMA TaskErrorStep ==
    ASSUME TypeOK, SessionInv, TaskError
    PROVE  TypeOK' /\ SessionInv'
  <1> DEFINE R == Len(received)
             r == request.range
             z == CloseIfNeed(Current, task')
  <1>1. /\ Current \in States /\ Current.conn = conn /\ HasSession
        /\ R \in Nat /\ r \in Ranges
        /\ task' = [task EXCEPT !.code = 404] /\ request' = request /\ received' = received
        /\ conn' = z.conn /\ session' = z.session /\ failed' = z.failed
    BY CurrentParts DEF TaskError, Become
  <1>2. /\ request' \in [range : Requests, method : Methods] /\ received' \in Seq(Bytes)
        /\ task' \in [filesize : {0, FileSize}, code : {0, 404}] /\ task'.filesize = task.filesize
    BY <1>1 DEF TypeOK
  <1>3. z \in States /\ Answering(z, received, r, task)
    <2>1. CASE /\ Serving(Current, R, r) /\ Carries(received, 0, r.pos)
               /\ task.filesize = 0 => ~conn.header_sent
      <3>1. z \in States /\ z.conn.header_sent = conn.header_sent
            /\ (Serving(z, R, r) \/ (R = 0 /\ Refused(z, R)))
        BY <1>1, <2>1, CloseIfNeedServes
      <3> QED  BY <2>1, <3>1 DEF Answering
    <2>2. CASE Refused(Current, R) /\ \A i \in 1..R : received[i] = ErrorByte
      <3>1. z = Current \/ z = [Current EXCEPT !.conn.closing = TRUE]
        BY <1>1, <2>2 DEF CloseIfNeed, Refused
      <3>2. z \in States /\ z.session = Current.session /\ z.conn.open = conn.open
            /\ z.conn.header_sent = conn.header_sent /\ z.conn.closing
            /\ z.conn.send_mbuf = conn.send_mbuf
        <4>1. conn.closing
          BY <1>1, <2>2 DEF Refused
        <4> HIDE DEF z
        <4> QED  BY <1>1, <3>1, <4>1, SetClosing
      <3> HIDE DEF z
      <3>3. Refused(z, R)
        BY <1>1, <2>2, <3>2 DEF Refused, Unsent
      <3> QED  BY <2>2, <3>2, <3>3 DEF Answering
    <2> QED  BY <1>1, <2>1, <2>2 DEF SessionInv, Answering
  <1>4. Answering(z, received', request'.range, task')
    <2> HIDE DEF z
    <2> QED  BY <1>1, <1>2, <1>3 DEF Answering
  <1> HIDE DEF z
  <1> QED  BY <1>1, <1>2, <1>3, <1>4, BecomesAnswer

\* Bytes of an error page.
LEMMA PageIsOneByte ==
    ASSUME NEW s \in Seq(Bytes), Len(s) <= 1, \A i \in 1..Len(s) : s[i] = ErrorByte
    PROVE  s = <<>> \/ s = <<ErrorByte>>
  <1>1. Len(s) \in Nat /\ <<ErrorByte>> \in Seq(Bytes) /\ Len(<<ErrorByte>>) = 1
    BY LenProperties, ConstantsFit DEF Bytes, ErrorByte
  <1>2. CASE Len(s) = 0
    BY <1>2, EmptySeq
  <1>3. CASE Len(s) = 1
    <2>1. s[1] = ErrorByte
      BY <1>3
    <2>2. \A i \in 1..1 : s[i] = <<ErrorByte>>[i]
      BY <2>1
    <2> QED  BY <1>1, <1>3, <2>2, SeqEqual
  <1>4. Len(s) = 0 \/ Len(s) = 1
    <2>1. \A n \in Nat : n <= 1 => n = 0 \/ n = 1
      OBVIOUS
    <2> QED  BY <1>1, <2>1
  <1> QED  BY <1>2, <1>3, <1>4

\* An ended session has its types and leaves the connection quiet.
LEMMA BecomesQuiet ==
    ASSUME session' = NoSession, conn' \in Conns, failed' \subseteq {59, 127, 139, 143, 184},
           received' \in Seq(Bytes), request' \in [range : Requests, method : Methods],
           task' \in [filesize : {0, FileSize}, code : {0, 404}],
           Quiet(conn', received', request'.range)
    PROVE  TypeOK' /\ SessionInv'
  BY DEF TypeOK, SessionInv, HasSession, Conns

\* The client takes what it is sent.
LEMMA SendOutStep ==
    ASSUME TypeOK, SessionInv, HeadFits, NEW k \in 1..IO, SendOut(k)
    PROVE  TypeOK' /\ SessionInv'
  <1> DEFINE R == Len(received)
             r == request.range
             x == Current
             w == Drained(Current, k)
             sent == SubSeq(conn.send_mbuf, 1, k)
  <1>1. /\ x.conn = conn /\ x.session = session /\ x.failed = failed
        /\ R \in Nat /\ r \in Ranges /\ r.pos \in Nat
        /\ task' = task /\ request' = request /\ received' = received \o sent
        /\ k \in Nat /\ k >= 1 /\ k <= Len(conn.send_mbuf) /\ received \in Seq(Bytes)
        /\ conn \in Conns
    <2>1. /\ x.conn = conn /\ x.session = session /\ x.failed = failed
          /\ R \in Nat /\ r \in Ranges /\ received \in Seq(Bytes) /\ conn \in Conns
      BY CurrentParts
    <2>2. k \in Nat /\ k >= 1
      BY SessionAssumption
    <2>3. r.pos \in Nat
      BY <2>1, ConstantsFit DEF Ranges
    <2>4. k <= Len(conn.send_mbuf) /\ task' = task /\ request' = request
          /\ received' = received \o sent
      BY DEF SendOut
    <2> QED  BY <2>1, <2>2, <2>3, <2>4
  <1>2. /\ HasSession /\ x \in States
    <2>1. ~HasSession => Len(conn.send_mbuf) = 0
      BY DEF SessionInv, Quiet
    <2> QED  BY <1>1, <2>1, CurrentParts
  <1>3. /\ Unsent(x) \in Nat /\ k \in 1..Unsent(x) /\ k \in 0..Unsent(x) /\ k <= Unsent(x)
        /\ x.conn.send_mbuf \in Seq(Bytes)
    BY <1>1, <1>2, StateNumbers DEF Unsent
  <1>4. PICK z \in OnSend(w, task, k) :
            conn' = z.conn /\ session' = z.session /\ failed' = z.failed
    <2>1. w = [x EXCEPT !.conn.send_mbuf = SubSeq(@, k + 1, Len(@))]
      BY DEF Drained
    <2> HIDE DEF w
    <2>2. Become(IF HasSession THEN OnSend(w, task, k) ELSE {w})
      BY <2>1 DEF SendOut
    <2> QED  BY <1>2, <2>2 DEF Become
  <1>5. /\ request' \in [range : Requests, method : Methods]
        /\ task' \in [filesize : {0, FileSize}, code : {0, 404}]
    BY <1>1 DEF TypeOK
  <1>6. CASE /\ Serving(x, R, r) /\ Carries(received, 0, r.pos)
             /\ task.filesize = 0 => ~conn.header_sent
    <2>1. Carries(x.conn.send_mbuf, R, r.pos)
      BY <1>6 DEF Serving
    <2>2. /\ sent \in Seq(Bytes) /\ Len(sent) = k /\ Carries(sent, R, r.pos)
      <3> HIDE DEF x, R, r
      <3>1. SubSeq(x.conn.send_mbuf, 1, k) \in Seq(Bytes) /\ Len(SubSeq(x.conn.send_mbuf, 1, k)) = k
            /\ Carries(SubSeq(x.conn.send_mbuf, 1, k), R, r.pos)
        BY SMTT(30), <1>1, <1>2, <1>3, <2>1, DrainedCarries
      <3> QED  BY <1>1, <3>1
    <2> HIDE DEF sent
    <2>3. received' \in Seq(Bytes) /\ Len(received') = R + k /\ Carries(received', 0, r.pos)
      <3>1. Carries(sent, 0 + Len(received), r.pos)
        BY <1>1, <2>2
      <3> HIDE DEF r
      <3> QED  BY <1>1, <1>6, <2>2, <3>1, CarriesConcat
    <2>4. \/ z \in States /\ Serving(z, R + k, r)
          \/ /\ z.session = NoSession /\ z.conn \in Conns /\ z.conn.open /\ ~z.conn.closing
             /\ z.conn.send_mbuf = <<>> /\ z.failed \subseteq {59, 127, 139, 143, 184}
      <3> HIDE DEF x, R, r
      <3>1. z \in OnSend(Drained(x, k), task, k)
        BY DEF x
      <3> QED  BY <1>1, <1>2, <1>3, <1>6, <3>1, OnSendServes
    <2>5. task.filesize # 0
      <3>1. ~conn.header_sent => Unsent(x) = 0
        BY <1>1, <1>6 DEF Serving, Fresh, Unsent
      <3> QED  BY <1>3, <1>6, <3>1
    <2>6. CASE z \in States /\ Serving(z, R + k, r)
      <3>1. Answering(z, received', request'.range, task')
        BY <1>1, <2>3, <2>5, <2>6 DEF Answering
      <3> QED  BY <1>4, <1>5, <2>3, <2>6, <3>1, BecomesAnswer
    <2>7. CASE /\ z.session = NoSession /\ z.conn \in Conns /\ z.conn.open /\ ~z.conn.closing
               /\ z.conn.send_mbuf = <<>> /\ z.failed \subseteq {59, 127, 139, 143, 184}
      <3>1. Quiet(conn', received', request'.range)
        BY <1>1, <1>4, <2>3, <2>7 DEF Quiet
      <3> QED  BY <1>4, <1>5, <2>3, <2>7, <3>1, BecomesQuiet
    <2> QED  BY <2>4, <2>6, <2>7
  <1>7. CASE Refused(x, R) /\ \A i \in 1..R : received[i] = ErrorByte
    <2>1. R = 0 /\ k = 1 /\ Unsent(x) = 1 /\ conn.closing /\ R + Unsent(x) = 1
          /\ \A i \in 1..Unsent(x) : conn.send_mbuf[i] = ErrorByte
      BY <1>1, <1>3, <1>7 DEF Refused
    <2>2. /\ w \in States /\ w.session = x.session /\ w.failed = x.failed
          /\ w.conn.open = x.conn.open /\ w.conn.header_sent = x.conn.header_sent
          /\ w.conn.closing = x.conn.closing
          /\ Unsent(w) = 0 /\ sent = <<ErrorByte>>
      <3> DEFINE all == conn.send_mbuf
                 m == SubSeq(all, k + 1, Len(all))
                 c == [x.conn EXCEPT !.send_mbuf = m]
      <3>1. w = With(x, c, x.session)
        BY <1>1, <1>2 DEF Drained, With, States, Conns
      <3>2. all \in Seq(Bytes) /\ Len(all) = 1 /\ k = 1 /\ all[1] = ErrorByte
        BY <1>1, <1>3, <2>1 DEF Unsent
      <3> HIDE DEF all
      <3>3. m = <<>> /\ sent = <<ErrorByte>>
        <4>1. SubSeq(all, 2, 1) = <<>>
          BY SubSeqEmpty
        <4>2. SubSeq(all, 1, Len(all)) = all
          BY <3>2, SubSeqFull
        <4>3. all = <<ErrorByte>>
          <5>1. \A i \in 1..Len(all) : all[i] = ErrorByte
            BY <3>2
          <5>2. Len(all) <= 1 /\ (all = <<>> => Len(all) = 0)
            <6>1. Len(<<>>) = 0 /\ 1 <= 1
              OBVIOUS
            <6>2. Len(all) = 1
              BY <3>2
            <6> QED  BY <6>1, <6>2
          <5>3. all = <<>> \/ all = <<ErrorByte>>
            BY <3>2, <5>1, <5>2, PageIsOneByte
          <5> QED  BY <3>2, <5>2, <5>3
        <4> QED  BY <3>2, <4>1, <4>2, <4>3 DEF all
      <3>4. m \in Seq(Bytes) /\ x.session \in Sessions
        BY <1>2, <3>3, StateParts
      <3> HIDE DEF m
      <3>5. /\ c \in Conns /\ c.send_mbuf = m /\ c.open = x.conn.open
            /\ c.header_sent = x.conn.header_sent /\ c.closing = x.conn.closing
        BY <1>1, <3>4 DEF Conns
      <3> HIDE DEF c, x, w
      <3>6. w \in States /\ w.conn = c /\ w.session = x.session /\ w.failed = x.failed
        BY <1>2, <3>1, <3>4, <3>5, StateWith
      <3> QED  BY <3>3, <3>5, <3>6 DEF Unsent
    <2>3. z = w
      <3>1. w.conn.closing
        BY <1>1, <2>1, <2>2
      <3> HIDE DEF w
      <3> QED  BY <3>1 DEF OnSend
    <2> HIDE DEF w
    <2>4. received' = <<ErrorByte>> /\ Len(received') = 1 /\ received' \in Seq(Bytes)
          /\ \A i \in 1..Len(received') : received'[i] = ErrorByte
      <3>1. received = <<>> /\ <<ErrorByte>> \in Seq(Bytes)
        BY <1>1, <2>1, EmptySeq, ConstantsFit DEF Bytes, ErrorByte
      <3>2. received' = <<ErrorByte>>
        BY <1>1, <2>2, <3>1, ConcatEmptySeq
      <3> QED  BY <3>1, <3>2
    <2>5. Refused(z, Len(received'))
      <3>1. /\ w.conn.open /\ w.conn.closing /\ w.session.buf = <<>> /\ ~w.conn.header_sent
        BY <1>1, <1>7, <2>1, <2>2 DEF Refused
      <3>2. Len(received') + Unsent(w) = 1 /\ \A i \in 1..Unsent(w) : w.conn.send_mbuf[i] = ErrorByte
        BY <2>2, <2>4
      <3> QED  BY <2>3, <3>1, <3>2 DEF Refused
    <2>6. Answering(z, received', request'.range, task')
      BY <2>4, <2>5 DEF Answering
    <2> QED  BY <1>4, <1>5, <2>2, <2>3, <2>4, <2>6, BecomesAnswer
  <1> QED  BY <1>1, <1>2, <1>6, <1>7 DEF SessionInv, Answering

\* The connection is closed.
LEMMA ClosedStep ==
    ASSUME TypeOK, SessionInv, Closed
    PROVE  TypeOK' /\ SessionInv'
  <1>1. /\ conn' = [conn EXCEPT !.open = FALSE, !.send_mbuf = <<>>] /\ session' = NoSession
        /\ task' = task /\ request' = request /\ received' = received /\ failed' = failed
    BY DEF Closed
  <1>2. conn \in Conns /\ received \in Seq(Bytes) /\ Len(received) \in Nat
        /\ failed \subseteq {59, 127, 139, 143, 184}
    BY CurrentParts
  <1>3. conn' \in Conns /\ ~conn'.open /\ conn'.send_mbuf = <<>>
    <2> DEFINE c == [conn EXCEPT !.open = FALSE, !.send_mbuf = <<>>]
    <2>1. c \in Conns /\ ~c.open /\ c.send_mbuf = <<>>
      <3>1. <<>> \in Seq(Bytes) /\ conn \in Conns
        BY <1>2
      <3> QED  BY <3>1 DEF Conns
    <2> QED  BY <1>1, <2>1
  <1>4. Carries(received, 0, request.range.pos) \/ received = <<ErrorByte>>
    <2>1. CASE HasSession /\ Refused(Current, Len(received))
               /\ \A i \in 1..Len(received) : received[i] = ErrorByte
      <3>1. Unsent(Current) \in Nat
        BY <2>1, CurrentParts, StateNumbers
      <3>2. Len(received) <= 1
        BY <1>2, <2>1, <3>1 DEF Refused
      <3>3. received = <<>> \/ received = <<ErrorByte>>
        BY <1>2, <2>1, <3>2, PageIsOneByte
      <3> QED  BY <3>3 DEF Carries
    <2> QED  BY <2>1 DEF SessionInv, Answering, Quiet
  <1>5. Quiet(conn', received', request'.range)
    BY <1>1, <1>3, <1>4 DEF Quiet
  <1>6. /\ request' \in [range : Requests, method : Methods] /\ received' \in Seq(Bytes)
        /\ task' \in [filesize : {0, FileSize}, code : {0, 404}]
    BY <1>1, <1>2 DEF TypeOK
  <1> QED  BY <1>1, <1>2, <1>3, <1>5, <1>6, BecomesQuiet

\* A connection is accepted.
LEMMA AcceptStep ==
    ASSUME TypeOK, SessionInv, Accept
    PROVE  TypeOK' /\ SessionInv'
  <1>1. /\ conn' = NewConn /\ received' = <<>> /\ session' = session /\ task' = task
        /\ request' = request /\ failed' = failed /\ ~conn.open
    BY DEF Accept
  <1>2. session = NoSession
    BY <1>1 DEF TypeOK, HasSession
  <1>3. conn' \in Conns /\ ~conn'.closing /\ conn'.send_mbuf = <<>>
    BY <1>1 DEF NewConn, Conns
  <1>4. Quiet(conn', received', request'.range)
    BY <1>1, <1>3 DEF Quiet, Carries
  <1>5. /\ request' \in [range : Requests, method : Methods] /\ received' \in Seq(Bytes)
        /\ task' \in [filesize : {0, FileSize}, code : {0, 404}]
        /\ failed' \subseteq {59, 127, 139, 143, 184}
    BY <1>1 DEF TypeOK
  <1> QED  BY <1>1, <1>2, <1>3, <1>4, <1>5, BecomesQuiet

\* The idle task is reaped.
LEMMA TaskExpiresStep ==
    ASSUME TypeOK, SessionInv, TaskExpires
    PROVE  TypeOK' /\ SessionInv'
  <1>1. /\ ~HasSession /\ task' = NewTask /\ UNCHANGED <<conn, session, request, received, failed>>
    BY DEF TaskExpires
  <1>2. task' \in [filesize : {0, FileSize}, code : {0, 404}]
    BY <1>1 DEF NewTask
  <1> QED  BY <1>1, <1>2 DEF TypeOK, SessionInv, HasSession, Quiet, Carries

-----------------------------------------------------------------------------
(* The invariant, and the properties that follow from it.                  *)

\* The invariant holds at the start.
LEMMA InitHolds ==
    ASSUME Init
    PROVE  TypeOK /\ SessionInv
  <1>1. /\ conn = NewConn /\ session = NoSession /\ task = NewTask
        /\ request \in [range : Requests, method : Methods] /\ received = <<>> /\ failed = {}
    BY DEF Init
  <1>2. conn \in [open : BOOLEAN, header_sent : BOOLEAN, closing : BOOLEAN, send_mbuf : Seq(Bytes)]
        /\ ~conn.closing /\ conn.send_mbuf = <<>>
    <2>1. <<>> \in Seq(Bytes)
      OBVIOUS
    <2> QED  BY <1>1, <2>1 DEF NewConn
  <1>3. task \in [filesize : {0, FileSize}, code : {0, 404}] /\ received \in Seq(Bytes)
    BY <1>1 DEF NewTask
  <1>4. ~HasSession
    BY <1>1 DEF HasSession
  <1>5. Quiet(conn, received, request.range)
    BY <1>1, <1>2 DEF Quiet, Carries
  <1> QED  BY <1>1, <1>2, <1>3, <1>4, <1>5 DEF TypeOK, SessionInv

\* The invariant is inductive.
LEMMA NextHolds ==
    ASSUME TypeOK, SessionInv, OneAtATime, HeadFits, [Next]_vars
    PROVE  TypeOK' /\ SessionInv'
  <1>1. ASSUME NEW r \in Requests, NEW m \in Methods, Request(r, m)
        PROVE  TypeOK' /\ SessionInv'
    BY <1>1, RequestStep
  <1>2. CASE LearnSize
    BY <1>2, LearnSizeStep
  <1>3. CASE Recv
    BY <1>3, RecvStep
  <1>4. CASE TaskError
    BY <1>4, TaskErrorStep
  <1>5. ASSUME NEW k \in 1..IO, SendOut(k)
        PROVE  TypeOK' /\ SessionInv'
    BY <1>5, SendOutStep
  <1>6. CASE CloseDrained \/ Disconnect
    BY <1>6, ClosedStep DEF CloseDrained, Disconnect
  <1>7. CASE Accept
    BY <1>7, AcceptStep
  <1>8. CASE TaskExpires
    BY <1>8, TaskExpiresStep
  <1>9. CASE UNCHANGED vars
    BY <1>9 DEF vars, TypeOK, SessionInv, HasSession, Current
  <1> QED  BY <1>1, <1>2, <1>3, <1>4, <1>5, <1>6, <1>7, <1>8, <1>9 DEF Next

\* With one request at a time and heads that fit, the counters of a session
\* stay what they should be, through every send, refill, error and end.
THEOREM SessionInvariant ==
    ASSUME OneAtATime, HeadFits
    PROVE  Spec => [](TypeOK /\ SessionInv)
  <1>1. Init => TypeOK /\ SessionInv
    BY InitHolds
  <1>2. (TypeOK /\ SessionInv) /\ [Next]_vars => (TypeOK /\ SessionInv)'
    BY NextHolds
  <1> QED  BY <1>1, <1>2, PTL DEF Spec

\* A byte of a reply is no error page.
LEMMA ReplyByteIsNoPage ==
    ASSUME NEW from \in Nat, NEW i \in Nat
    PROVE  ReplyByte(from, i) # ErrorByte
  BY ConstantsFit DEF ReplyByte, HeaderByte, ErrorByte

\* A page of one byte, whichever of its places it is in.
LEMMA OneBytePage ==
    ASSUME NEW s \in Seq(Bytes), NEW t \in Seq(Bytes), Len(s) + Len(t) = 1,
           \A i \in 1..Len(s) : s[i] = ErrorByte, \A i \in 1..Len(t) : t[i] = ErrorByte
    PROVE  Len(s \o t) = 1 /\ (s \o t)[1] = ErrorByte /\ s \o t \in Seq(Bytes)
  <1>1. Len(s) \in Nat /\ Len(t) \in Nat
    BY LenProperties
  <1>2. /\ s \o t \in Seq(Bytes) /\ Len(s \o t) = Len(s) + Len(t)
        /\ \A i \in 1..Len(s) + Len(t) :
             (s \o t)[i] = IF i <= Len(s) THEN s[i] ELSE t[i - Len(s)]
    BY ConcatProperties
  <1>3. 1 \in 1..Len(s) + Len(t)
    OBVIOUS
  <1>4. (s \o t)[1] = IF 1 <= Len(s) THEN s[1] ELSE t[1 - Len(s)]
    BY <1>2, <1>3
  <1>5. CASE 1 <= Len(s)
    <2>1. s[1] = ErrorByte
      BY <1>1, <1>5
    <2> QED  BY <1>2, <1>4, <1>5, <2>1
  <1>6. CASE ~(1 <= Len(s))
    <2>1. Len(s) = 0 /\ Len(t) = 1
      <3>1. \A m, n \in Nat : m + n = 1 /\ ~(1 <= m) => m = 0 /\ n = 1
        OBVIOUS
      <3> QED  BY <1>1, <1>6, <3>1
    <2>2. 1 - Len(s) = 1 /\ t[1] = ErrorByte
      BY <2>1
    <2> QED  BY <1>2, <1>4, <1>6, <2>2
  <1> QED  BY <1>5, <1>6

\* What has been sent for a request is part of its reply, or one error page.
LEMMA SentIsReplyOrPage ==
    ASSUME TypeOK, SessionInv
    PROVE  LET sent == received \o conn.send_mbuf
               stream == sent \o (IF HasSession THEN session.buf ELSE <<>>)
           IN  \/ Carries(sent, 0, request.range.pos) /\ Carries(stream, 0, request.range.pos)
               \/ Len(sent) = 1 /\ sent[1] = ErrorByte /\ stream = sent
  <1> DEFINE sent == received \o conn.send_mbuf
             r == request.range
             x == Current
  <1>1. /\ x.conn = conn /\ x.session = session /\ r \in Ranges /\ r.pos \in Nat
        /\ received \in Seq(Bytes) /\ conn.send_mbuf \in Seq(Bytes) /\ Len(received) \in Nat
        /\ Len(conn.send_mbuf) \in Nat
    <2>1. /\ x.conn = conn /\ x.session = session /\ r \in Ranges
          /\ received \in Seq(Bytes) /\ conn \in Conns /\ Len(received) \in Nat
      BY CurrentParts
    <2>2. r.pos \in Nat
      BY <2>1, ConstantsFit DEF Ranges
    <2>3. conn.send_mbuf \in Seq(Bytes)
      BY <2>1 DEF Conns
    <2> QED  BY <2>1, <2>2, <2>3, LenProperties
  <1>2. CASE HasSession /\ Serving(x, Len(received), r) /\ Carries(received, 0, r.pos)
    <2>1. /\ Carries(conn.send_mbuf, 0 + Len(received), r.pos)
          /\ Carries(session.buf, Len(received) + Len(conn.send_mbuf), r.pos)
      BY <1>1, <1>2 DEF Serving, Unsent
    <2>2. /\ sent \in Seq(Bytes) /\ Len(sent) = Len(received) + Len(conn.send_mbuf)
          /\ Carries(sent, 0, r.pos)
      <3> HIDE DEF r
      <3> QED  BY <1>1, <1>2, <2>1, CarriesConcat
    <2> HIDE DEF sent
    <2>3. session.buf \in Seq(Bytes)
      BY <1>1, <1>2, CurrentParts, StateNumbers
    <2>4. Carries(session.buf, 0 + Len(sent), r.pos)
      BY <1>1, <2>1, <2>2
    <2>5. Carries(sent \o session.buf, 0, r.pos)
      <3> HIDE DEF r
      <3> QED  BY <1>1, <2>2, <2>3, <2>4, CarriesConcat
    <2> QED  BY <1>2, <2>2, <2>5 DEF sent
  <1>3. CASE HasSession /\ Refused(x, Len(received)) /\ \A i \in 1..Len(received) : received[i] = ErrorByte
    <2>1. /\ Len(received) + Len(conn.send_mbuf) = 1 /\ session.buf = <<>>
          /\ \A i \in 1..Len(conn.send_mbuf) : conn.send_mbuf[i] = ErrorByte
      BY <1>1, <1>3 DEF Refused, Unsent
    <2>2. Len(sent) = 1 /\ sent[1] = ErrorByte /\ sent \in Seq(Bytes)
      BY <1>1, <1>3, <2>1, OneBytePage
    <2>3. sent \o session.buf = sent
      <3> HIDE DEF sent
      <3> QED  BY <2>1, <2>2, ConcatEmptySeq
    <2> QED  BY <1>3, <2>2, <2>3
  <1>4. CASE ~HasSession
    <2>1. conn.send_mbuf = <<>> /\ (Carries(received, 0, r.pos) \/ received = <<ErrorByte>>)
      BY <1>4 DEF SessionInv, Quiet
    <2>2. sent = received
      BY <1>1, <2>1, ConcatEmptySeq
    <2>3. sent \o <<>> = sent
      BY <1>1, <2>2, ConcatEmptySeq
    <2> QED  BY <1>4, <2>1, <2>2, <2>3
  <1> QED  BY <1>2, <1>3, <1>4 DEF SessionInv, Answering

\* What the client has, what the connection holds and what the session keeps
\* back are, in this order, a head and consecutive bytes of the file from
\* the first one asked for: nothing is sent twice, skipped or overtaken,
\* whatever the sizes of the buffers, of the sends and of what the cache has.
THEOREM RepliesInOrder ==
    ASSUME OneAtATime, HeadFits
    PROVE  Spec => []StreamInOrder
  <1>1. TypeOK /\ SessionInv => StreamInOrder
    <2> SUFFICES ASSUME TypeOK, SessionInv
                 PROVE  StreamInOrder
      OBVIOUS
    <2> DEFINE sent == received \o conn.send_mbuf
               stream == sent \o (IF HasSession THEN session.buf ELSE <<>>)
    <2>1. \/ Carries(stream, 0, request.range.pos)
          \/ Len(stream) = 1 /\ stream[1] = ErrorByte
      BY SentIsReplyOrPage
    <2>2. StreamInOrder = (\A i \in 1..Len(stream) :
                               stream[i] \in {ReplyByte(request.range.pos, i), ErrorByte})
      BY DEF StreamInOrder
    <2> HIDE DEF stream
    <2>3. CASE Carries(stream, 0, request.range.pos)
      <3>1. \A i \in 1..Len(stream) : stream[i] = ReplyByte(request.range.pos, i)
        BY <2>3 DEF Carries
      <3> QED  BY <2>2, <3>1
    <2>4. CASE Len(stream) = 1 /\ stream[1] = ErrorByte
      BY <2>2, <2>4
    <2> QED  BY <2>1, <2>3, <2>4
  <1> QED  BY <1>1, SessionInvariant, PTL

\* An error page is all that is sent for its request: none is put after a
\* head or between bytes of the body, and nothing follows one.
THEOREM PagesAlone ==
    ASSUME OneAtATime, HeadFits
    PROVE  Spec => []ErrorPageAlone
  <1>1. TypeOK /\ SessionInv => ErrorPageAlone
    <2> SUFFICES ASSUME TypeOK, SessionInv
                 PROVE  ErrorPageAlone
      OBVIOUS
    <2> DEFINE sent == received \o conn.send_mbuf
    <2>1. Carries(sent, 0, request.range.pos) \/ Len(sent) = 1
      BY SentIsReplyOrPage
    <2>2. ErrorPageAlone = (\A i \in 1..Len(sent) : sent[i] = ErrorByte => Len(sent) = 1)
      BY DEF ErrorPageAlone
    <2> HIDE DEF sent
    <2>3. CASE Carries(sent, 0, request.range.pos)
      <3>1. request.range.pos \in Nat
        BY CurrentParts, ConstantsFit DEF Ranges
      <3>2. \A i \in 1..Len(sent) : sent[i] = ReplyByte(request.range.pos, 0 + i)
        BY <2>3 DEF Carries
      <3>3. \A i \in 1..Len(sent) : sent[i] # ErrorByte
        BY <3>1, <3>2, ReplyByteIsNoPage
      <3> QED  BY <2>2, <3>3
    <2> QED  BY <2>1, <2>2, <2>3
  <1> QED  BY <1>1, SessionInvariant, PTL

\* A connection that nobody reads holds at most a full buffer above the half
\* at which a session refills it.
THEOREM SendMbufStaysBounded ==
    ASSUME OneAtATime, HeadFits
    PROVE  Spec => []SendMbufBounded
  <1>1. TypeOK /\ SessionInv => SendMbufBounded
    <2> SUFFICES ASSUME TypeOK, SessionInv
                 PROVE  SendMbufBounded
      OBVIOUS
    <2>1. Current.conn = conn /\ Len(received) \in Nat /\ (HasSession => Current \in States)
      BY CurrentParts
    <2>2. CASE HasSession /\ Serving(Current, Len(received), request.range)
      BY <2>1, <2>2 DEF Serving, SendMbufBounded, Unsent
    <2>3. CASE HasSession /\ Refused(Current, Len(received))
      <3>1. Unsent(Current) \in Nat /\ Len(received) + Unsent(Current) = 1
        BY <2>1, <2>3, StateNumbers DEF Refused
      <3>2. Unsent(Current) <= 1
        BY <2>1, <3>1
      <3>3. Unsent(Current) <= LIMIT + LIMIT \div 2
        BY <3>1, <3>2, ConstantsFit
      <3> QED  BY <2>1, <3>3 DEF SendMbufBounded, Unsent
    <2>4. CASE ~HasSession
      <3>1. conn.send_mbuf = <<>> /\ Len(<<>>) = 0
        BY <2>4 DEF SessionInv, Quiet
      <3> QED  BY <3>1, ConstantsFit DEF SendMbufBounded
    <2> QED  BY <2>2, <2>3, <2>4 DEF SessionInv, Answering
  <1> QED  BY <1>1, SessionInvariant, PTL

-----------------------------------------------------------------------------
(* That a session stays in the range it was asked for: no assert of         *)
(* ms_session.c fails, and what the client is given is the reply of module  *)
(* RangeReply.  It rests on the invariant above, and on the ranges being    *)
(* such that the session reads nothing past their end.                      *)

\* A range ends with the file or fits in the buffer beside a head; for any
\* other the session asks for bytes after its end (line 127).
EndsWithReads(r) == r.len = 0 \/ r.pos + r.len = FileSize \/ r.len <= LIMIT - HEADER

RangesEndWithReads == \A r \in Requests : EndsWithReads(r)

\* The bytes of r that a session is to send.
Length(r) == IF r.len = 0 THEN FileSize - r.pos ELSE r.len

\* The session makes no byte after the end of its range, and its len is what
\* it is still to be told sent.
InRange(x, R, r, tsk) ==
    /\ R + Unsent(x) + Kept(x) <= HEADER + Length(r)
    /\ r.len # 0 /\ r.pos + r.len # FileSize => x.session.buf = <<>>
    /\ ~x.conn.closing =>
         /\ x.session.pos + x.session.len = r.pos + (IF tsk.filesize = 0 THEN r.len ELSE Length(r))
         /\ tsk.filesize # 0 => x.session.len > 0
    /\ x.failed = {}

\* What keeps the reply in its range, when RangesEndWithReads.
RangeInv ==
    /\ HasSession => InRange(Current, Len(received), request.range, task)
    /\ Len(received) <= HEADER + Length(request.range)
    /\ failed = {}

-----------------------------------------------------------------------------
(* Lengths.                                                                *)

\* What InRange leaves when a transfer has read and not yet sent.
Bounded(x, R, r) ==
    /\ R + Unsent(x) + Kept(x) <= HEADER + Length(r)
    /\ x.session.pos + x.session.len = r.pos + Length(r) /\ x.session.len > 0
    /\ x.failed = {}

\* What a range is: a place in the file and a length that fits.
LEMMA RangeNumbers ==
    ASSUME NEW r \in Ranges
    PROVE  /\ r.pos \in Nat /\ r.len \in Nat /\ Length(r) \in Nat /\ Length(r) > 0
           /\ r.len # 0 => Length(r) = r.len
           /\ r.len = 0 => r.pos + Length(r) = FileSize
  BY ConstantsFit DEF Ranges, Length

\* What size_t makes of a number is no more than the number.
LEMMA SizeTNoMore ==
    ASSUME NEW n \in Nat
    PROVE  SizeT(n) \in Nat /\ SizeT(n) <= n
  <1>1. SizeT(n) \in 0..SIZE - 1
    BY SizeTRange
  <1>2. CASE n < SIZE
    <2>1. n \in 0..SIZE - 1
      BY <1>2, ConstantsFit
    <2> QED  BY <1>1, <2>1, SizeTBelow, ConstantsFit
  <1>3. CASE n >= SIZE
    BY <1>1, <1>3, ConstantsFit
  <1> QED  BY <1>2, <1>3, ConstantsFit

\* Where a session that transfers is in its range.
LEMMA CountsInRange ==
    ASSUME NEW x \in States, NEW R \in Nat, NEW r \in Ranges, Counts(x, R, r),
           x.session.pos + x.session.len = r.pos + Length(r)
    PROVE  /\ x.session.header_sending <= HEADER
           /\ x.session.sending + BodyIn(R) = R + Unsent(x) - HEADER
           /\ x.session.pos + x.session.sending = r.pos + (R + Unsent(x)) - HEADER
           /\ x.session.len = Length(r) - BodyIn(R)
           /\ x.session.len - x.session.sending = Length(r) + HEADER - (R + Unsent(x))
  <1>1. /\ Unsent(x) \in Nat /\ x.session.sending \in Nat /\ x.session.header_sending \in Nat
        /\ x.session.pos \in Nat /\ x.session.len \in Int /\ HEADER \in Nat
    BY StateNumbers, ConstantsFit
  <1>2. r.pos \in Nat /\ Length(r) \in Nat
    BY RangeNumbers
  <1>3. /\ x.session.header_sending = HeadLeft(R)
        /\ x.session.sending + x.session.header_sending = Unsent(x)
        /\ x.session.pos = r.pos + BodyIn(R)
    BY DEF Counts
  <1>4. HeadLeft(R) \in Nat /\ BodyIn(R) \in Nat /\ HeadLeft(R) <= HEADER
        /\ BodyIn(R) - HeadLeft(R) = R - HEADER
    BY <1>1 DEF HeadLeft, BodyIn
  <1> HIDE DEF HeadLeft, BodyIn
  <1>5. x.session.sending + BodyIn(R) = R + Unsent(x) - HEADER
    BY <1>1, <1>3, <1>4
  <1>6. x.session.len = Length(r) - BodyIn(R)
    BY <1>1, <1>2, <1>3, <1>4
  <1>7. x.session.pos + x.session.sending = r.pos + (R + Unsent(x)) - HEADER
    BY <1>1, <1>2, <1>3, <1>4, <1>5
  <1>8. x.session.len - x.session.sending = Length(r) + HEADER - (R + Unsent(x))
    BY <1>1, <1>2, <1>4, <1>5, <1>6
  <1> QED  BY <1>3, <1>4, <1>5, <1>6, <1>7, <1>8

\* What a refill asks for ends with the range, and for a short range fits in
\* the buffer beside the head.
LEMMA WantedInRange ==
    ASSUME NEW x \in States, NEW R \in Nat, NEW r \in Ranges, EndsWithReads(r),
           Active(x, R, r), x.conn.header_sent, Bounded(x, R, r),
           r.len # 0 /\ r.pos + r.len # FileSize => Kept(x) = 0
    PROVE  /\ Wanted(x) \in Int
           /\ R + Unsent(x) + Kept(x) + Wanted(x) <= HEADER + Length(r)
           /\ x.session.req_len = 0 \/ ReadFrom(x) + Wanted(x) <= x.session.req_pos + x.session.req_len
           /\ r.len # 0 /\ r.pos + r.len # FileSize => Wanted(x) + x.session.header_sending <= LIMIT
  <1> DEFINE U == Unsent(x)
             K == Kept(x)
             at == R + U + K
             W == Wanted(x)
             L == Length(r)
             h == x.session.header_sending
             d == x.session.len - x.session.sending
  <1>1. /\ U \in Nat /\ K \in Nat /\ x.session.sending \in Nat /\ h \in Nat
        /\ x.session.len \in Int /\ HEADER \in Nat /\ LIMIT \in Nat /\ FileSize \in Nat
    BY StateNumbers, ConstantsFit
  <1>2. /\ r.pos \in Nat /\ r.len \in Nat /\ L \in Nat
        /\ (r.len # 0 => L = r.len) /\ (r.len = 0 => r.pos + L = FileSize)
    BY RangeNumbers
  <1>3. ReadFrom(x) = r.pos + at - HEADER /\ at >= HEADER /\ at \in Nat
    BY ReadFromContinues
  <1>4. h <= HEADER /\ d = L + HEADER - (R + U)
    <2>1. Counts(x, R, r) /\ x.session.pos + x.session.len = r.pos + Length(r)
      BY DEF Active, Serving, Bounded
    <2> QED  BY <2>1, CountsInRange
  <1>5. x.session.req_pos = r.pos /\ x.session.req_len = r.len /\ at <= HEADER + L
    BY DEF Active, Serving, Bounded
  <1>6. d \in Int /\ SizeT(d) \in Int /\ (d \in Nat => SizeT(d) <= d)
    <2>1. d \in Int
      BY <1>1
    <2> HIDE DEF d
    <2> QED  BY <2>1, SizeTRange, SizeTNoMore, ConstantsFit
  <1>7. W \in Int /\ W <= SizeT(d) /\ W <= FileSize - ReadFrom(x)
    <2>1. W = Lesser(Lesser(LIMIT - K, SizeT(d)), FileSize - ReadFrom(x))
      BY DEF Wanted, Kept
    <2>2. LIMIT - K \in Int /\ FileSize - ReadFrom(x) \in Int
      BY <1>1, <1>2, <1>3
    <2> HIDE DEF W, d, K
    <2> QED  BY <1>6, <2>1, <2>2 DEF Lesser
  <1> HIDE DEF U, K, W, L, h, d
  <1>8. CASE r.len = 0 \/ r.pos + r.len = FileSize
    <2>1. r.pos + L = FileSize
      BY <1>2, <1>8
    <2>2. at + W <= HEADER + L
      BY <1>1, <1>2, <1>3, <1>7, <2>1
    <2>3. ReadFrom(x) + W <= r.pos + L
      BY <1>1, <1>2, <1>3, <1>7, <2>2
    <2> QED  BY <1>2, <1>5, <1>7, <1>8, <2>2, <2>3 DEF U, K, W, L, h
  <1>9. CASE r.len # 0 /\ r.pos + r.len # FileSize
    <2>1. K = 0 /\ L = r.len /\ r.len <= LIMIT - HEADER
      BY <1>2, <1>9 DEF EndsWithReads, K
    <2>2. d \in Nat /\ d = L + HEADER - at
      BY <1>1, <1>2, <1>3, <1>4, <1>5, <2>1
    <2>3. W <= L + HEADER - at
      BY <1>6, <1>7, <2>2
    <2>4. at + W <= HEADER + L /\ ReadFrom(x) + W <= r.pos + L
      BY <1>1, <1>2, <1>3, <1>7, <2>3
    <2>5. W + h <= LIMIT
      BY <1>1, <1>2, <1>3, <1>4, <1>7, <2>1, <2>3
    <2> QED  BY <1>5, <1>7, <2>1, <2>4, <2>5 DEF U, K, W, L, h
  <1> QED  BY <1>8, <1>9

-----------------------------------------------------------------------------
(* The functions of the session.                                           *)

\* A transfer adds to the reply what the range has and no more, and no
\* assert fails in it.
LEMMA RefillInRange ==
    ASSUME NEW x \in States, NEW R \in Nat, NEW r \in Ranges, EndsWithReads(r), HeadFits,
           Active(x, R, r), x.conn.header_sent, x.session.sending <= LIMIT \div 2,
           Bounded(x, R, r), r.len # 0 /\ r.pos + r.len # FileSize => Kept(x) = 0,
           NEW w \in ReadBody(x), NEW z, z = SendBody(w)
    PROVE  /\ z \in States /\ Active(z, R, r) /\ Bounded(z, R, r)
           /\ r.len # 0 /\ r.pos + r.len # FileSize => z.session.buf = <<>>
  <1> DEFINE short == r.len # 0 /\ r.pos + r.len # FileSize
  <1>1. /\ w \in States /\ Active(w, R, r) /\ w.conn = x.conn
        /\ w.session.sending = x.session.sending /\ w.session.pos = x.session.pos
        /\ w.session.len = x.session.len /\ w.session.header_sending = x.session.header_sending
        /\ \E n \in 0..Wanted(x) : Kept(w) = Kept(x) + n
        /\ (x.session.req_len = 0 \/ ReadFrom(x) + Wanted(x) <= x.session.req_pos + x.session.req_len)
             => w.failed = x.failed
    BY ReadBodyServes
  <1>2. /\ Wanted(x) \in Int
        /\ R + Unsent(x) + Kept(x) + Wanted(x) <= HEADER + Length(r)
        /\ x.session.req_len = 0 \/ ReadFrom(x) + Wanted(x) <= x.session.req_pos + x.session.req_len
        /\ short => Wanted(x) + x.session.header_sending <= LIMIT
    BY WantedInRange
  <1>3. PICK n \in 0..Wanted(x) : Kept(w) = Kept(x) + n
    BY <1>1
  <1>4. /\ Unsent(w) = Unsent(x) /\ w.failed = {} /\ w.conn.header_sent
        /\ w.session.sending <= LIMIT \div 2
    BY <1>1, <1>2 DEF Unsent, Bounded
  <1>n. /\ Unsent(x) \in Nat /\ Kept(x) \in Nat /\ n \in Nat /\ n <= Wanted(x)
        /\ w.session.header_sending \in Nat /\ w.session.sending \in Nat /\ w.session.pos \in Nat
        /\ HEADER \in Nat /\ LIMIT \in Nat /\ r.pos \in Nat /\ r.len \in Nat /\ Length(r) \in Nat
        /\ (r.len # 0 => Length(r) = r.len)
    BY <1>1, <1>2, StateNumbers, RangeNumbers, ConstantsFit
  <1>5. /\ z \in States /\ Active(z, R, r)
        /\ Unsent(z) = Unsent(w) + Portion(w) /\ Kept(z) = Kept(w) - Portion(w)
        /\ z.session.pos = w.session.pos /\ z.session.len = w.session.len
        /\ (\/ w.session.req_len = 0
            \/ w.session.pos + w.session.sending + Portion(w) <= w.session.req_pos + w.session.req_len)
             => z.failed = w.failed
    BY <1>1, <1>4, SendBodyServes
  <1>6. Portion(w) \in Nat /\ Portion(w) <= Kept(w) /\ Kept(w) \in Nat
    BY <1>1, <1>3, <1>4, <1>n, PortionBounds
  <1>7. R + Unsent(w) + Kept(w) <= HEADER + Length(r)
    BY <1>2, <1>3, <1>4, <1>n
  <1>8. R + Unsent(z) + Kept(z) <= HEADER + Length(r)
    BY <1>4, <1>5, <1>6, <1>7, <1>n
  <1>9. z.failed = {}
    <2>1. /\ w.session.pos + w.session.sending = r.pos + (R + Unsent(w)) - HEADER
          /\ w.session.req_pos = r.pos /\ w.session.req_len = r.len
      <3>1. Counts(w, R, r) /\ w.session.pos + w.session.len = r.pos + Length(r)
        BY <1>1, <1>4 DEF Active, Serving, Bounded
      <3>2. w.session.pos + w.session.sending = r.pos + (R + Unsent(w)) - HEADER
        BY <1>1, <3>1, CountsInRange
      <3> QED  BY <1>1, <3>2 DEF Active, Serving
    <2>2. r.len # 0 => w.session.pos + w.session.sending + Portion(w) <= r.pos + r.len
      BY <1>4, <1>6, <1>7, <1>n, <2>1
    <2> QED  BY <1>4, <1>5, <2>1, <2>2
  <1>10. ASSUME short  PROVE z.session.buf = <<>>
    <2>1. Kept(w) + w.session.header_sending <= LIMIT
      BY <1>1, <1>2, <1>3, <1>10, <1>n
    <2>2. ~TooMuch(w)
      BY SMTT(30), <1>6, <1>n, <2>1 DEF TooMuch, Kept
    <2>3. Portion(w) = Kept(w)
      BY <2>2 DEF Portion, Kept
    <2>4. z.session.buf \in Seq(Bytes) /\ Len(z.session.buf) = 0
      <3>1. z.session.buf \in Seq(Bytes)
        BY <1>5, StateNumbers
      <3>2. Kept(z) = 0
        BY <1>5, <1>6, <2>3
      <3> QED  BY <3>1, <3>2 DEF Kept
    <2> QED  BY <2>4, EmptySeq
  <1>11. Bounded(z, R, r)
    BY <1>1, <1>5, <1>8, <1>9 DEF Bounded
  <1> QED  BY <1>5, <1>10, <1>11

\* try_transfer_data() stays in the range.
LEMMA TransferInRange ==
    ASSUME NEW x \in States, NEW R \in Nat, NEW r \in Ranges, NEW tsk, EndsWithReads(r), HeadFits,
           Serving(x, R, r), ~x.conn.closing, InRange(x, R, r, tsk),
           tsk.filesize = 0 => ~x.conn.header_sent, NEW z \in TryTransfer(x, tsk)
    PROVE  InRange(z, R, r, tsk)
  <1> DEFINE ok == x.session.sending + x.session.header_sending = Len(x.conn.send_mbuf)
             v == SendHead(x)
  <1>1. ok
    <2>1. CASE ~x.conn.header_sent
      <3>1. x.session.sending = 0 /\ x.session.header_sending = 0 /\ x.conn.send_mbuf = <<>>
        BY <2>1 DEF Serving, Fresh
      <3> QED  BY <3>1
    <2>2. CASE x.conn.header_sent
      <3>1. x.session.len > 0 /\ x.session.len \in Int
        BY <2>2, StateNumbers DEF InRange
      <3>2. Counts(x, R, r)
        BY <2>2, <3>1 DEF Serving
      <3> QED  BY <3>2 DEF Counts, Unsent
    <2> QED  BY <2>1, <2>2
  <1>2. Assert(x, 59, ok) = x
    BY <1>1 DEF Assert
  <1>3. z \in (IF x.session.sending > LIMIT \div 2 \/ x.session.len = 0 \/ tsk.filesize = 0
               THEN {x}
               ELSE IF x.session.method = "HEAD"
               THEN {[v EXCEPT !.conn.closing = TRUE]}
               ELSE { SendBody(w) : w \in UNION { ReadBody(w) : w \in {v} } })
    <2> DEFINE y == Assert(x, 59, ok)
    <2>1. z \in (IF x.session.sending > LIMIT \div 2 \/ x.session.len = 0 \/ tsk.filesize = 0
                 THEN {y}
                 ELSE IF x.session.method = "HEAD"
                 THEN {[SendHead(y) EXCEPT !.conn.closing = TRUE]}
                 ELSE { SendBody(w) : w \in UNION { ReadBody(w) : w \in {SendHead(y)} } })
      BY DEF TryTransfer
    <2>2. y = x
      BY <1>2
    <2> HIDE DEF y
    <2> QED  BY <2>1, <2>2
  <1> HIDE DEF ok
  <1>4. CASE x.session.sending > LIMIT \div 2 \/ x.session.len = 0 \/ tsk.filesize = 0
    BY <1>3, <1>4
  <1>5. CASE ~(x.session.sending > LIMIT \div 2 \/ x.session.len = 0 \/ tsk.filesize = 0)
    <2>1. Active(x, R, r) /\ x.session.sending <= LIMIT \div 2 /\ tsk.filesize # 0
      <3>1. x.session.sending \in Nat
        BY StateNumbers
      <3> QED  BY <1>5, <3>1, ConstantsFit DEF Active
    <2>2. /\ v \in States /\ Active(v, R, r) /\ v.conn.header_sent
          /\ v.failed = x.failed /\ v.session.len = x.session.len /\ v.session.pos = x.session.pos
          /\ v.session.sending = x.session.sending /\ v.session.buf = x.session.buf
          /\ v.conn.open = x.conn.open
          /\ v.conn.send_mbuf = IF x.conn.header_sent THEN x.conn.send_mbuf ELSE HeadBytes(HEADER)
      BY <2>1, SendHeadServes
    <2> HIDE DEF v
    <2>3. Bounded(v, R, r)
      <3>1. R + Unsent(v) + Kept(v) <= HEADER + Length(r)
        <4>1. CASE x.conn.header_sent
          <5>1. Unsent(v) = Unsent(x) /\ Kept(v) = Kept(x)
            BY <2>2, <4>1 DEF Unsent, Kept
          <5> QED  BY <5>1 DEF InRange
        <4>2. CASE ~x.conn.header_sent
          <5>1. R = 0 /\ Kept(v) = 0
            BY <2>2, <4>2 DEF Serving, Fresh, Kept
          <5>2. Unsent(v) = HEADER
            BY <2>2, <4>2, CarriesHead, RangeNumbers DEF Unsent
          <5>3. Length(r) \in Nat /\ HEADER \in Nat
            BY RangeNumbers, ConstantsFit
          <5> QED  BY <5>1, <5>2, <5>3
        <4> QED  BY <4>1, <4>2
      <3>2. x.session.pos + x.session.len = r.pos + Length(r) /\ x.session.len > 0 /\ x.failed = {}
        BY <2>1 DEF InRange
      <3> QED  BY <2>2, <3>1, <3>2 DEF Bounded
    <2>4. CASE x.session.method = "HEAD"
      <3>1. z = [v EXCEPT !.conn.closing = TRUE]
        BY <1>3, <1>5, <2>4
      <3>2. /\ z \in States /\ z.session = v.session /\ z.failed = v.failed
            /\ z.conn.closing /\ z.conn.send_mbuf = v.conn.send_mbuf
        BY <2>2, <3>1, SetClosing
      <3>3. Unsent(z) = Unsent(v) /\ Kept(z) = Kept(v)
        BY <3>2 DEF Unsent, Kept
      <3> QED  BY <2>2, <2>3, <3>2, <3>3 DEF Bounded, InRange
    <2>5. CASE x.session.method # "HEAD"
      <3>1. PICK w \in ReadBody(v) : z = SendBody(w)
        BY <1>3, <1>5, <2>5
      <3>2. r.len # 0 /\ r.pos + r.len # FileSize => Kept(v) = 0
        <4>1. r.len # 0 /\ r.pos + r.len # FileSize => v.session.buf = <<>>
          BY <2>2 DEF InRange
        <4> QED  BY <4>1 DEF Kept
      <3>3. v.session.sending <= LIMIT \div 2
        BY <2>1, <2>2
      <3>4. /\ Active(z, R, r) /\ Bounded(z, R, r)
            /\ r.len # 0 /\ r.pos + r.len # FileSize => z.session.buf = <<>>
        BY <2>2, <2>3, <3>1, <3>2, <3>3, RefillInRange
      <3> QED  BY <2>1, <3>4 DEF Bounded, InRange, Active
    <2> QED  BY <2>4, <2>5
  <1> QED  BY <1>4, <1>5

\* Closing a session adds at most the error page.
LEMMA CloseIfNeedInRange ==
    ASSUME NEW x \in States, NEW R \in Nat, NEW r \in Ranges, NEW tsk, NEW t,
           ~x.conn.header_sent /\ ~x.conn.closing => Fresh(x, R, r),
           InRange(x, R, r, t), NEW y, y = CloseIfNeed(x, tsk)
    PROVE  y \in States /\ InRange(y, R, r, t)
  <1> DEFINE quiet == ~(tsk.code = 0 \/ x.session.sending > 0 \/ x.session.header_sending > 0)
  <1>1. CASE ~quiet
    BY <1>1 DEF CloseIfNeed
  <1>2. CASE quiet /\ (x.conn.header_sent \/ x.conn.closing)
    <2>1. y = [x EXCEPT !.conn.closing = TRUE]
      BY <1>2 DEF CloseIfNeed
    <2>2. /\ y \in States /\ y.session = x.session /\ y.failed = x.failed
          /\ y.conn.closing /\ y.conn.send_mbuf = x.conn.send_mbuf
      BY <2>1, SetClosing
    <2> QED  BY <2>2 DEF InRange, Unsent, Kept
  <1>3. CASE quiet /\ ~(x.conn.header_sent \/ x.conn.closing)
    <2>1. Fresh(x, R, r) /\ x.conn \in Conns
      BY <1>3, StateParts
    <2>2. y \in States /\ y.conn.closing /\ y.conn.send_mbuf = <<ErrorByte>>
          /\ y.session = x.session /\ y.failed = x.failed
      <3> DEFINE m == Append(x.conn.send_mbuf, ErrorByte)
                 c == [x.conn EXCEPT !.closing = TRUE, !.send_mbuf = m]
      <3>1. y = With(x, c, x.session)
        BY <1>3 DEF CloseIfNeed, With, States, Conns
      <3>2. /\ y \in States /\ y.conn.closing
            /\ y.conn.send_mbuf = Append(x.conn.send_mbuf, ErrorByte)
            /\ y.session = x.session /\ y.failed = x.failed
        <4>1. m \in Seq(Bytes) /\ x.session \in Sessions
          BY StateParts, StateNumbers, ConstantsFit DEF Bytes, ErrorByte
        <4>2. c \in Conns /\ c.closing /\ c.send_mbuf = m
          <5> HIDE DEF m
          <5> QED  BY <2>1, <4>1 DEF Conns
        <4> HIDE DEF c
        <4>3. y \in States /\ y.conn = c /\ y.session = x.session /\ y.failed = x.failed
          BY <3>1, <4>1, <4>2, StateWith
        <4> QED  BY <4>2, <4>3
      <3>3. Append(<<>>, ErrorByte) = <<ErrorByte>>
        OBVIOUS
      <3> QED  BY <2>1, <3>2, <3>3 DEF Fresh
    <2>3. Unsent(y) = 1 /\ Kept(y) = 0 /\ R = 0
      BY <2>1, <2>2 DEF Fresh, Unsent, Kept
    <2>4. R + Unsent(y) + Kept(y) <= HEADER + Length(r)
      BY <2>3, RangeNumbers, ConstantsFit
    <2> QED  BY <2>2, <2>4 DEF InRange
  <1> QED  BY <1>1, <1>2, <1>3

\* What is sent is taken from what is left of the range; all of it has been
\* sent when nothing is left.
LEMMA CountedInRange ==
    ASSUME NEW x \in States, NEW R \in Nat, NEW r \in Ranges, NEW k \in 1..Unsent(x), NEW tsk,
           Serving(x, R, r), ~x.conn.closing, InRange(x, R, r, tsk), tsk.filesize # 0
    PROVE  LET y == Counted(Drained(x, k), k) IN
           /\ x.session.len # 0 /\ y.failed = {}
           /\ y.session.len = 0 \/ InRange(y, R + k, r, tsk)
           /\ y.session.len = 0 => y.session.sending = 0 /\ R + k = HEADER + Length(r)
  <1> DEFINE y == Counted(Drained(x, k), k)
             L == Length(r)
             d == BodyIn(R + k) - BodyIn(R)
  <1>1. /\ y \in States /\ ~y.conn.closing
        /\ Unsent(y) = Unsent(x) - k /\ Kept(y) = Kept(x)
        /\ x.session.len # 0 =>
             /\ Counts(y, R + k, r)
             /\ y.session.len = (IF x.session.len > 0 THEN x.session.len - d ELSE x.session.len)
             /\ d <= x.session.sending
             /\ (x.session.len > 0 => x.session.len >= d) => y.failed = x.failed
    BY CountedServes
  <1>2. x.session.pos + x.session.len = r.pos + L /\ x.session.len > 0 /\ x.failed = {}
        /\ R + Unsent(x) + Kept(x) <= HEADER + L
    BY DEF InRange
  <1>n. /\ Unsent(x) \in Nat /\ Kept(x) \in Nat /\ x.session.sending \in Nat
        /\ x.session.len \in Int /\ x.session.pos \in Nat
        /\ Unsent(y) \in Nat /\ y.session.sending \in Nat /\ y.session.len \in Int
        /\ y.session.pos \in Nat /\ HEADER \in Nat /\ L \in Nat /\ L > 0 /\ r.pos \in Nat
        /\ k \in Nat /\ k >= 1 /\ R + k \in Nat
    <2>1. /\ Unsent(x) \in Nat /\ Kept(x) \in Nat /\ x.session.sending \in Nat
          /\ x.session.len \in Int /\ x.session.pos \in Nat
      BY StateNumbers
    <2>2. /\ Unsent(y) \in Nat /\ y.session.sending \in Nat /\ y.session.len \in Int
          /\ y.session.pos \in Nat
      BY <1>1, StateNumbers
    <2>3. HEADER \in Nat /\ L \in Nat /\ L > 0 /\ r.pos \in Nat
      BY RangeNumbers, ConstantsFit
    <2>4. k \in Nat /\ k >= 1 /\ R + k \in Nat
      BY <2>1
    <2> QED  BY <2>1, <2>2, <2>3, <2>4
  <1>3. Counts(x, R, r) /\ Counts(y, R + k, r)
    <2>1. x.conn.header_sent
      <3>1. ~x.conn.header_sent => Unsent(x) = 0
        BY DEF Serving, Fresh, Unsent
      <3> QED  BY <1>n, <3>1
    <2> QED  BY <1>1, <1>2, <1>n, <2>1 DEF Serving
  <1> HIDE DEF y, L
  <1>4. x.session.len - x.session.sending = L + HEADER - (R + Unsent(x))
    BY <1>2, <1>3, CountsInRange DEF L
  <1>5. BodyIn(R) \in Nat /\ BodyIn(R + k) \in Nat
    BY <1>n DEF BodyIn
  <1>6. /\ x.session.len >= d /\ y.failed = {} /\ y.session.len = x.session.len - d
        /\ y.session.len >= 0
    BY <1>1, <1>2, <1>4, <1>5, <1>n
  <1>7. y.session.pos + y.session.len = r.pos + L
    BY <1>2, <1>3, <1>5, <1>6, <1>n DEF Counts
  <1>8. R + k + Unsent(y) + Kept(y) <= HEADER + L
    BY <1>1, <1>2, <1>n
  <1>9. r.len # 0 /\ r.pos + r.len # FileSize => y.session.buf = <<>>
    <2>1. r.len # 0 /\ r.pos + r.len # FileSize => Kept(x) = 0
      BY DEF InRange, Kept
    <2>2. y.session.buf \in Seq(Bytes) /\ Len(y.session.buf) = Kept(x)
      BY <1>1, StateNumbers DEF Kept
    <2> QED  BY <2>1, <2>2, EmptySeq
  <1>10. y.session.len # 0 => InRange(y, R + k, r, tsk)
    BY <1>6, <1>7, <1>8, <1>9, <1>n DEF InRange, L
  <1>11. ASSUME y.session.len = 0  PROVE y.session.sending = 0 /\ R + k = HEADER + L
    <2>1. /\ y.session.len = L - BodyIn(R + k)
          /\ y.session.len - y.session.sending = L + HEADER - (R + k + Unsent(y))
      BY <1>1, <1>3, <1>7, <1>n, CountsInRange DEF L
    <2>2. R + k = HEADER + L
      BY <1>11, <1>n, <2>1 DEF BodyIn
    <2>3. Unsent(y) = 0
      <3>1. Kept(y) \in Nat
        BY <1>1, <1>n
      <3> QED  BY <1>8, <1>n, <2>2, <3>1
    <2> QED  BY <1>11, <1>n, <2>1, <2>2, <2>3
  <1> QED  BY <1>2, <1>6, <1>10, <1>11, <1>n DEF y, L

\* A transfer and then the look at the task's error.
LEMMA TransferThenCloseInRange ==
    ASSUME NEW x \in States, NEW R \in Nat, NEW r \in Ranges, NEW tsk, EndsWithReads(r), HeadFits,
           Serving(x, R, r), ~x.conn.closing, InRange(x, R, r, tsk),
           tsk.filesize = 0 => ~x.conn.header_sent, NEW z \in TransferThenClose(x, tsk)
    PROVE  z \in States /\ InRange(z, R, r, tsk)
  <1>1. PICK y \in TryTransfer(x, tsk) : z = CloseIfNeed(y, tsk)
    BY DEF TransferThenClose
  <1>2. y \in States /\ Serving(y, R, r) /\ InRange(y, R, r, tsk)
    BY <1>1, TransferServes, TransferInRange
  <1>3. ~y.conn.header_sent /\ ~y.conn.closing => Fresh(y, R, r)
    BY <1>2 DEF Serving
  <1>4. z \in States
    BY <1>1, <1>2, CloseIfNeedServes
  <1> QED  BY <1>1, <1>2, <1>3, <1>4, CloseIfNeedInRange

\* A send keeps the reply in its range, and a session ends with all of it.
LEMMA OnSendInRange ==
    ASSUME NEW x \in States, NEW R \in Nat, NEW r \in Ranges, NEW k \in 1..Unsent(x), NEW tsk,
           EndsWithReads(r), HeadFits, tsk.filesize # 0,
           Serving(x, R, r), InRange(x, R, r, tsk), NEW z \in OnSend(Drained(x, k), tsk, k)
    PROVE  \/ z \in States /\ InRange(z, R + k, r, tsk)
           \/ z.session = NoSession /\ z.failed = {} /\ R + k = HEADER + Length(r)
  <1> DEFINE w == Drained(x, k)
             y == Counted(w, k)
  <1>n. k \in Nat /\ k \in 0..Unsent(x) /\ R + k \in Nat /\ r.pos \in Nat
        /\ Unsent(x) \in Nat /\ Kept(x) \in Nat
    BY StateNumbers, RangeNumbers
  <1>1. /\ w \in States /\ w.session = x.session /\ w.failed = x.failed
        /\ w.conn.closing = x.conn.closing
        /\ Unsent(w) = Unsent(x) - k /\ Kept(w) = Kept(x)
    <2>1. Carries(x.conn.send_mbuf, R, r.pos)
      BY DEF Serving
    <2> QED  BY <1>n, <2>1, DrainedCarries
  <1>2. CASE x.conn.closing
    <2>1. z = w
      <3> HIDE DEF w
      <3>1. OnSend(w, tsk, k) = {w}
        BY <1>1, <1>2 DEF OnSend
      <3>2. z \in OnSend(w, tsk, k)
        BY DEF w
      <3> QED  BY <3>1, <3>2
    <2> HIDE DEF w
    <2>2. R + k + Unsent(w) + Kept(w) = R + Unsent(x) + Kept(x)
      BY <1>n, <1>1
    <2>3. InRange(w, R + k, r, tsk)
      BY <1>1, <1>2, <2>2 DEF InRange
    <2> QED  BY <1>1, <2>1, <2>3
  <1>3. CASE ~x.conn.closing
    <2>1. /\ x.session.len # 0 /\ y.failed = {}
          /\ y.session.len = 0 \/ InRange(y, R + k, r, tsk)
          /\ y.session.len = 0 => y.session.sending = 0 /\ R + k = HEADER + Length(r)
      BY <1>3, CountedInRange
    <2>2. y \in States /\ Serving(y, R + k, r) /\ ~y.conn.closing
      BY <1>3, CountedServes
    <2>3. z \in (IF y.session.len = 0 /\ y.session.sending = 0
                 THEN {[y EXCEPT !.session = NoSession]}
                 ELSE TransferThenClose(y, tsk))
      <3> HIDE DEF w, y
      <3>1. OnSend(w, tsk, k) =
              UNION { IF w.session.len = 0 THEN {v}
                      ELSE IF v.session.len = 0 /\ v.session.sending = 0
                      THEN {[v EXCEPT !.session = NoSession]}
                      ELSE TransferThenClose(v, tsk) : v \in {Counted(w, k)} }
        BY <1>1, <1>3 DEF OnSend
      <3>2. z \in OnSend(w, tsk, k)
        BY DEF w
      <3> QED  BY <1>1, <2>1, <3>1, <3>2 DEF y
    <2> HIDE DEF y
    <2>4. CASE y.session.len = 0
      <3>1. z = [y EXCEPT !.session = NoSession]
        BY <2>1, <2>3, <2>4
      <3>2. z.session = NoSession /\ z.failed = y.failed
        BY <2>2, <3>1 DEF States
      <3> QED  BY <2>1, <2>4, <3>2
    <2>5. CASE y.session.len # 0
      <3>1. z \in TransferThenClose(y, tsk)
        BY <2>3, <2>5
      <3>2. z \in States /\ InRange(z, R + k, r, tsk)
        BY <1>n, <2>1, <2>2, <2>5, <3>1, TransferThenCloseInRange
      <3> QED  BY <3>2
    <2> QED  BY <2>4, <2>5
  <1> QED  BY <1>2, <1>3

-----------------------------------------------------------------------------
(* The actions.                                                            *)

\* A session that becomes a state in its range keeps the client in it too,
\* and there is still a session.
LEMMA BecomesInRange ==
    ASSUME TypeOK', NEW x \in States, conn' = x.conn, session' = x.session, failed' = x.failed,
           InRange(x, Len(received'), request'.range, task')
    PROVE  RangeInv' /\ HasSession'
  <1>1. Current' = x
    BY StateParts DEF Current
  <1>2. Unsent(x) \in Nat /\ Kept(x) \in Nat
    BY StateNumbers
  <1>3. Len(received') \in Nat /\ request'.range \in Ranges
    <2>1. received' \in Seq(Bytes) /\ request'.range \in Requests
      BY DEF TypeOK
    <2> QED  BY <2>1, SessionAssumption, LenProperties DEF Ranges
  <1>4. Length(request'.range) \in Nat /\ HEADER \in Nat
    BY <1>3, RangeNumbers, ConstantsFit
  <1>5. Len(received') <= HEADER + Length(request'.range)
    BY <1>2, <1>3, <1>4 DEF InRange
  <1>6. x.session # NoSession
    BY StateParts DEF Sessions, NoSession
  <1> QED  BY <1>1, <1>5, <1>6 DEF RangeInv, InRange, HasSession

\* Request starts a range, or a page.
LEMMA RequestInRange ==
    ASSUME TypeOK, SessionInv, RangeInv, TypeOK', OneAtATime, HeadFits, RangesEndWithReads,
           NEW r \in Requests, NEW m \in Methods, Request(r, m)
    PROVE  RangeInv' /\ HasSession'
  <1> DEFINE c == [conn EXCEPT !.header_sent = FALSE]
             l == IF r.len = 0 /\ task.filesize > 0 THEN task.filesize - r.pos ELSE r.len
             s == Open(r, m, task)
             x == [Current EXCEPT !.conn.header_sent = FALSE, !.session = s]
  <1>0. ~HasSession /\ ~conn.closing /\ conn.send_mbuf = <<>> /\ conn.open
    BY DEF Request, OneAtATime
  <1>1. /\ conn \in Conns /\ failed = {} /\ r \in Ranges /\ EndsWithReads(r)
        /\ task.filesize \in {0, FileSize}
    BY CurrentParts, SessionAssumption DEF Ranges, RangeInv, RangesEndWithReads
  <1>2. /\ c \in Conns /\ c.open = conn.open /\ ~c.header_sent /\ ~c.closing /\ c.send_mbuf = <<>>
    BY <1>0, <1>1 DEF Conns
  <1>l. /\ l \in Int
        /\ r.pos + l = r.pos + (IF task.filesize = 0 THEN r.len ELSE Length(r))
        /\ task.filesize # 0 => l > 0
    BY <1>1, RangeNumbers, ConstantsFit DEF Ranges, Length
  <1>3. /\ s \in Sessions /\ s.req_pos = r.pos /\ s.req_len = r.len /\ s.buf = <<>>
        /\ s.pos = r.pos /\ s.sending = 0 /\ s.header_sending = 0 /\ s.len = l
    <2>1. r.pos \in Nat /\ r.len \in Nat /\ 0 \in 0..SIZE - 1
      BY <1>1, ConstantsFit, RangeNumbers
    <2>2. m \in {"GET", "HEAD"} /\ <<>> \in Seq(Bytes)
      BY SessionAssumption
    <2>3. s = [method |-> m, pos |-> r.pos, len |-> l, req_pos |-> r.pos, req_len |-> r.len,
               sending |-> 0, header_sending |-> 0, buf |-> <<>>]
      BY DEF Open
    <2> HIDE DEF l, s
    <2> QED  BY <1>l, <2>1, <2>2, <2>3 DEF Sessions
  <1> HIDE DEF s, l
  <1>4. x = [conn |-> c, session |-> s, failed |-> failed]
    <2> DEFINE y == [conn |-> conn, session |-> session, failed |-> failed]
    <2>1. x = [y EXCEPT !.conn = c, !.session = s]
      BY DEF Current
    <2> HIDE DEF c, x
    <2> QED  BY <2>1
  <1>5. Become(TransferThenClose(x, task)) /\ request' = [range |-> r, method |-> m]
        /\ received' = <<>> /\ task' = task
    BY DEF Request, s
  <1> HIDE DEF c, x
  <1>6. x \in States /\ x.conn = c /\ x.session = s /\ x.failed = {}
    BY <1>1, <1>2, <1>3, <1>4 DEF States
  <1>7. Len(<<>>) = 0 /\ Unsent(x) = 0 /\ Kept(x) = 0
    BY <1>2, <1>3, <1>6 DEF Unsent, Kept
  <1>8. Serving(x, 0, r)
    <2>1. x.conn.send_mbuf = <<>> /\ x.session.buf = <<>>
      BY <1>2, <1>3, <1>6
    <2>2. Carries(x.conn.send_mbuf, 0, r.pos) /\ Carries(x.session.buf, 0 + Unsent(x), r.pos)
      BY <1>7, <2>1 DEF Carries
    <2>3. 0 <= LIMIT /\ 0 <= LIMIT + LIMIT \div 2
      BY ConstantsFit
    <2>4. Fresh(x, 0, r)
      BY <1>3, <1>6, <2>1 DEF Fresh
    <2> QED  BY <1>0, <1>2, <1>3, <1>6, <1>7, <2>2, <2>3, <2>4 DEF Serving
  <1>9. InRange(x, 0, r, task)
    <2>1. 0 + Unsent(x) + Kept(x) <= HEADER + Length(r)
      BY <1>1, <1>7, RangeNumbers, ConstantsFit
    <2> QED  BY <1>l, <1>3, <1>6, <2>1 DEF InRange
  <1>10. PICK z \in TransferThenClose(x, task) : conn' = z.conn /\ session' = z.session /\ failed' = z.failed
    BY <1>5 DEF Become
  <1>11. z \in States /\ InRange(z, 0, r, task)
    BY <1>1, <1>2, <1>6, <1>8, <1>9, <1>10, TransferThenCloseInRange
  <1>12. Len(received') = 0 /\ request'.range = r
    BY <1>5
  <1> QED  BY <1>5, <1>10, <1>11, <1>12, BecomesInRange

\* A size learnt makes the range end with the file.
LEMMA LearnSizeInRange ==
    ASSUME TypeOK, SessionInv, RangeInv, TypeOK', LearnSize
    PROVE  RangeInv' /\ HasSession'
  <1> DEFINE l == IF session.len > 0 THEN session.len ELSE FileSize - session.pos
             s == [session EXCEPT !.len = l]
             x == [conn |-> conn, session |-> s, failed |-> failed]
             R == Len(received)
             r == request.range
  <1>1. /\ Current \in States /\ Current.conn = conn /\ Current.session = session
        /\ conn \in Conns /\ session \in Sessions /\ failed = {}
        /\ session.pos \in Nat /\ session.len \in Int /\ r \in Ranges
    BY CurrentParts, StateParts, StateNumbers DEF LearnSize, RangeInv
  <1>2. l \in Int /\ s \in Sessions
    <2>1. l \in Int
      BY <1>1, ConstantsFit
    <2> HIDE DEF l
    <2> QED  BY <1>1, <2>1 DEF Sessions
  <1>3. /\ conn' = conn /\ session' = s /\ failed' = failed /\ received' = received
        /\ request' = request /\ task' = [task EXCEPT !.filesize = FileSize]
        /\ HasSession /\ task.filesize = 0
    BY DEF LearnSize
  <1>4. s.pos = session.pos /\ s.buf = session.buf /\ s.len = l
    <2> HIDE DEF l
    <2> QED  BY <1>1, <1>2 DEF Sessions
  <1> HIDE DEF s
  <1>5. x \in States /\ x.conn = conn /\ x.session = s /\ x.failed = {}
    BY <1>1, <1>2 DEF States
  <1> HIDE DEF x
  <1>6. Unsent(x) = Unsent(Current) /\ Kept(x) = Kept(Current)
    BY <1>1, <1>4, <1>5 DEF Unsent, Kept
  <1>7. InRange(Current, R, r, task)
    BY <1>3 DEF RangeInv
  <1>8. task'.filesize = FileSize
    BY <1>3 DEF TypeOK
  <1>9. ~conn.closing => /\ session.pos + l = r.pos + Length(r)
                         /\ l > 0
    <2> SUFFICES ASSUME ~conn.closing
                 PROVE  session.pos + l = r.pos + Length(r) /\ l > 0
      OBVIOUS
    <2>1. session.pos + session.len = r.pos + r.len
      BY <1>1, <1>3, <1>7 DEF InRange
    <2>2. session.pos = r.pos
      BY <1>1, <1>3 DEF SessionInv, Answering, Refused, Serving, Fresh
    <2>3. r.pos \in Nat /\ r.len \in Nat /\ r.pos < FileSize
      BY <1>1, ConstantsFit DEF Ranges
    <2>4. session.len = r.len
      <3>1. \A a, b \in Int, p \in Nat : p + a = p + b => a = b
        OBVIOUS
      <3>2. r.pos + session.len = r.pos + r.len
        BY <2>1, <2>2
      <3> QED  BY <1>1, <2>3, <3>1, <3>2
    <2>5. l = IF r.len > 0 THEN r.len ELSE FileSize - r.pos
      BY <2>2, <2>4
    <2>6. l = Length(r)
      BY <2>3, <2>5 DEF Length
    <2> QED  BY <1>1, <2>2, <2>6, RangeNumbers
  <1>10. InRange(x, R, r, task')
    BY <1>1, <1>4, <1>5, <1>6, <1>7, <1>8, <1>9, ConstantsFit DEF InRange
  <1> QED  BY <1>1, <1>3, <1>5, <1>10, BecomesInRange

\* Data that has come is sent within the range.
LEMMA RecvInRange ==
    ASSUME TypeOK, SessionInv, RangeInv, TypeOK', OneAtATime, HeadFits, RangesEndWithReads, Recv
    PROVE  RangeInv' /\ HasSession'
  <1> DEFINE R == Len(received)
             r == request.range
  <1>1. /\ Current \in States /\ Current.conn = conn /\ HasSession /\ ~conn.closing
        /\ R \in Nat /\ r \in Ranges /\ EndsWithReads(r) /\ task.filesize # 0
        /\ task' = task /\ request' = request /\ received' = received
    BY CurrentParts DEF Recv, OneAtATime, RangesEndWithReads
  <1>2. Serving(Current, R, r) /\ InRange(Current, R, r, task)
    BY <1>1 DEF SessionInv, Answering, Refused, RangeInv
  <1>3. PICK z \in TransferThenClose(Current, task) :
            conn' = z.conn /\ session' = z.session /\ failed' = z.failed
    BY DEF Recv, Become
  <1>4. z \in States /\ InRange(z, R, r, task)
    BY <1>1, <1>2, <1>3, TransferThenCloseInRange
  <1> QED  BY <1>1, <1>3, <1>4, BecomesInRange

\* A failed download leaves the range what it is.
LEMMA TaskErrorInRange ==
    ASSUME TypeOK, SessionInv, RangeInv, TypeOK', TaskError
    PROVE  RangeInv' /\ HasSession'
  <1> DEFINE R == Len(received)
             r == request.range
             z == CloseIfNeed(Current, task')
  <1>1. /\ Current \in States /\ Current.conn = conn /\ HasSession
        /\ R \in Nat /\ r \in Ranges
        /\ request' = request /\ received' = received /\ task'.filesize = task.filesize
        /\ conn' = z.conn /\ session' = z.session /\ failed' = z.failed
    <2>1. task'.filesize = task.filesize
      BY DEF TaskError, TypeOK
    <2> QED  BY <2>1, CurrentParts DEF TaskError, Become
  <1>2. ~conn.header_sent /\ ~conn.closing => Fresh(Current, R, r)
    BY <1>1 DEF SessionInv, Answering, Serving, Refused
  <1>3. InRange(Current, R, r, task)
    BY <1>1 DEF RangeInv
  <1>4. z \in States /\ InRange(z, R, r, task)
    <2> HIDE DEF R, r
    <2> QED  BY <1>1, <1>2, <1>3, CloseIfNeedInRange
  <1> HIDE DEF z
  <1>5. InRange(z, Len(received'), request'.range, task')
    BY <1>1, <1>4 DEF InRange
  <1> QED  BY <1>1, <1>4, <1>5, BecomesInRange

\* What the socket takes, and what it leaves in the connection.
LEMMA DrainedParts ==
    ASSUME NEW x \in States, NEW k \in 1..Unsent(x)
    PROVE  LET w == Drained(x, k) IN
           /\ w \in States /\ w.session = x.session /\ w.failed = x.failed
           /\ w.conn.open = x.conn.open /\ w.conn.closing = x.conn.closing
           /\ Unsent(w) = Unsent(x) - k /\ Kept(w) = Kept(x)
           /\ SubSeq(x.conn.send_mbuf, 1, k) \in Seq(Bytes)
           /\ Len(SubSeq(x.conn.send_mbuf, 1, k)) = k
  <1> DEFINE all == x.conn.send_mbuf
             m == SubSeq(all, k + 1, Len(all))
             c == [x.conn EXCEPT !.send_mbuf = m]
             w == With(x, c, x.session)
  <1>1. /\ x.conn \in Conns /\ x.session \in Sessions /\ all \in Seq(Bytes)
        /\ Unsent(x) = Len(all) /\ Len(all) \in Nat /\ \A i \in 1..Len(all) : all[i] \in Bytes
        /\ k \in Nat /\ 1 <= k /\ k <= Len(all)
    <2>1. x.conn \in Conns /\ x.session \in Sessions /\ all \in Seq(Bytes) /\ Unsent(x) \in Nat
      BY StateParts, StateNumbers
    <2>2. Unsent(x) = Len(all) /\ k \in Nat /\ 1 <= k /\ k <= Unsent(x)
      BY <2>1 DEF Unsent
    <2> HIDE DEF all
    <2>3. \A i \in 1..Len(all) : all[i] \in Bytes
      BY <2>1, ElementOfSeq
    <2> QED  BY <2>1, <2>2, <2>3
  <1>2. Drained(x, k) = w
    BY DEF Drained, With, States, Conns
  <1> HIDE DEF all
  <1>3. SubSeq(all, 1, k) \in Seq(Bytes) /\ Len(SubSeq(all, 1, k)) = k
    <2>1. \A i \in 1..k : all[i] \in Bytes
      BY <1>1
    <2>2. /\ SubSeq(all, 1, k) \in Seq(Bytes)
          /\ Len(SubSeq(all, 1, k)) = IF 1 <= k THEN k - 1 + 1 ELSE 0
      BY <1>1, <2>1, SubSeqProperties
    <2> QED  BY <1>1, <2>2
  <1>4. m \in Seq(Bytes) /\ Len(m) = Len(all) - k
    <2>1. (\A i \in k + 1..Len(all) : all[i] \in Bytes) /\ k + 1 \in Int /\ Len(all) \in Int
      BY <1>1
    <2>2. /\ m \in Seq(Bytes)
          /\ Len(m) = IF k + 1 <= Len(all) THEN Len(all) - (k + 1) + 1 ELSE 0
      BY <2>1, SubSeqProperties
    <2> HIDE DEF m
    <2> QED  BY <1>1, <2>2
  <1> HIDE DEF m
  <1>5. /\ c \in Conns /\ c.send_mbuf = m /\ c.open = x.conn.open /\ c.closing = x.conn.closing
    BY <1>1, <1>4 DEF Conns
  <1> HIDE DEF c
  <1>6. w \in States /\ w.conn = c /\ w.session = x.session /\ w.failed = x.failed
    BY <1>1, <1>5, StateWith
  <1> HIDE DEF w
  <1>7. Unsent(w) = Unsent(x) - k /\ Kept(w) = Kept(x)
    BY <1>1, <1>4, <1>5, <1>6 DEF Unsent, Kept
  <1> QED  BY <1>2, <1>3, <1>5, <1>6, <1>7 DEF all

\* Bytes are sent by a session, and what the client has grows by as many.
LEMMA SendOutParts ==
    ASSUME TypeOK, SessionInv, NEW k \in 1..IO, SendOut(k)
    PROVE  /\ HasSession /\ Current \in States /\ k \in 1..Unsent(Current) /\ k \in Nat
           /\ Len(received') = Len(received) + k /\ Len(received) \in Nat
           /\ task' = task /\ request' = request
           /\ received' = received \o SubSeq(conn.send_mbuf, 1, k)
           /\ \E z \in OnSend(Drained(Current, k), task, k) :
                conn' = z.conn /\ session' = z.session /\ failed' = z.failed
  <1>1. /\ Current.conn = conn /\ Len(received) \in Nat /\ received \in Seq(Bytes)
        /\ conn.send_mbuf \in Seq(Bytes)
    BY CurrentParts DEF Conns
  <1>2. /\ k \in Nat /\ k >= 1 /\ k <= Len(conn.send_mbuf)
        /\ task' = task /\ request' = request
        /\ received' = received \o SubSeq(conn.send_mbuf, 1, k)
    BY SessionAssumption DEF SendOut
  <1>3. HasSession /\ Current \in States
    <2>1. ~HasSession => Len(conn.send_mbuf) = 0
      BY DEF SessionInv, Quiet
    <2> QED  BY <1>2, <2>1, CurrentParts
  <1>4. k \in 1..Unsent(Current)
    BY <1>1, <1>2, <1>3, StateNumbers DEF Unsent
  <1>5. /\ SubSeq(conn.send_mbuf, 1, k) \in Seq(Bytes) /\ Len(SubSeq(conn.send_mbuf, 1, k)) = k
    BY <1>1, <1>3, <1>4, DrainedParts
  <1>6. Len(received') = Len(received) + k
    <2> DEFINE sent == SubSeq(conn.send_mbuf, 1, k)
    <2>1. sent \in Seq(Bytes) /\ Len(sent) = k /\ received' = received \o sent
      BY <1>2, <1>5
    <2> HIDE DEF sent
    <2> QED  BY <1>1, <2>1, ConcatProperties
  <1>7. \E z \in OnSend(Drained(Current, k), task, k) :
            conn' = z.conn /\ session' = z.session /\ failed' = z.failed
    <2> DEFINE w == Drained(Current, k)
    <2>1. w = [Current EXCEPT !.conn.send_mbuf = SubSeq(@, k + 1, Len(@))]
      BY DEF Drained
    <2> HIDE DEF w
    <2>2. Become(IF HasSession THEN OnSend(w, task, k) ELSE {w})
      BY <2>1 DEF SendOut
    <2>3. \E z \in OnSend(w, task, k) : conn' = z.conn /\ session' = z.session /\ failed' = z.failed
      BY <1>3, <2>2 DEF Become
    <2> QED  BY <2>3 DEF w
  <1> QED  BY <1>1, <1>2, <1>3, <1>4, <1>6, <1>7

\* Sending goes on within the range, and the session ends with the last
\* byte of it only.
LEMMA SendOutInRange ==
    ASSUME TypeOK, SessionInv, RangeInv, TypeOK', HeadFits, RangesEndWithReads,
           NEW k \in 1..IO, SendOut(k)
    PROVE  /\ RangeInv' /\ conn'.open
           /\ HasSession' \/ Len(received') = HEADER + Length(request.range)
  <1> DEFINE R == Len(received)
             r == request.range
             x == Current
  <1>1. /\ HasSession /\ x \in States /\ k \in 1..Unsent(x) /\ k \in Nat
        /\ Len(received') = R + k /\ R \in Nat /\ task' = task /\ request' = request
    BY SendOutParts
  <1>2. PICK z \in OnSend(Drained(x, k), task, k) :
            conn' = z.conn /\ session' = z.session /\ failed' = z.failed
    BY SendOutParts
  <1>3. x.conn = conn /\ r \in Ranges /\ EndsWithReads(r) /\ Unsent(x) \in Nat
    BY <1>1, CurrentParts, StateNumbers DEF RangesEndWithReads
  <1>4. InRange(x, R, r, task)
    BY <1>1 DEF RangeInv
  <1>5. CASE Serving(x, R, r) /\ (task.filesize = 0 => ~conn.header_sent)
    <2>1. task.filesize # 0
      <3>1. ~conn.header_sent => Unsent(x) = 0
        BY <1>3, <1>5 DEF Serving, Fresh, Unsent
      <3> QED  BY <1>1, <1>3, <1>5, <3>1
    <2>2. \/ z \in States /\ InRange(z, R + k, r, task)
          \/ z.session = NoSession /\ z.failed = {} /\ R + k = HEADER + Length(r)
      <3> HIDE DEF x, R, r
      <3> QED  BY <1>1, <1>2, <1>3, <1>4, <1>5, <2>1, OnSendInRange
    <2>3. z.conn.open
      <3> HIDE DEF x, R, r
      <3>1. \/ z \in States /\ Serving(z, R + k, r)
            \/ z.session = NoSession /\ z.conn.open
        BY <1>1, <1>2, <1>3, <1>5, OnSendServes
      <3> QED  BY <3>1 DEF Serving
    <2>4. CASE z \in States /\ InRange(z, R + k, r, task)
      <3>1. InRange(z, Len(received'), request'.range, task')
        BY <1>1, <2>4
      <3> QED  BY <1>2, <2>3, <2>4, <3>1, BecomesInRange
    <2>5. CASE z.session = NoSession /\ z.failed = {} /\ R + k = HEADER + Length(r)
      <3>1. R + k <= HEADER + Length(r)
        BY <1>3, <2>5, RangeNumbers, ConstantsFit
      <3>2. ~HasSession' /\ failed' = {} /\ Len(received') <= HEADER + Length(request'.range)
        BY <1>1, <1>2, <2>5, <3>1 DEF HasSession
      <3> QED  BY <1>1, <1>2, <2>3, <2>5, <3>2 DEF RangeInv
    <2> QED  BY <2>2, <2>4, <2>5
  <1>6. CASE Refused(x, R)
    <2> DEFINE w == Drained(x, k)
    <2>1. /\ w \in States /\ w.session = x.session /\ w.failed = x.failed
          /\ w.conn.open = x.conn.open /\ w.conn.closing = x.conn.closing
          /\ Unsent(w) = Unsent(x) - k /\ Kept(w) = Kept(x)
      BY <1>1, DrainedParts
    <2>2. x.conn.closing /\ x.conn.open
      BY <1>6 DEF Refused
    <2>3. z = w
      <3> HIDE DEF w
      <3>1. z \in OnSend(w, task, k)
        BY <1>2 DEF w
      <3> QED  BY <2>1, <2>2, <3>1 DEF OnSend
    <2> HIDE DEF w
    <2>4. R + k + Unsent(w) + Kept(w) = R + Unsent(x) + Kept(x)
      <3>1. Kept(x) \in Nat
        BY <1>1, StateNumbers
      <3> HIDE DEF x, R
      <3> QED  BY <1>1, <1>3, <2>1, <3>1
    <2>5. InRange(w, R + k, r, task)
      <3> HIDE DEF x, R, r
      <3> QED  BY <1>4, <2>1, <2>2, <2>4 DEF InRange
    <2>6. InRange(z, Len(received'), request'.range, task')
      BY <1>1, <2>3, <2>5
    <2> QED  BY <1>2, <2>1, <2>2, <2>3, <2>6, BecomesInRange
  <1> QED  BY <1>1, <1>3, <1>5, <1>6 DEF SessionInv, Answering

\* The other actions add nothing to a reply.
LEMMA ClosedInRange ==
    ASSUME TypeOK, RangeInv, Closed
    PROVE  RangeInv' /\ ~conn'.open
  <1>0. conn \in Conns
    BY CurrentParts
  <1>1. /\ session' = NoSession /\ request' = request /\ received' = received /\ failed' = failed
        /\ conn' = [conn EXCEPT !.open = FALSE, !.send_mbuf = <<>>]
    BY DEF Closed
  <1>2. ~conn'.open
    BY <1>0, <1>1 DEF Conns
  <1> QED  BY <1>1, <1>2 DEF RangeInv, HasSession

\* A new connection has no range.
LEMMA AcceptInRange ==
    ASSUME TypeOK, RangeInv, Accept
    PROVE  RangeInv' /\ ~HasSession' /\ conn'.open
  <1>1. /\ session' = session /\ request' = request /\ received' = <<>> /\ failed' = failed
        /\ conn' = NewConn /\ ~HasSession
    BY DEF Accept, TypeOK
  <1>2. 0 <= HEADER + Length(request.range) /\ Len(<<>>) = 0
    BY CurrentParts, RangeNumbers, ConstantsFit
  <1> QED  BY <1>1, <1>2 DEF RangeInv, HasSession, NewConn

\* Reaping the task changes no range.
LEMMA TaskExpiresInRange ==
    ASSUME RangeInv, TaskExpires
    PROVE  RangeInv'
  BY DEF RangeInv, TaskExpires, HasSession

-----------------------------------------------------------------------------
(* The invariant, and that no assert fails.                                *)

\* The invariant is inductive.
LEMMA RangeNext ==
    ASSUME TypeOK, SessionInv, RangeInv, OneAtATime, HeadFits, RangesEndWithReads, [Next]_vars
    PROVE  RangeInv'
  <1>0. TypeOK'
    BY NextHolds
  <1>1. ASSUME NEW r \in Requests, NEW m \in Methods, Request(r, m)
        PROVE  RangeInv'
    BY <1>0, <1>1, RequestInRange
  <1>2. CASE LearnSize
    BY <1>0, <1>2, LearnSizeInRange
  <1>3. CASE Recv
    BY <1>0, <1>3, RecvInRange
  <1>4. CASE TaskError
    BY <1>0, <1>4, TaskErrorInRange
  <1>5. ASSUME NEW k \in 1..IO, SendOut(k)
        PROVE  RangeInv'
    BY <1>0, <1>5, SendOutInRange
  <1>6. CASE CloseDrained \/ Disconnect
    BY <1>6, ClosedInRange DEF CloseDrained, Disconnect
  <1>7. CASE Accept
    BY <1>7, AcceptInRange
  <1>8. CASE TaskExpires
    BY <1>8, TaskExpiresInRange
  <1>9. CASE UNCHANGED vars
    BY <1>9 DEF vars, RangeInv, HasSession, Current, InRange, Unsent, Kept
  <1> QED  BY <1>1, <1>2, <1>3, <1>4, <1>5, <1>6, <1>7, <1>8, <1>9 DEF Next

\* The invariant holds at the start.
LEMMA RangeInit ==
    ASSUME Init
    PROVE  RangeInv
  <1>1. session = NoSession /\ received = <<>> /\ failed = {} /\ request.range \in Ranges
    BY SessionAssumption DEF Init, Ranges
  <1>2. 0 <= HEADER + Length(request.range) /\ Len(<<>>) = 0
    BY <1>1, RangeNumbers, ConstantsFit
  <1> QED  BY <1>1, <1>2 DEF RangeInv, HasSession

\* Whatever the order of sends, arrivals, errors and requests, the counters
\* of a session keep it in the range it was asked for.
THEOREM RangeInvariant ==
    ASSUME OneAtATime, HeadFits, RangesEndWithReads
    PROVE  Spec => [](TypeOK /\ SessionInv /\ RangeInv)
  <1>1. Init => TypeOK /\ SessionInv /\ RangeInv
    BY InitHolds, RangeInit
  <1>2. (TypeOK /\ SessionInv /\ RangeInv) /\ [Next]_vars => (TypeOK /\ SessionInv /\ RangeInv)'
    BY NextHolds, RangeNext
  <1> QED  BY <1>1, <1>2, PTL DEF Spec

\* No assert of ms_session.c fails: at each transfer the counters agree with
\* what the connection holds (line 59), the cache is asked for nothing past
\* the range and nothing past it is sent (127 and 143), no more is taken for
\* sent than is left to send (184), and the length of line 139 never wraps.
THEOREM SessionAssertsHold ==
    ASSUME OneAtATime, HeadFits, RangesEndWithReads
    PROVE  Spec => []AssertsHold
  <1>1. TypeOK /\ SessionInv /\ RangeInv => AssertsHold
    BY DEF RangeInv, AssertsHold
  <1> QED  BY <1>1, RangeInvariant, PTL

-----------------------------------------------------------------------------
(* The session implements the reply its client is promised.                *)

\* The body in what the client has received.
BodyGot(seq) == SubSeq(seq, HEADER + 1, Len(seq))

\* It is consecutive bytes of the file.
LEMMA BodyGotIs ==
    ASSUME NEW seq \in Seq(Bytes), NEW from \in Nat, Carries(seq, 0, from)
    PROVE  BodyGot(seq) = Body(from, BodyIn(Len(seq)))
  <1> DEFINE n == Len(seq)
             b == SubSeq(seq, HEADER + 1, n)
             e == Body(from, BodyIn(n))
  <1>1. n \in Nat /\ HEADER \in Nat /\ \A i \in 1..n : seq[i] = ReplyByte(from, 0 + i)
    BY LenProperties, ConstantsFit DEF Carries
  <1>2. \A i \in 1..n : seq[i] \in Int
    BY ElementOfSeq, ConstantsFit DEF Bytes
  <1>3. /\ b \in Seq(Int)
        /\ Len(b) = IF HEADER + 1 <= n THEN n - (HEADER + 1) + 1 ELSE 0
        /\ \A i \in 1..n - (HEADER + 1) + 1 : b[i] = seq[HEADER + 1 + i - 1]
    <2>1. (\A i \in HEADER + 1..n : seq[i] \in Int) /\ HEADER + 1 \in Int /\ n \in Int
      BY <1>1, <1>2
    <2> HIDE DEF n
    <2> QED  BY <2>1, SubSeqProperties
  <1>4. BodyIn(n) \in Nat /\ Len(b) = BodyIn(n)
    BY <1>1, <1>3 DEF BodyIn
  <1>5. e \in Seq(Int) /\ Len(e) = BodyIn(n) /\ \A i \in 1..BodyIn(n) : e[i] = from + i - 1
    <2> DEFINE v(i) == from + i - 1
               f == [i \in 1..BodyIn(n) |-> v(i)]
    <2>1. \A i \in 1..BodyIn(n) : v(i) \in Int
      BY <1>4
    <2>2. f \in Seq(Int)
      <3> HIDE DEF v
      <3> QED  BY <1>4, <2>1, IsASeq
    <2>3. e = f
      BY DEF Body
    <2> HIDE DEF e, f
    <2>4. Len(f) = BodyIn(n)
      <3>1. DOMAIN f = 1..BodyIn(n)
        BY DEF f
      <3> QED  BY <1>4, <2>2, <3>1, LenProperties
    <2>5. \A i \in 1..BodyIn(n) : f[i] = from + i - 1
      BY DEF f
    <2> QED  BY <2>2, <2>3, <2>4, <2>5
  <1>6. ASSUME NEW i \in 1..Len(b)  PROVE b[i] = e[i]
    <2>1. /\ i \in 1..BodyIn(n) /\ i \in 1..n - (HEADER + 1) + 1 /\ HEADER + 1 + i - 1 = HEADER + i
          /\ HEADER + i \in 1..n /\ i \in Nat /\ i >= 1
      BY <1>1, <1>4 DEF BodyIn
    <2>2. b[i] = seq[HEADER + i]
      BY <1>3, <2>1
    <2>3. seq[HEADER + i] = ReplyByte(from, 0 + (HEADER + i))
      BY <1>1, <2>1
    <2>4. ReplyByte(from, 0 + (HEADER + i)) = from + i - 1
      BY <1>1, <2>1 DEF ReplyByte
    <2> QED  BY <1>5, <2>1, <2>2, <2>3, <2>4
  <1> HIDE DEF b, e, n
  <1>7. b = e
    BY <1>3, <1>4, <1>5, <1>6, SeqEqual
  <1> QED  BY <1>7 DEF BodyGot, b, e, n

\* In no more bytes than a head has there is no body.
LEMMA NoBodyGot ==
    ASSUME NEW seq, Len(seq) \in Nat, Len(seq) <= HEADER
    PROVE  BodyGot(seq) = <<>>
  <1>1. HEADER + 1 > Len(seq) /\ HEADER + 1 \in Int /\ Len(seq) \in Int
    BY ConstantsFit
  <1> QED  BY <1>1, SubSeqEmpty DEF BodyGot

\* Consecutive bytes and the ones after them.
LEMMA BodyGrows ==
    ASSUME NEW from \in Nat, NEW n \in Nat, NEW k \in Nat
    PROVE  /\ Body(from, n + k) = Body(from, n) \o [i \in 1..k |-> from + n + i - 1]
           /\ Len(Body(from, n)) = n
  <1> DEFINE v(i) == from + i - 1
             u(i) == from + n + i - 1
             a == [i \in 1..n |-> v(i)]
             b == [i \in 1..k |-> u(i)]
             c == [i \in 1..n + k |-> v(i)]
  <1>1. /\ \A i \in 1..n : v(i) \in Int
        /\ \A i \in 1..k : u(i) \in Int
        /\ \A i \in 1..n + k : v(i) \in Int
        /\ n + k \in Nat
    OBVIOUS
  <1>2. a \in Seq(Int) /\ b \in Seq(Int) /\ c \in Seq(Int)
    <2> HIDE DEF v, u
    <2>1. a \in Seq(Int)
      BY <1>1, IsASeq
    <2>2. b \in Seq(Int)
      BY <1>1, IsASeq
    <2>3. c \in Seq(Int)
      BY <1>1, IsASeq
    <2> QED  BY <2>1, <2>2, <2>3
  <1>3. DOMAIN a = 1..n /\ DOMAIN b = 1..k /\ DOMAIN c = 1..n + k
    OBVIOUS
  <1>4. /\ \A i \in 1..n : a[i] = v(i)
        /\ \A i \in 1..k : b[i] = u(i)
        /\ \A i \in 1..n + k : c[i] = v(i)
    OBVIOUS
  <1> HIDE DEF a, b, c
  <1>5. Len(a) = n
    BY <1>2, <1>3, LenProperties
  <1>6. Len(b) = k
    BY <1>2, <1>3, LenProperties
  <1>7. Len(c) = n + k
    BY <1>1, <1>2, <1>3, LenProperties
  <1>8. /\ a \o b \in Seq(Int) /\ Len(a \o b) = n + k
        /\ \A i \in 1..n + k : (a \o b)[i] = IF i <= n THEN a[i] ELSE b[i - n]
    BY <1>2, <1>5, <1>6, ConcatProperties
  <1>9. ASSUME NEW i \in 1..Len(c)  PROVE c[i] = (a \o b)[i]
    <2>1. CASE i <= n
      <3>1. i \in 1..n /\ i \in 1..n + k
        BY <1>7, <2>1
      <3> QED  BY <1>4, <1>8, <2>1, <3>1
    <2>2. CASE i > n
      <3>1. i - n \in 1..k /\ u(i - n) = v(i) /\ i \in 1..n + k
        BY <1>7, <2>2
      <3> QED  BY <1>4, <1>8, <2>2, <3>1
    <2>3. i <= n \/ i > n
      <3>1. i \in 1..n + k
        BY <1>7
      <3> QED  BY <3>1
    <2> QED  BY <2>1, <2>2, <2>3
  <1>10. c = a \o b
    <2>1. Len(c) = Len(a \o b)
      BY <1>7, <1>8
    <2> QED  BY <1>2, <1>8, <1>9, <2>1, SeqEqual
  <1>11. Body(from, n) = a /\ Body(from, n + k) = c /\ b = [i \in 1..k |-> from + n + i - 1]
    BY DEF Body, a, b, c
  <1> QED  BY <1>5, <1>10, <1>11

\* A send hands the client the next bytes of the range; it leaves the
\* connection to the next request only after the last of them.
LEMMA SendOutDelivers ==
    ASSUME TypeOK, SessionInv, RangeInv, TypeOK', SessionInv', HeadFits, RangesEndWithReads,
           NEW k \in 1..IO, SendOut(k)
    PROVE  [Reply!Next]_(Reply!vars)
  <1> DEFINE r == request.range
             R == Len(received)
             S == Len(received')
  <1>1. /\ HasSession /\ R \in Nat /\ k \in Nat /\ S = R + k /\ request' = request
        /\ r \in Ranges /\ r.pos \in Nat /\ Length(r) \in Nat /\ Length(r) > 0
        /\ HEADER \in Nat /\ FileSize \in Nat
    BY SendOutParts, CurrentParts, RangeNumbers, ConstantsFit
  <1>2. /\ RangeInv' /\ conn'.open
        /\ HasSession' \/ S = HEADER + Length(r)
    BY SendOutInRange
  <1>3. conn.open /\ S <= HEADER + Length(r)
    BY <1>1, <1>2 DEF SendOut, RangeInv
  <1>4. received \in Seq(Bytes) /\ received' \in Seq(Bytes)
    BY DEF TypeOK
  <1> DEFINE phase == IF ~conn.open THEN "closed" ELSE IF HasSession THEN "serving" ELSE "idle"
  <1>5. phase = "serving" /\ phase' = (IF HasSession' THEN "serving" ELSE "idle")
    BY <1>1, <1>2, <1>3
  <1>6. CASE Carries(received', 0, r.pos)
    <2>1. Carries(received, 0, r.pos)
      <3> DEFINE sent == SubSeq(conn.send_mbuf, 1, k)
      <3>1. received' = received \o sent /\ sent \in Seq(Bytes) /\ Len(sent) = k
        <4>1. Current.conn = conn
          BY CurrentParts
        <4> QED  BY <4>1, SendOutParts, DrainedParts
      <3> HIDE DEF sent
      <3>2. \A i \in 1..R + k : received'[i] = IF i <= R THEN received[i] ELSE sent[i - R]
        BY <1>4, <3>1, ConcatProperties
      <3>3. ASSUME NEW i \in 1..R  PROVE received[i] = ReplyByte(r.pos, 0 + i)
        <4>1. i \in 1..R + k /\ i \in 1..S /\ i <= R
          BY <1>1
        <4> QED  BY <1>6, <3>2, <4>1 DEF Carries
      <3> QED  BY <3>3 DEF Carries
    <2> DEFINE n == BodyIn(R)
               d == BodyIn(S) - BodyIn(R)
    <2>2. /\ BodyGot(received) = Body(r.pos, n) /\ BodyGot(received') = Body(r.pos, BodyIn(S))
      <3> HIDE DEF r
      <3> QED  BY <1>1, <1>4, <1>6, <2>1, BodyGotIs
    <2>3. /\ n \in Nat /\ d \in Nat /\ BodyIn(S) = n + d /\ n + d <= Length(r)
          /\ S = HEADER + Length(r) => n + d = Length(r)
      <3> HIDE DEF r, R, S
      <3> QED  BY <1>1, <1>3 DEF BodyIn
    <2> HIDE DEF n, d, R, S
    <2>4. /\ BodyGot(received') = BodyGot(received) \o [i \in 1..d |-> r.pos + n + i - 1]
          /\ Len(BodyGot(received)) = n /\ Len(BodyGot(received')) = n + d
      <3> HIDE DEF r
      <3>1. /\ Body(r.pos, n + d) = Body(r.pos, n) \o [i \in 1..d |-> r.pos + n + i - 1]
            /\ Len(Body(r.pos, n)) = n
        BY ZenonT(60), <1>1, <2>3, BodyGrows
      <3>2. Len(Body(r.pos, n + d)) = n + d
        <4>1. n + d \in Nat /\ 0 \in Nat
          BY <2>3
        <4> HIDE DEF r
        <4> QED  BY <1>1, <4>1, BodyGrows
      <3> QED  BY <2>2, <2>3, <3>1, <3>2
    <2>5. Reply!Length(r) = Length(r)
      BY DEF Reply!Length, Length
    <2>6. d \in 0..(Reply!Length(r) - Len(BodyGot(received)))
      BY <1>1, <2>3, <2>4, <2>5
    <2>7. BodyGot(received') = BodyGot(received)
              \o [i \in 1..d |-> r.pos + Len(BodyGot(received)) + i - 1]
      BY <2>4
    <2>8. phase' = "serving" \/ (phase' = "idle" /\ Len(BodyGot(received')) = Reply!Length(r))
      BY <1>2, <1>5, <2>3, <2>4, <2>5
    <2>9. Reply!Deliver
      BY <1>1, <1>5, <2>6, <2>7, <2>8 DEF Reply!Deliver, BodyGot
    <2> QED  BY <2>9 DEF Reply!Next
  <1>7. CASE ~Carries(received', 0, r.pos)
    <2>1. S <= 1
      <3>1. CASE HasSession'
        <4>1. Refused(Current', S)
          BY <1>1, <1>7, <3>1 DEF SessionInv, Answering
        <4>2. Unsent(Current') \in Nat
          <5>1. Current' \in States
            BY <3>1 DEF TypeOK, HasSession, Current, States, Conns
          <5> QED  BY <5>1, StateNumbers
        <4> QED  BY <1>1, <4>1, <4>2 DEF Refused
      <3>2. CASE ~HasSession'
        <4>1. received' = <<ErrorByte>>
          BY <1>1, <1>7, <3>2 DEF SessionInv, Quiet
        <4> QED  BY <4>1
      <3> QED  BY <3>1, <3>2
    <2>2. BodyGot(received) = <<>> /\ BodyGot(received') = <<>>
      <3>1. R <= HEADER /\ S <= HEADER /\ S \in Nat
        BY <1>1, <2>1, ConstantsFit
      <3> QED  BY <1>1, <3>1, NoBodyGot
    <2>3. HasSession'
      <3>1. S # HEADER + Length(r)
        BY <1>1, <2>1, ConstantsFit
      <3> QED  BY <1>2, <3>1
    <2>4. UNCHANGED Reply!vars
      BY <1>1, <1>5, <2>2, <2>3 DEF Reply!vars, BodyGot
    <2> QED  BY <2>4
  <1> QED  BY <1>6, <1>7

\* Session starts where RangeReply does.
LEMMA ReplyInit ==
    ASSUME Init
    PROVE  Reply!Init
  <1>1. /\ conn.open /\ ~HasSession /\ request.range \in Requests /\ received = <<>>
    BY DEF Init, NewConn, HasSession
  <1>2. BodyGot(received) = <<>>
    <2>1. Len(received) = 0
      BY <1>1
    <2> QED  BY <2>1, NoBodyGot, ConstantsFit
  <1> QED  BY <1>1, <1>2 DEF Reply!Init, BodyGot

\* Every step of Session is one of RangeReply, or none.
LEMMA ReplyNext ==
    ASSUME TypeOK, SessionInv, RangeInv, OneAtATime, HeadFits, RangesEndWithReads, [Next]_vars
    PROVE  [Reply!Next]_(Reply!vars)
  <1> DEFINE phase == IF ~conn.open THEN "closed" ELSE IF HasSession THEN "serving" ELSE "idle"
  <1>0. TypeOK' /\ SessionInv'
    BY NextHolds
  <1>o. (HasSession => conn.open) /\ (HasSession' => conn'.open)
    BY <1>0 DEF TypeOK
  <1>e. BodyGot(<<>>) = <<>>
    <2>1. Len(<<>>) = 0 /\ Len(<<>>) \in Nat
      OBVIOUS
    <2> QED  BY <2>1, NoBodyGot, ConstantsFit
  <1>1. ASSUME NEW r \in Requests, NEW m \in Methods, Request(r, m)
        PROVE  Reply!Start
    <2>1. /\ phase = "idle" /\ request'.range = r /\ received' = <<>>
      BY <1>1 DEF Request, OneAtATime
    <2>2. HasSession'
      BY <1>0, <1>1, RequestInRange
    <2>3. phase' = "serving"
      BY <1>o, <2>2
    <2> QED  BY <1>e, <2>1, <2>3 DEF Reply!Start, BodyGot
  <1>2. CASE LearnSize \/ Recv \/ TaskError
    <2>1. HasSession /\ received' = received /\ request' = request
      BY <1>2 DEF LearnSize, Recv, TaskError
    <2>2. HasSession'
      BY <1>0, <1>2, LearnSizeInRange, RecvInRange, TaskErrorInRange
    <2>3. phase' = phase
      BY <1>o, <2>1, <2>2
    <2> QED  BY <2>1, <2>3 DEF Reply!vars
  <1>3. ASSUME NEW k \in 1..IO, SendOut(k)
        PROVE  [Reply!Next]_(Reply!vars)
    BY <1>0, <1>3, SendOutDelivers
  <1>4. CASE CloseDrained \/ Disconnect
    <2>1. conn.open /\ Closed
      BY <1>4 DEF CloseDrained, Disconnect
    <2>2. phase # "closed" /\ phase' = "closed" /\ received' = received /\ request' = request
      BY <2>1, ClosedInRange DEF Closed
    <2>3. Reply!Break
      BY <2>2 DEF Reply!Break
    <2> QED  BY <2>3 DEF Reply!Next
  <1>5. CASE Accept
    <2>1. phase = "closed" /\ phase' = "idle" /\ received' = <<>> /\ request' = request
      BY <1>5, AcceptInRange DEF Accept
    <2>2. Reply!Accept
      BY <1>e, <2>1 DEF Reply!Accept, BodyGot
    <2> QED  BY <2>2 DEF Reply!Next
  <1>6. CASE TaskExpires \/ UNCHANGED vars
    BY <1>6 DEF TaskExpires, vars, Reply!vars, HasSession
  <1> QED  BY <1>1, <1>2, <1>3, <1>4, <1>5, <1>6 DEF Next, Reply!Next

\* The client of a session gets what RangeReply promises: the bytes of the
\* range it asked for, in order and none besides, and its connection is kept
\* for another request only after the last of them.
THEOREM SessionImplementsReply ==
    ASSUME OneAtATime, HeadFits, RangesEndWithReads
    PROVE  Spec => RefinesReply
  <1>1. Init => Reply!Init
    BY ReplyInit
  <1>2. (TypeOK /\ SessionInv /\ RangeInv) /\ [Next]_vars => [Reply!Next]_(Reply!vars)
    BY ReplyNext
  <1> QED  BY <1>1, <1>2, RangeInvariant, PTL DEF Spec, RefinesReply, Reply!Spec
=============================================================================
