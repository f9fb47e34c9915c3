--------------------------- MODULE HttpPipeProofs ---------------------------
(***************************************************************************)
(* That a pipe accounts for every byte, for every size of piece, file and  *)
(* event.  The handler is a composition of functions with several          *)
(* outcomes; the lemmas say of each what all its outcomes have in common,  *)
(* and the invariant of the pipe follows from them action by action.       *)
(***************************************************************************)
EXTENDS HttpPipe, TLAPS

PipeTypes == [pos : Nat, len : Nat, buf : Nat, closing : BOOLEAN,
              redirecting : BOOLEAN, redirect_time : Nat, freed : BOOLEAN]

ConnTypes == [phase : {"connecting", "open", "gone"}, doomed : BOOLEAN,
              called : BOOLEAN, code : {0, 206, 302, 404}, total : Nat, arrived : Nat]

States == [pipe : PipeTypes, conn : ConnTypes, told : Seq(Nat), failed : SUBSET Nat]

\* The invariant of the pipe, on a state of the handler for the range r.  It
\* is BytesAccounted and what keeps it so: a pipe that is let go of or waits
\* for a redirect has a connection about to close, which delivers no more,
\* and only a reply without content redirects, so that the next connection
\* starts from where the first one did.
Sound(x, r) ==
    /\ x \in States /\ x.pipe.buf < PIECE
    /\ Ignores(x) => x.conn.doomed
    /\ x.pipe.redirecting => x.conn.code # Content
    /\ x.conn.code = 0 => x.conn.arrived = 0
    /\ x.pipe.pos + x.pipe.buf = r.pos + (IF x.conn.code = Content THEN x.conn.arrived ELSE 0)

\* What a function of the handler leaves alone but for the bytes it hands
\* over and keeps.
SameButBytes(x, y) ==
    /\ y \in States
    /\ y.conn.code = x.conn.code /\ y.conn.arrived = x.conn.arrived
    /\ y.conn.total = x.conn.total /\ y.conn.phase = x.conn.phase
    /\ y.pipe.redirecting = x.pipe.redirecting
    /\ (x.pipe.closing => x.conn.doomed) => (y.pipe.closing => y.conn.doomed)
    /\ x.conn.doomed => y.conn.doomed

Held(x) == x.pipe.pos + x.pipe.buf

-----------------------------------------------------------------------------
(* The functions of the handler.                                           *)

\* A state with another pipe only.
LEMMA PipeWith ==
    ASSUME NEW x \in States, NEW p \in PipeTypes
    PROVE  LET y == [x EXCEPT !.pipe = p] IN
           y \in States /\ y.pipe = p /\ y.conn = x.conn
  BY DEF States

\* A state with another connection only.
LEMMA ConnWith ==
    ASSUME NEW x \in States, NEW c \in ConnTypes
    PROVE  LET y == [x EXCEPT !.conn = c] IN
           y \in States /\ y.pipe = x.pipe /\ y.conn = c
  BY DEF States

\* The parts of a state have their types.
LEMMA StateParts ==
    ASSUME NEW x \in States
    PROVE  x.pipe \in PipeTypes /\ x.conn \in ConnTypes
  BY DEF States

\* Noting a failed assert changes nothing else.
LEMMA AssertIsNote ==
    ASSUME NEW x \in States, NEW line \in Nat, NEW ok \in BOOLEAN
    PROVE  /\ Assert(x, line, ok) \in States
           /\ Assert(x, line, ok).pipe = x.pipe
           /\ Assert(x, line, ok).conn = x.conn
  BY DEF Assert, States

\* Closing sets two flags.
LEMMA PipeCloseDooms ==
    ASSUME NEW x \in States
    PROVE  /\ PipeClose(x) \in States
           /\ PipeClose(x).pipe = [x.pipe EXCEPT !.closing = TRUE]
           /\ PipeClose(x).conn = [x.conn EXCEPT !.doomed = TRUE]
  <1> DEFINE p == [x.pipe EXCEPT !.closing = TRUE]
             c == [x.conn EXCEPT !.doomed = TRUE]
             y == [x EXCEPT !.pipe = p]
  <1>0. x.pipe \in PipeTypes /\ x.conn \in ConnTypes
    BY StateParts
  <1>1. p \in PipeTypes
    BY <1>0 DEF PipeTypes
  <1>2. c \in ConnTypes
    BY ZenonT(60), <1>0 DEF ConnTypes
  <1>3. y \in States /\ y.pipe = p /\ y.conn = x.conn
    <2> HIDE DEF p
    <2> QED  BY <1>1, PipeWith
  <1>4. PipeClose(x) = [y EXCEPT !.conn = c]
    BY DEF PipeClose, States
  <1> HIDE DEF p, c, y
  <1>5. PipeClose(x) \in States /\ PipeClose(x).pipe = y.pipe /\ PipeClose(x).conn = c
    BY <1>2, <1>3, <1>4, ConnWith
  <1> QED  BY <1>3, <1>5 DEF p, c

\* Putting another number of bytes in the buffer changes nothing else.
LEMMA SetBuffer ==
    ASSUME NEW x \in States, NEW b \in Nat
    PROVE  LET y == [x EXCEPT !.pipe.buf = b] IN
           /\ y \in States /\ y.conn = x.conn
           /\ y.pipe = [x.pipe EXCEPT !.buf = b]
  <1> DEFINE p == [x.pipe EXCEPT !.buf = b]
  <1>1. [x EXCEPT !.pipe.buf = b] = [x EXCEPT !.pipe = p]
    BY DEF States
  <1>2. p \in PipeTypes
    BY StateParts DEF PipeTypes
  <1> HIDE DEF p
  <1>3. [x EXCEPT !.pipe = p] \in States /\ [x EXCEPT !.pipe = p].conn = x.conn
        /\ [x EXCEPT !.pipe = p].pipe = p
    BY <1>2, PipeWith
  <1> QED  BY <1>1, <1>3 DEF p

\* Moving the position changes nothing else.
LEMMA SetPos ==
    ASSUME NEW x \in States, NEW b \in Nat
    PROVE  LET y == [x EXCEPT !.pipe.pos = b] IN
           /\ y \in States /\ y.conn = x.conn
           /\ y.pipe = [x.pipe EXCEPT !.pos = b]
  <1> DEFINE p == [x.pipe EXCEPT !.pos = b]
  <1>1. [x EXCEPT !.pipe.pos = b] = [x EXCEPT !.pipe = p]
    BY DEF States
  <1>2. p \in PipeTypes
    BY StateParts DEF PipeTypes
  <1> HIDE DEF p
  <1>3. [x EXCEPT !.pipe = p] \in States /\ [x EXCEPT !.pipe = p].conn = x.conn
        /\ [x EXCEPT !.pipe = p].pipe = p
    BY <1>2, PipeWith
  <1> QED  BY <1>1, <1>3 DEF p

\* on_recv() moves pos by what it hands over and keeps the buffer.
LEMMA OnRecvMovesPos ==
    ASSUME NEW x \in States, NEW n \in Nat, NEW y \in OnRecv(x, n)
    PROVE  /\ SameButBytes(x, y)
           /\ y.pipe.pos = x.pipe.pos + n /\ y.pipe.buf = x.pipe.buf
  <1> DEFINE to == x.pipe.pos + n
             m == [x EXCEPT !.pipe.pos = to]
             ok == to = FileSize \/ n % PIECE = 0
             a == Assert(m, 427, ok)
  <1>1. to \in Nat
    BY StateParts DEF PipeTypes
  <1>2. m \in States /\ m.conn = x.conn /\ m.pipe = [x.pipe EXCEPT !.pos = to]
    <2> HIDE DEF to
    <2> QED  BY <1>1, SetPos
  <1>3. ok \in BOOLEAN
    OBVIOUS
  <1>4. y \in {a, PipeClose(a)}
    BY DEF OnRecv
  <1> HIDE DEF m, ok
  <1>5. a \in States /\ a.pipe = m.pipe /\ a.conn = m.conn
    BY <1>2, <1>3, AssertIsNote
  <1> HIDE DEF a
  <1>6. /\ PipeClose(a) \in States
        /\ PipeClose(a).pipe = [a.pipe EXCEPT !.closing = TRUE]
        /\ PipeClose(a).conn = [a.conn EXCEPT !.doomed = TRUE]
    BY <1>5, PipeCloseDooms
  <1>7. x.pipe \in PipeTypes /\ x.conn \in ConnTypes
    BY StateParts
  <1>8. CASE y = a
    BY <1>2, <1>5, <1>7, <1>8 DEF SameButBytes, PipeTypes
  <1>9. CASE y = PipeClose(a)
    <2>1. y.pipe = [[x.pipe EXCEPT !.pos = to] EXCEPT !.closing = TRUE]
      BY <1>2, <1>5, <1>6, <1>9
    <2>2. y.conn = [x.conn EXCEPT !.doomed = TRUE]
      BY <1>2, <1>5, <1>6, <1>9
    <2>3. /\ y.pipe.pos = to /\ y.pipe.buf = x.pipe.buf
          /\ y.pipe.redirecting = x.pipe.redirecting /\ y.pipe.closing
      BY <1>7, <2>1 DEF PipeTypes
    <2>4. /\ y.conn.code = x.conn.code /\ y.conn.arrived = x.conn.arrived
          /\ y.conn.total = x.conn.total /\ y.conn.phase = x.conn.phase
          /\ y.conn.doomed
      BY <1>7, <2>2 DEF ConnTypes
    <2> QED  BY <1>6, <1>9, <2>3, <2>4 DEF SameButBytes
  <1> QED  BY <1>4, <1>8, <1>9

\* What one function leaves alone and the next does, both do.
LEMMA SameButBytesIsTransitive ==
    ASSUME NEW x, NEW y, NEW z, SameButBytes(x, y), SameButBytes(y, z)
    PROVE  SameButBytes(x, z)
  BY DEF SameButBytes

\* A function that leaves connection and flags alone changes bytes at most.
LEMMA SameButBytesAtFirst ==
    ASSUME NEW x \in States, NEW y \in States, y.conn = x.conn,
           y.pipe.redirecting = x.pipe.redirecting,
           y.pipe.closing = x.pipe.closing
    PROVE  SameButBytes(x, y)
  BY DEF SameButBytes

\* The head of a reply sets the length only.
LEMMA GotHeadKeepsBytes ==
    ASSUME NEW x \in States
    PROVE  SameButBytes(x, GotHead(x)) /\ GotHead(x).pipe.pos = x.pipe.pos
           /\ GotHead(x).pipe.buf = x.pipe.buf
  <1> DEFINE l == IF ~x.conn.called /\ x.pipe.len = 0 THEN x.conn.total ELSE x.pipe.len
             c == [x.conn EXCEPT !.called = TRUE]
             p == [x.pipe EXCEPT !.len = l]
             y == [x EXCEPT !.conn = c]
  <1>1. x.pipe \in PipeTypes /\ x.conn \in ConnTypes
    BY StateParts
  <1>2. l \in Nat
    BY <1>1 DEF PipeTypes, ConnTypes
  <1>3. c \in ConnTypes
    BY ZenonT(60), <1>1 DEF ConnTypes
  <1>4. p \in PipeTypes
    <2> HIDE DEF l
    <2> QED  BY <1>1, <1>2 DEF PipeTypes
  <1>5. y \in States /\ y.pipe = x.pipe /\ y.conn = c
    <2> HIDE DEF c
    <2> QED  BY <1>3, ConnWith
  <1>6. GotHead(x) = [y EXCEPT !.pipe = p]
    BY DEF GotHead, States
  <1> HIDE DEF y, p, c, l
  <1>7. /\ GotHead(x) \in States
        /\ GotHead(x).pipe = p /\ GotHead(x).conn = y.conn
    BY <1>4, <1>5, <1>6, PipeWith
  <1>8. /\ c.code = x.conn.code /\ c.arrived = x.conn.arrived /\ c.total = x.conn.total
        /\ c.phase = x.conn.phase /\ c.doomed = x.conn.doomed
    BY <1>1 DEF c, ConnTypes
  <1>9. /\ p.pos = x.pipe.pos /\ p.buf = x.pipe.buf
        /\ p.redirecting = x.pipe.redirecting /\ p.closing = x.pipe.closing
    BY <1>1 DEF p, PipeTypes
  <1> QED  BY <1>5, <1>7, <1>8, <1>9 DEF SameButBytes

\* The buffer takes n bytes, or hands over the piece they complete.
LEMMA FillBufferHoldsMore ==
    ASSUME NEW x \in States, NEW n \in Nat, x.pipe.buf + n <= PIECE,
           NEW y \in FillBuffer(x, n)
    PROVE  /\ SameButBytes(x, y) /\ Held(y) = Held(x) + n
           /\ y.pipe.buf < PIECE /\ y.pipe.buf \in {0, x.pipe.buf + n}
  <1> DEFINE m == [x EXCEPT !.pipe.buf = x.pipe.buf + n]
  <1>0. x.pipe \in PipeTypes /\ x.pipe.pos \in Nat /\ x.pipe.buf \in Nat
    BY StateParts DEF PipeTypes
  <1>1. x.pipe.buf + n \in Nat
    BY <1>0
  <1>2. m \in States /\ m.conn = x.conn /\ m.pipe = [x.pipe EXCEPT !.buf = x.pipe.buf + n]
    BY <1>1, SetBuffer
  <1>3. y \in IF m.pipe.buf = PIECE THEN { [z EXCEPT !.pipe.buf = 0] : z \in OnRecv(m, PIECE) }
              ELSE {m}
    BY DEF FillBuffer
  <1> HIDE DEF m
  <1>4. /\ m.pipe.buf = x.pipe.buf + n /\ m.pipe.pos = x.pipe.pos
        /\ m.pipe.redirecting = x.pipe.redirecting /\ m.pipe.closing = x.pipe.closing
    BY <1>0, <1>2 DEF PipeTypes
  <1>5. SameButBytes(x, m)
    BY <1>2, <1>4, SameButBytesAtFirst
  <1>6. CASE m.pipe.buf # PIECE
    BY <1>0, <1>3, <1>4, <1>5, <1>6, PipeAssumption DEF Held
  <1>7. CASE m.pipe.buf = PIECE
    <2>1. PICK z \in OnRecv(m, PIECE) : y = [z EXCEPT !.pipe.buf = 0]
      BY <1>3, <1>7
    <2>2. PIECE \in Nat \ {0}
      BY PipeAssumption
    <2>3. SameButBytes(m, z) /\ z.pipe.pos = m.pipe.pos + PIECE
      BY <1>2, <2>2, OnRecvMovesPos
    <2>4. z \in States
      BY <2>3 DEF SameButBytes
    <2>5. y \in States /\ y.conn = z.conn /\ y.pipe = [z.pipe EXCEPT !.buf = 0]
      BY <2>1, <2>4, SetBuffer
    <2>6. z.pipe \in PipeTypes
      BY <2>4, StateParts
    <2>7. /\ y.pipe.buf = 0 /\ y.pipe.pos = z.pipe.pos
          /\ y.pipe.redirecting = z.pipe.redirecting /\ y.pipe.closing = z.pipe.closing
      BY <2>5, <2>6 DEF PipeTypes
    <2>8. SameButBytes(z, y)
      BY <2>4, <2>5, <2>7, SameButBytesAtFirst
    <2>9. SameButBytes(x, y)
      BY <1>5, <2>3, <2>8, SameButBytesIsTransitive
    <2>10. Held(y) = Held(x) + n
      BY <1>0, <1>4, <1>7, <2>2, <2>3, <2>7 DEF Held
    <2> QED  BY <2>2, <2>7, <2>9, <2>10
  <1> QED  BY <1>6, <1>7

\* The whole pieces of the rest are handed over and its end is kept.
LEMMA HandOverRestHoldsMore ==
    ASSUME NEW x \in States, NEW n \in Nat, x.pipe.buf < PIECE, x.pipe.buf = 0 \/ n = 0,
           NEW y \in HandOverRest(x, n)
    PROVE  SameButBytes(x, y) /\ Held(y) = Held(x) + n /\ y.pipe.buf < PIECE
  <1> DEFINE rest  == n % PIECE
             whole == n - (n % PIECE)
  <1>0. x.pipe \in PipeTypes /\ x.pipe.pos \in Nat /\ x.pipe.buf \in Nat
    BY StateParts DEF PipeTypes
  <1>1. PIECE \in Nat \ {0}
    BY PipeAssumption
  <1>2. /\ rest \in Nat /\ whole \in Nat /\ rest < PIECE /\ rest + whole = n
        /\ n = 0 => rest = 0
    BY <1>1
  <1>3. PICK z \in IF whole > 0 THEN OnRecv(x, whole) ELSE {x} :
           y = [z EXCEPT !.pipe.buf = z.pipe.buf + rest]
    BY DEF HandOverRest
  <1> HIDE DEF rest, whole
  <1>4. SameButBytes(x, z) /\ z.pipe.pos = x.pipe.pos + whole /\ z.pipe.buf = x.pipe.buf
    <2>1. CASE whole > 0
      BY <1>2, <1>3, <2>1, OnRecvMovesPos
    <2>2. CASE ~(whole > 0)
      <3>1. z = x /\ whole = 0
        BY <1>2, <1>3, <2>2
      <3>2. SameButBytes(x, x)
        BY SameButBytesAtFirst
      <3> QED  BY <1>0, <3>1, <3>2
    <2> QED  BY <2>1, <2>2
  <1>5. z \in States
    BY <1>4 DEF SameButBytes
  <1>6. z.pipe \in PipeTypes
    BY <1>5, StateParts
  <1>7. z.pipe.buf + rest \in Nat
    BY <1>2, <1>6 DEF PipeTypes
  <1>8. /\ y \in States /\ y.conn = z.conn
        /\ y.pipe = [z.pipe EXCEPT !.buf = z.pipe.buf + rest]
    BY <1>3, <1>5, <1>7, SetBuffer
  <1>9. /\ y.pipe.buf = z.pipe.buf + rest /\ y.pipe.pos = z.pipe.pos
        /\ y.pipe.redirecting = z.pipe.redirecting /\ y.pipe.closing = z.pipe.closing
    BY <1>6, <1>8 DEF PipeTypes
  <1>10. SameButBytes(z, y)
    BY <1>5, <1>8, <1>9, SameButBytesAtFirst
  <1>11. SameButBytes(x, y)
    BY <1>4, <1>10, SameButBytesIsTransitive
  <1>12. Held(y) = Held(x) + n /\ y.pipe.buf < PIECE
    BY <1>0, <1>1, <1>2, <1>4, <1>9 DEF Held
  <1> QED  BY <1>11, <1>12

\* Handing over the buffer at the end of the range loses nothing.
LEMMA HandOverLastHoldsSame ==
    ASSUME NEW x \in States, NEW r, x.pipe.buf < PIECE, NEW y \in HandOverLast(x, r)
    PROVE  SameButBytes(x, y) /\ Held(y) = Held(x) /\ y.pipe.buf < PIECE
  <1>0. x.pipe.pos \in Nat /\ x.pipe.buf \in Nat
    BY StateParts DEF PipeTypes
  <1>1. CASE y = x
    <2>1. SameButBytes(x, x)
      BY SameButBytesAtFirst
    <2> QED  BY <1>1, <2>1
  <1>2. CASE y # x
    <2>1. PICK z \in OnRecv(x, x.pipe.buf) : y = [z EXCEPT !.pipe.buf = 0]
      BY <1>2 DEF HandOverLast
    <2>2. SameButBytes(x, z) /\ z.pipe.pos = x.pipe.pos + x.pipe.buf
      BY <1>0, OnRecvMovesPos
    <2>3. z \in States
      BY <2>2 DEF SameButBytes
    <2>4. z.pipe \in PipeTypes
      BY <2>3, StateParts
    <2>5. y \in States /\ y.conn = z.conn /\ y.pipe = [z.pipe EXCEPT !.buf = 0]
      BY <2>1, <2>3, SetBuffer
    <2>6. /\ y.pipe.buf = 0 /\ y.pipe.pos = z.pipe.pos
          /\ y.pipe.redirecting = z.pipe.redirecting /\ y.pipe.closing = z.pipe.closing
      BY <2>4, <2>5 DEF PipeTypes
    <2>7. SameButBytes(z, y)
      BY <2>3, <2>5, <2>6, SameButBytesAtFirst
    <2>8. SameButBytes(x, y)
      BY <2>2, <2>7, SameButBytesIsTransitive
    <2> QED  BY <1>0, <2>2, <2>6, <2>8, PipeAssumption DEF Held
  <1> QED  BY <1>1, <1>2

\* A body event of n bytes, however they fall on pieces: n more bytes are
\* handed over or kept.
LEMMA GotBodyHoldsMore ==
    ASSUME NEW x \in States, NEW r, NEW n \in Nat, x.pipe.buf < PIECE,
           NEW y \in GotBody(x, r, n)
    PROVE  SameButBytes(x, y) /\ Held(y) = Held(x) + n /\ y.pipe.buf < PIECE
  <1> DEFINE ok == x.pipe.pos % PIECE = 0
             a  == Assert(x, 130, ok)
             k  == Taken(a, n)
  <1>0. x.pipe.pos \in Nat /\ x.pipe.buf \in Nat /\ PIECE \in Nat \ {0}
    BY StateParts, PipeAssumption DEF PipeTypes
  <1>1. a \in States /\ a.pipe = x.pipe /\ a.conn = x.conn
    <2>1. ok \in BOOLEAN
      OBVIOUS
    <2> HIDE DEF ok
    <2> QED  BY <2>1, AssertIsNote
  <1>2. y \in UNION { HandOverLast(z, r) :
                  z \in UNION { HandOverRest(w, n - k) : w \in FillBuffer(a, k) } }
    BY DEF GotBody
  <1> HIDE DEF a, ok
  <1>3. /\ k \in Nat /\ k <= n /\ x.pipe.buf + k <= PIECE
        /\ k = n \/ x.pipe.buf + k \in {0, PIECE}
    BY <1>0, <1>1 DEF Taken, Least
  <1> HIDE DEF k
  <1>4. PICK w \in FillBuffer(a, k) : \E z \in HandOverRest(w, n - k) : y \in HandOverLast(z, r)
    BY <1>2
  <1>5. PICK z \in HandOverRest(w, n - k) : y \in HandOverLast(z, r)
    BY <1>4
  <1>6. SameButBytes(x, a)
    BY <1>1, SameButBytesAtFirst
  <1>7. /\ SameButBytes(a, w) /\ Held(w) = Held(a) + k
        /\ w.pipe.buf < PIECE /\ w.pipe.buf \in {0, a.pipe.buf + k}
    BY <1>1, <1>3, FillBufferHoldsMore
  <1>8. w \in States
    BY <1>7 DEF SameButBytes
  <1>9. n - k \in Nat /\ (w.pipe.buf = 0 \/ n - k = 0)
    <2>1. n - k \in Nat
      BY <1>3
    <2>2. CASE k = n
      BY <2>1, <2>2
    <2>3. CASE x.pipe.buf + k \in {0, PIECE}
      BY <1>0, <1>1, <1>7, <2>1, <2>3
    <2> QED  BY <1>3, <2>2, <2>3
  <1>10. SameButBytes(w, z) /\ Held(z) = Held(w) + (n - k) /\ z.pipe.buf < PIECE
    BY <1>7, <1>8, <1>9, HandOverRestHoldsMore
  <1>11. z \in States
    BY <1>10 DEF SameButBytes
  <1>12. SameButBytes(z, y) /\ Held(y) = Held(z) /\ y.pipe.buf < PIECE
    BY <1>5, <1>10, <1>11, HandOverLastHoldsSame
  <1>13. SameButBytes(x, y)
    BY <1>6, <1>7, <1>10, <1>12, SameButBytesIsTransitive
  <1>14. Held(a) = Held(x) /\ Held(x) \in Nat
    BY <1>0, <1>1 DEF Held
  <1> QED  BY <1>3, <1>7, <1>10, <1>12, <1>13, <1>14

\* What a chunk adds: its bytes, when it is content that is wanted.
LEMMA ChunkEventHoldsMore ==
    ASSUME NEW x \in States, NEW r, NEW n \in Nat, x.pipe.buf < PIECE,
           NEW y \in ChunkEvent(x, r, n)
    PROVE  /\ SameButBytes(x, y) /\ y.pipe.buf < PIECE
           /\ Held(y) = IF Ignores(x) \/ x.conn.code # Content THEN Held(x) ELSE Held(x) + n
  <1>0. SameButBytes(x, x) /\ x.pipe.pos \in Nat /\ x.pipe.buf \in Nat
    <2>1. x.pipe \in PipeTypes
      BY StateParts
    <2>2. x.pipe.pos \in Nat /\ x.pipe.buf \in Nat
      BY <2>1 DEF PipeTypes
    <2>3. SameButBytes(x, x)
      BY DEF SameButBytes
    <2> QED  BY <2>2, <2>3
  <1>1. CASE Ignores(x) \/ x.conn.code # Content
    BY <1>0, <1>1 DEF ChunkEvent
  <1>2. CASE ~(Ignores(x) \/ x.conn.code # Content)
    <2>1. /\ SameButBytes(x, GotHead(x)) /\ GotHead(x).pipe.pos = x.pipe.pos
          /\ GotHead(x).pipe.buf = x.pipe.buf
      BY GotHeadKeepsBytes
    <2>2. GotHead(x) \in States /\ Held(GotHead(x)) = Held(x)
      BY <2>1 DEF SameButBytes, Held
    <2>3. CASE n = 0
      BY <1>0, <1>2, <2>1, <2>2, <2>3 DEF ChunkEvent, Held
    <2>4. CASE n # 0
      <3>1. y \in GotBody(GotHead(x), r, n)
        BY <1>2, <2>4 DEF ChunkEvent
      <3>2. /\ SameButBytes(GotHead(x), y) /\ Held(y) = Held(GotHead(x)) + n
            /\ y.pipe.buf < PIECE
        BY <2>1, <2>2, <3>1, GotBodyHoldsMore
      <3> QED  BY <1>2, <2>1, <2>2, <3>2, SameButBytesIsTransitive
    <2> QED  BY <2>3, <2>4
  <1> QED  BY <1>1, <1>2

\* Telling the end closes the pipe and leaves its bytes.
LEMMA TellEndSound ==
    ASSUME NEW r, NEW x, Sound(x, r), NEW end \in Nat
    PROVE  Sound(TellEnd(x, end), r)
  <1> DEFINE y == [x EXCEPT !.told = Append(x.told, end)]
  <1>1. x \in States
    BY DEF Sound
  <1>2. y \in States /\ y.pipe = x.pipe /\ y.conn = x.conn
    BY <1>1 DEF States
  <1>3. TellEnd(x, end) = PipeClose(y)
    BY DEF TellEnd
  <1> HIDE DEF y
  <1>4. /\ PipeClose(y) \in States
        /\ PipeClose(y).pipe = [x.pipe EXCEPT !.closing = TRUE]
        /\ PipeClose(y).conn = [x.conn EXCEPT !.doomed = TRUE]
    BY <1>2, PipeCloseDooms
  <1>5. x.pipe \in PipeTypes /\ x.conn \in ConnTypes
    BY <1>1, StateParts
  <1> QED  BY <1>3, <1>4, <1>5 DEF Sound, Ignores, PipeTypes, ConnTypes

\* So does closing it without.
LEMMA PipeCloseSound ==
    ASSUME NEW r, NEW x, Sound(x, r)
    PROVE  Sound(PipeClose(x), r)
  <1>1. x \in States
    BY DEF Sound
  <1>2. /\ PipeClose(x) \in States
        /\ PipeClose(x).pipe = [x.pipe EXCEPT !.closing = TRUE]
        /\ PipeClose(x).conn = [x.conn EXCEPT !.doomed = TRUE]
    BY <1>1, PipeCloseDooms
  <1>3. x.pipe \in PipeTypes /\ x.conn \in ConnTypes
    BY <1>1, StateParts
  <1> QED  BY <1>2, <1>3 DEF Sound, Ignores, PipeTypes, ConnTypes

\* A connection that is doomed delivers what it has delivered.
LEMMA DoomedSound ==
    ASSUME NEW r, NEW x, Sound(x, r)
    PROVE  Sound([x EXCEPT !.conn.doomed = TRUE], r)
  <1> DEFINE c == [x.conn EXCEPT !.doomed = TRUE]
             y == [x EXCEPT !.conn = c]
  <1>1. x \in States
    BY DEF Sound
  <1>2. x.conn \in ConnTypes
    BY <1>1, StateParts
  <1>3. c \in ConnTypes
    BY ZenonT(60), <1>2 DEF ConnTypes
  <1>4. [x EXCEPT !.conn.doomed = TRUE] = y
    BY <1>1 DEF States
  <1>5. y \in States /\ y.pipe = x.pipe /\ y.conn = c
    <2> HIDE DEF c
    <2> QED  BY <1>1, <1>3, ConnWith
  <1>6. /\ c.doomed /\ c.code = x.conn.code /\ c.arrived = x.conn.arrived
    BY <1>2 DEF ConnTypes
  <1> HIDE DEF y, c
  <1> QED  BY <1>4, <1>5, <1>6 DEF Sound, Ignores

\* A redirect is followed, or ends the pipe.
LEMMA FollowRedirectSound ==
    ASSUME NEW r, NEW x, Sound(x, r), x.conn.code = Redirect
    PROVE  Sound(FollowRedirect(x), r)
  <1> DEFINE n == x.pipe.redirect_time + 1
             p == [x.pipe EXCEPT !.redirect_time = n]
             y == [x EXCEPT !.pipe = p]
             q == [p EXCEPT !.redirecting = TRUE]
             z == [y EXCEPT !.pipe = q]
  <1>1. x \in States
    BY DEF Sound
  <1>2. x.pipe \in PipeTypes /\ x.conn \in ConnTypes
    BY <1>1, StateParts
  <1>3. n \in Nat
    BY <1>2 DEF PipeTypes
  <1>4. p \in PipeTypes
    <2> HIDE DEF n
    <2> QED  BY <1>2, <1>3 DEF PipeTypes
  <1>5. y \in States /\ y.pipe = p /\ y.conn = x.conn
    <2> HIDE DEF p
    <2> QED  BY <1>1, <1>4, PipeWith
  <1>6. /\ p.pos = x.pipe.pos /\ p.buf = x.pipe.buf /\ p.closing = x.pipe.closing
        /\ p.redirecting = x.pipe.redirecting
    BY <1>2 DEF PipeTypes
  <1>7. [x EXCEPT !.pipe.redirect_time = x.pipe.redirect_time + 1] = y
    BY <1>1 DEF States
  <1> HIDE DEF n, p, y
  <1>8. Sound(y, r)
    BY <1>5, <1>6 DEF Sound, Ignores
  <1>9. q \in PipeTypes /\ q.pos = p.pos /\ q.buf = p.buf /\ q.closing = p.closing
    BY <1>4 DEF PipeTypes
  <1>10. z \in States /\ z.pipe = q /\ z.conn = x.conn
    <2> HIDE DEF q
    <2> QED  BY <1>5, <1>9, PipeWith
  <1>11. [y EXCEPT !.pipe.redirecting = TRUE, !.conn.doomed = TRUE]
            = [z EXCEPT !.conn = [x.conn EXCEPT !.doomed = TRUE]]
    BY <1>5 DEF States
  <1>12. [x.conn EXCEPT !.doomed = TRUE] \in ConnTypes
    BY ZenonT(60), <1>2 DEF ConnTypes
  <1> HIDE DEF q, z
  <1> DEFINE c == [x.conn EXCEPT !.doomed = TRUE]
             w == [z EXCEPT !.conn = c]
  <1>13. w \in States /\ w.pipe = q /\ w.conn = c
    <2>1. c \in ConnTypes
      BY <1>12
    <2> HIDE DEF c
    <2> QED  BY <1>10, <2>1, ConnWith
  <1>14. c.doomed /\ c.code = Redirect /\ c.arrived = x.conn.arrived
    BY <1>2 DEF ConnTypes
  <1>15. FollowRedirect(x) \in {TellEnd(y, 310), w}
    BY <1>7, <1>11 DEF FollowRedirect
  <1> HIDE DEF c, w
  <1>16. Sound(w, r)
    BY <1>6, <1>9, <1>13, <1>14 DEF Sound, Ignores, Content, Redirect
  <1>17. Sound(TellEnd(y, 310), r)
    BY <1>8, TellEndSound
  <1> QED  BY <1>15, <1>16, <1>17

\* The event of a reply keeps the bytes.
LEMMA ReplyEventSound ==
    ASSUME NEW r, NEW x, Sound(x, r)
    PROVE  Sound(ReplyEvent(x), r)
  <1>1. x.conn.code \in Nat
    BY StateParts DEF Sound, ConnTypes
  <1> QED  BY <1>1, FollowRedirectSound, TellEndSound DEF ReplyEvent

\* The pipe is freed with the bytes it had, or connects again where it was.
LEMMA CloseEventSound ==
    ASSUME NEW r, NEW x, Sound(x, r)
    PROVE  Sound(CloseEvent(x), r)
  <1>1. x \in States
    BY DEF Sound
  <1>2. x.pipe \in PipeTypes /\ x.conn \in ConnTypes
    BY <1>1, StateParts
  <1>3. ASSUME NEW y, Sound(y, r), Ignores(y)
        PROVE  Sound(FreePipe(y), r)
    <2> DEFINE p == [y.pipe EXCEPT !.freed = TRUE]
               c == [y.conn EXCEPT !.phase = "gone"]
               z == [y EXCEPT !.pipe = p]
    <2>1. y \in States
      BY <1>3 DEF Sound
    <2>2. y.pipe \in PipeTypes /\ y.conn \in ConnTypes
      BY <2>1, StateParts
    <2>3. /\ p \in PipeTypes /\ p.pos = y.pipe.pos /\ p.buf = y.pipe.buf
          /\ p.closing = y.pipe.closing /\ p.redirecting = y.pipe.redirecting
      BY <2>2 DEF PipeTypes
    <2>4. /\ c \in ConnTypes /\ c.doomed = y.conn.doomed
          /\ c.code = y.conn.code /\ c.arrived = y.conn.arrived
      BY <2>2 DEF ConnTypes
    <2>5. z \in States /\ z.pipe = p /\ z.conn = y.conn
      <3> HIDE DEF p
      <3> QED  BY <2>1, <2>3, PipeWith
    <2>6. FreePipe(y) = [z EXCEPT !.conn = c]
      BY <2>1 DEF FreePipe, States
    <2> HIDE DEF p, c, z
    <2>7. FreePipe(y) \in States /\ FreePipe(y).pipe = p /\ FreePipe(y).conn = c
      BY <2>4, <2>5, <2>6, ConnWith
    <2> QED  BY <1>3, <2>3, <2>4, <2>7 DEF Sound, Ignores
  <1>4. CASE x.pipe.closing
    BY <1>3, <1>4 DEF CloseEvent, Ignores
  <1>5. CASE ~x.pipe.closing /\ x.pipe.redirecting
    <2> DEFINE p == [x.pipe EXCEPT !.redirecting = FALSE]
               z == [x EXCEPT !.pipe = p]
    <2>1. /\ p \in PipeTypes /\ p.pos = x.pipe.pos /\ p.buf = x.pipe.buf
          /\ p.closing = x.pipe.closing /\ ~p.redirecting
      BY <1>2 DEF PipeTypes
    <2>2. NewConn \in ConnTypes /\ NewConn.code = 0 /\ NewConn.arrived = 0
      BY DEF NewConn, ConnTypes
    <2>3. z \in States /\ z.pipe = p /\ z.conn = x.conn
      <3> HIDE DEF p
      <3> QED  BY <1>1, <2>1, PipeWith
    <2>4. CloseEvent(x) = [z EXCEPT !.conn = NewConn]
      BY <1>1, <1>5 DEF CloseEvent, States
    <2> HIDE DEF p, z
    <2>5. CloseEvent(x) \in States /\ CloseEvent(x).pipe = p /\ CloseEvent(x).conn = NewConn
      BY <2>2, <2>3, <2>4, ConnWith
    <2> QED  BY <1>2, <1>5, <2>1, <2>2, <2>5 DEF Sound, Ignores, Content
  <1>6. CASE ~x.pipe.closing /\ ~x.pipe.redirecting
    <2>1. Sound(TellEnd(x, 502), r)
      BY TellEndSound
    <2>2. Ignores(TellEnd(x, 502))
      <3> DEFINE y == [x EXCEPT !.told = Append(x.told, 502)]
      <3>1. y \in States
        BY SMTT(30), <1>1 DEF States
      <3>2. TellEnd(x, 502) = PipeClose(y)
        BY DEF TellEnd
      <3> HIDE DEF y
      <3>3. PipeClose(y).pipe = [y.pipe EXCEPT !.closing = TRUE] /\ y.pipe \in PipeTypes
        BY <3>1, PipeCloseDooms, StateParts
      <3> QED  BY <3>2, <3>3 DEF Ignores, PipeTypes
    <2> QED  BY <1>3, <1>6, <2>1, <2>2 DEF CloseEvent
  <1> QED  BY <1>4, <1>5, <1>6

-----------------------------------------------------------------------------
(* The pipe.                                                               *)

IInv == request \in Requests /\ Sound(Current, request)

\* The state is what the handler has made of it.
LEMMA BecomeSound ==
    ASSUME NEW x, Sound(x, request), request \in Requests, Become(x)
    PROVE  IInv'
  <1>1. /\ pipe' = x.pipe /\ conn' = x.conn /\ told' = x.told /\ failed' = x.failed
        /\ request' = request
    BY DEF Become
  <1>2. x \in States
    BY DEF Sound
  <1>3. Current' = x
    BY <1>1, <1>2 DEF Current, States
  <1> QED  BY <1>1, <1>3 DEF IInv

\* A pipe starts where its range does.
LEMMA InitSound == Init => IInv
  <1> SUFFICES ASSUME Init PROVE IInv
    OBVIOUS
  <1>1. request \in [pos : 0..FileSize - 1, len : 0..FileSize] /\ request \in Requests
    BY PipeAssumption DEF Init
  <1>2. FileSize \in Nat
    BY PipeAssumption
  <1>3. request.pos \in Nat /\ request.len \in Nat
    BY <1>1, <1>2
  <1>4. pipe \in PipeTypes /\ pipe.buf = 0 /\ pipe.pos = request.pos
        /\ ~pipe.closing /\ ~pipe.redirecting
    BY <1>3 DEF Init, NewPipe, PipeTypes
  <1>5. conn \in ConnTypes /\ conn.code = 0 /\ conn.arrived = 0
    BY DEF Init, NewConn, ConnTypes
  <1>6. told \in Seq(Nat) /\ failed \in SUBSET Nat
    BY DEF Init
  <1>7. /\ Current \in States /\ Current.pipe = pipe /\ Current.conn = conn
    BY <1>4, <1>5, <1>6 DEF Current, States
  <1>8. PIECE > 0
    BY PipeAssumption
  <1>9. ~Ignores(Current) /\ ~pipe.redirecting
    BY <1>4, <1>7 DEF Ignores
  <1>10. pipe.pos + pipe.buf = request.pos + (IF conn.code = Content THEN conn.arrived ELSE 0)
    BY <1>3, <1>4, <1>5 DEF Content
  <1> QED  BY <1>1, <1>4, <1>5, <1>7, <1>8, <1>9, <1>10 DEF IInv, Sound

\* Bytes that arrive on a connection that is not doomed, for a state in
\* which they are counted.
LEMMA ArriveSound ==
    ASSUME IInv, NEW x \in States, NEW n \in Nat, Arrive(x, n), ~x.conn.doomed,
           ~Ignores(x), x.pipe = pipe, x.conn.code \in Codes,
           Held(x) = request.pos + (IF x.conn.code = Content THEN x.conn.arrived ELSE 0)
    PROVE  IInv'
  <1> DEFINE c == [x.conn EXCEPT !.arrived = x.conn.arrived + n]
             y == [x EXCEPT !.conn = c]
  <1>1. x.pipe \in PipeTypes /\ x.conn \in ConnTypes
    BY StateParts
  <1>2. /\ c \in ConnTypes /\ c.arrived = x.conn.arrived + n /\ c.code = x.conn.code
    BY <1>1 DEF ConnTypes
  <1>3. [x EXCEPT !.conn.arrived = x.conn.arrived + n] = y
    BY DEF States
  <1>4. y \in States /\ y.pipe = x.pipe /\ y.conn = c
    <2> HIDE DEF c
    <2> QED  BY <1>2, ConnWith
  <1>5. \E z \in ChunkEvent(y, request, n) :
            Become(IF y.conn.arrived = y.conn.total THEN ReplyEvent(z) ELSE z)
    BY <1>3 DEF Arrive
  <1> HIDE DEF y, c
  <1>6. PICK z \in ChunkEvent(y, request, n) :
            Become(IF y.conn.arrived = y.conn.total THEN ReplyEvent(z) ELSE z)
    BY <1>5
  <1>7. pipe.buf < PIECE /\ request \in Requests
    BY DEF IInv, Sound, Current
  <1>8. ~Ignores(y) /\ Held(y) = Held(x)
    BY <1>4 DEF Ignores, Held
  <1>9. /\ SameButBytes(y, z) /\ z.pipe.buf < PIECE
        /\ Held(z) = IF y.conn.code # Content THEN Held(y) ELSE Held(y) + n
    BY <1>4, <1>6, <1>7, <1>8, ChunkEventHoldsMore
  <1>10. Held(z) = request.pos + (IF z.conn.code = Content THEN z.conn.arrived ELSE 0)
    <2>1. request.pos \in Nat
      BY <1>7, PipeAssumption
    <2>2. x.conn.arrived \in Nat
      BY <1>1 DEF ConnTypes
    <2>3. z.conn.code = x.conn.code /\ z.conn.arrived = x.conn.arrived + n
      BY <1>2, <1>4, <1>9 DEF SameButBytes
    <2> QED  BY <1>2, <1>4, <1>8, <1>9, <2>1, <2>2, <2>3
  <1>11. Sound(z, request)
    <2>1. z.conn.code = x.conn.code /\ x.conn.code # 0
      BY <1>2, <1>4, <1>9 DEF SameButBytes, Codes, Content, Redirect, Refused
    <2>2. ~z.pipe.redirecting /\ (z.pipe.closing => z.conn.doomed) /\ z \in States
      BY <1>8, <1>9 DEF SameButBytes, Ignores
    <2> QED  BY <1>9, <1>10, <2>1, <2>2 DEF Sound, Ignores, Held
  <1>12. Sound(IF y.conn.arrived = y.conn.total THEN ReplyEvent(z) ELSE z, request)
    BY <1>11, ReplyEventSound
  <1> QED  BY <1>6, <1>7, <1>12, BecomeSound

\* Every event keeps the invariant.
LEMMA NextSound == IInv /\ [Next]_vars => IInv'
  <1> SUFFICES ASSUME IInv, [Next]_vars PROVE IInv'
    OBVIOUS
  <1>1. /\ request \in Requests /\ Sound(Current, request) /\ Current \in States
        /\ Current.pipe = pipe /\ Current.conn = conn
    BY DEF IInv, Sound, Current
  <1>2. pipe \in PipeTypes /\ conn \in ConnTypes
    BY <1>1, StateParts
  <1>3. CASE Connect
    <2> DEFINE c == [conn EXCEPT !.phase = "open"]
               y == [Current EXCEPT !.conn = c]
    <2>1. /\ c \in ConnTypes /\ c.doomed = conn.doomed /\ c.code = conn.code
          /\ c.arrived = conn.arrived
      BY <1>2 DEF ConnTypes
    <2>2. [Current EXCEPT !.conn.phase = "open"] = y
      BY <1>1 DEF States
    <2>3. y \in States /\ y.pipe = pipe /\ y.conn = c
      <3> HIDE DEF c
      <3> QED  BY <1>1, <2>1, ConnWith
    <2>4. Become(y)
      BY <1>3, <2>2 DEF Connect
    <2> HIDE DEF c, y
    <2>5. Sound(y, request)
      BY <1>1, <2>1, <2>3 DEF Sound, Ignores
    <2> QED  BY <1>1, <2>4, <2>5, BecomeSound
  <1>4. CASE ConnectFails
    <2>1. Sound(TellEnd([Current EXCEPT !.conn.doomed = TRUE], 502), request)
      BY <1>1, DoomedSound, TellEndSound
    <2> QED  BY <1>1, <1>4, <2>1, BecomeSound DEF ConnectFails
  <1>5. ASSUME NEW code \in Codes, NEW total \in 0..FileSize + ErrorBody, NEW n \in 0..IO,
               Answer(code, total, n)
        PROVE  IInv'
    <2> DEFINE b == [conn EXCEPT !.code = code]
               c == [b EXCEPT !.total = total]
               y == [Current EXCEPT !.conn = c]
    <2>1. total \in Nat /\ n \in Nat
      BY PipeAssumption
    <2>2. code \in {0, 206, 302, 404}
      BY DEF Codes, Content, Redirect, Refused
    <2>3. /\ c \in ConnTypes /\ c.doomed = conn.doomed /\ c.code = code
          /\ c.arrived = conn.arrived
      <3>1. /\ b \in ConnTypes /\ b.doomed = conn.doomed /\ b.code = code
            /\ b.arrived = conn.arrived
        BY <1>2, <2>2 DEF ConnTypes
      <3> HIDE DEF b
      <3> QED  BY <2>1, <3>1 DEF ConnTypes
    <2>4. [Current EXCEPT !.conn.code = code, !.conn.total = total] = y
      BY <1>1 DEF States
    <2>5. y \in States /\ y.pipe = pipe /\ y.conn = c
      <3> HIDE DEF c
      <3> QED  BY <1>1, <2>3, ConnWith
    <2>6. Arrive(y, n) /\ ~conn.doomed /\ conn.code = 0
      BY <1>5, <2>4 DEF Answer
    <2> HIDE DEF c, y
    <2>7. request.pos \in Nat
      BY <1>1, PipeAssumption
    <2>8. conn.arrived = 0 /\ ~Ignores(y) /\ Held(y) = request.pos
      <3>1. conn.arrived = 0 /\ ~pipe.closing /\ ~pipe.redirecting
        BY <1>1, <2>6 DEF Sound, Ignores
      <3>2. conn.code # Content
        BY <2>6 DEF Content
      <3>3. pipe.pos + pipe.buf = request.pos + 0
        BY <1>1, <3>2 DEF Sound
      <3> QED  BY <2>5, <2>7, <3>1, <3>3 DEF Ignores, Held
    <2>9. Held(y) = request.pos + (IF y.conn.code = Content THEN y.conn.arrived ELSE 0)
      BY <2>3, <2>5, <2>7, <2>8
    <2> QED  BY <2>1, <2>3, <2>5, <2>6, <2>8, <2>9, ArriveSound
  <1>6. ASSUME NEW n \in 1..IO, More(n)
        PROVE  IInv'
    <2>1. n \in Nat
      BY PipeAssumption
    <2>2. Arrive(Current, n) /\ ~conn.doomed /\ conn.code # 0
      BY <1>6 DEF More
    <2>3. conn.code \in Codes
      BY <1>2, <2>2 DEF ConnTypes, Codes, Content, Redirect, Refused
    <2>4. ~Ignores(Current)
         /\ Held(Current) = request.pos + (IF conn.code = Content THEN conn.arrived ELSE 0)
      BY <1>1, <2>2 DEF Sound, Held
    <2> QED  BY <1>1, <2>1, <2>2, <2>3, <2>4, ArriveSound
  <1>7. CASE Drop
    <2>1. Sound([Current EXCEPT !.conn.doomed = TRUE], request)
      BY <1>1, DoomedSound
    <2> QED  BY <1>1, <1>7, <2>1, BecomeSound DEF Drop
  <1>8. CASE CloseConn
    <2> DEFINE cut == conn.code # 0 /\ conn.arrived < conn.total
    <2>1. PICK x \in IF cut THEN ChunkEvent(Current, request, 0) ELSE {Current} :
              Become(CloseEvent(IF cut THEN ReplyEvent(x) ELSE x))
      BY <1>8 DEF CloseConn
    <2> HIDE DEF cut
    <2>2. CASE cut
      <3>1. x \in ChunkEvent(Current, request, 0) /\ Become(CloseEvent(ReplyEvent(x)))
        BY <2>1, <2>2
      <3>2. pipe.buf < PIECE /\ conn.doomed
        BY <1>1, <1>8 DEF Sound, CloseConn
      <3>3. /\ SameButBytes(Current, x) /\ x.pipe.buf < PIECE
            /\ Held(x) \in {Held(Current), Held(Current) + 0}
        BY <1>1, <3>1, <3>2, ChunkEventHoldsMore
      <3>4. Held(x) = Held(Current)
        BY <1>1, <1>2, <3>3 DEF Held, PipeTypes
      <3>5. Sound(x, request)
        BY <1>1, <3>2, <3>3, <3>4 DEF Sound, SameButBytes, Ignores, Held
      <3>6. Sound(CloseEvent(ReplyEvent(x)), request)
        BY <3>5, ReplyEventSound, CloseEventSound
      <3> QED  BY <1>1, <3>1, <3>6, BecomeSound
    <2>3. CASE ~cut
      <3>1. Become(CloseEvent(Current))
        BY <2>1, <2>3
      <3>2. Sound(CloseEvent(Current), request)
        BY <1>1, CloseEventSound
      <3> QED  BY <1>1, <3>1, <3>2, BecomeSound
    <2> QED  BY <2>2, <2>3
  <1>9. CASE TaskCloses
    <2>1. Sound(PipeClose(Current), request)
      BY <1>1, PipeCloseSound
    <2> QED  BY <1>1, <1>9, <2>1, BecomeSound DEF TaskCloses
  <1>10. CASE UNCHANGED vars
    <2>1. Current' = Current /\ request' = request
      BY <1>10 DEF vars, Current
    <2> QED  BY <1>1, <2>1 DEF IInv
  <1> QED  BY <1>3, <1>4, <1>5, <1>6, <1>7, <1>8, <1>9, <1>10 DEF Next

\* For every size of piece, file and event, every split of a reply, every
\* history of redirects and every moment at which the task closes the pipe:
\* what was handed over and what is buffered is what has arrived.
THEOREM EveryByteAccounted == Spec => []BytesAccounted
  <1>1. IInv => BytesAccounted
    BY DEF IInv, Sound, Current, BytesAccounted
  <1> QED  BY <1>1, InitSound, NextSound, PTL DEF Spec

-----------------------------------------------------------------------------
(* That a pipe feeds its task as module PipeFeed promises.  The code does   *)
(* so for ranges that end where a piece or the file ends; the theorems say  *)
(* so, and the run on ranges that end inside a piece shows that they could  *)
(* not say more.                                                            *)

Cut(pos) == pos % PIECE = 0 \/ pos = FileSize

\* Every range asked for ends at the end of a piece, of the file or, of an
\* unknown length, wherever the reply does.
EndsAtCuts == \A r \in Requests : r.len = 0 \/ Cut(r.pos + r.len)

\* The bytes a range has, and the bytes the origin answers it with.
AskedLen(r) == IF r.len = 0 THEN FileSize - r.pos ELSE r.len

AnsweredLen(r) ==
    IF r.len = 0 THEN FileSize - r.pos ELSE Least(r.len + 1, FileSize - r.pos)

-----------------------------------------------------------------------------
(* Multiples of a piece.                                                   *)

\* Products by PIECE, for an order the provers lose in a longer proof.
LEMMA Times ==
    ASSUME NEW a \in Int, NEW b \in Int
    PROVE  /\ a < b => a * PIECE + PIECE <= b * PIECE
           /\ (a + b) * PIECE = a * PIECE + b * PIECE
           /\ a * PIECE \in Int
  <1>1. (a + 1) * PIECE = a * PIECE + PIECE
    BY PipeAssumption
  <1>2. a < b => (a + 1) * PIECE <= b * PIECE
    BY PipeAssumption
  <1>3. (a + b) * PIECE = a * PIECE + b * PIECE /\ a * PIECE \in Int
    BY PipeAssumption
  <1> QED  BY <1>1, <1>2, <1>3

\* Division by PIECE.
LEMMA Division ==
    ASSUME NEW n \in Nat
    PROVE  /\ n \div PIECE \in Nat /\ n % PIECE \in 0..PIECE - 1
           /\ n = (n \div PIECE) * PIECE + (n % PIECE)
  BY PipeAssumption

\* Multiples differ by a multiple.
LEMMA NoRemainder ==
    ASSUME NEW a \in Nat, NEW b \in Nat, NEW m \in 0..PIECE - 1,
           a * PIECE = b * PIECE + m
    PROVE  m = 0
  <1> DEFINE x == a * PIECE
             y == b * PIECE
  <1>1. m \in Nat /\ m < PIECE /\ PIECE \in Nat
    BY PipeAssumption
  <1>2. /\ x \in Int /\ y \in Int
        /\ a < b => x + PIECE <= y
        /\ b < a => y + PIECE <= x
    BY Times
  <1>3. x = y + m /\ (a = b => x = y)
    OBVIOUS
  <1> HIDE DEF x, y
  <1>4. a = b
    BY <1>1, <1>2, <1>3
  <1> QED  BY <1>1, <1>2, <1>3, <1>4

\* A number without a remainder is a multiple.
LEMMA MultipleIs ==
    ASSUME NEW n \in Nat
    PROVE  n % PIECE = 0 <=> \E q \in Nat : n = q * PIECE
  <1>1. ASSUME n % PIECE = 0 PROVE \E q \in Nat : n = q * PIECE
    <2>1. n = (n \div PIECE) * PIECE + 0 /\ n \div PIECE \in Nat
      BY <1>1, Division
    <2>2. (n \div PIECE) * PIECE \in Int
      BY <2>1, Times
    <2> QED  BY <2>1, <2>2
  <1>2. ASSUME NEW q \in Nat, n = q * PIECE PROVE n % PIECE = 0
    BY <1>2, Division, NoRemainder
  <1> QED  BY <1>1, <1>2

\* The sum of multiples is one.
LEMMA MultiplesAdd ==
    ASSUME NEW a \in Nat, NEW b \in Nat, a % PIECE = 0, b % PIECE = 0
    PROVE  (a + b) % PIECE = 0
  <1>1. PICK p \in Nat : a = p * PIECE
    BY MultipleIs
  <1>2. PICK q \in Nat : b = q * PIECE
    BY MultipleIs
  <1>3. (p + q) * PIECE = a + b
    BY <1>1, <1>2, Times
  <1>4. p + q \in Nat /\ a + b \in Nat
    OBVIOUS
  <1> QED  BY <1>3, <1>4, MultipleIs

\* Without its remainder a number is a multiple.
LEMMA WholePart ==
    ASSUME NEW n \in Nat
    PROVE  n - (n % PIECE) \in Nat /\ (n - (n % PIECE)) % PIECE = 0
  <1> DEFINE w == (n \div PIECE) * PIECE
  <1>1. /\ n \div PIECE \in Nat /\ n % PIECE \in 0..PIECE - 1
        /\ n = w + (n % PIECE)
    BY Division
  <1>2. w \in Nat
    BY <1>1, PipeAssumption
  <1>3. \E q \in Nat : w = q * PIECE
    BY <1>1
  <1> HIDE DEF w
  <1>4. n - (n % PIECE) = w
    <2>1. n % PIECE \in Int
      BY <1>1, PipeAssumption
    <2> QED  BY <1>1, <1>2, <2>1
  <1>5. w % PIECE = 0
    BY <1>2, <1>3, MultipleIs
  <1> QED  BY <1>2, <1>4, <1>5

\* Multiples less than a piece apart are in order.
LEMMA MultiplesApart ==
    ASSUME NEW a \in Nat, NEW b \in Nat, a % PIECE = 0, b % PIECE = 0, a < b + PIECE
    PROVE  a <= b
  <1>1. PICK p \in Nat : a = p * PIECE
    BY MultipleIs
  <1>2. PICK q \in Nat : b = q * PIECE
    BY MultipleIs
  <1>3. (q < p => b + PIECE <= a) /\ (p < q => a + PIECE <= b)
    <2>1. p \in Int /\ q \in Int
      OBVIOUS
    <2>2. q < p => q * PIECE + PIECE <= p * PIECE
      BY <2>1, Times
    <2>3. p < q => p * PIECE + PIECE <= q * PIECE
      BY <2>1, Times
    <2> QED  BY <1>1, <1>2, <2>2, <2>3
  <1>4. p = q => a = b
    BY <1>1, <1>2
  <1> QED  BY <1>3, <1>4, PipeAssumption

\* A piece is a multiple, and so is nothing.
LEMMA OnePiece == PIECE % PIECE = 0 /\ 0 % PIECE = 0
  BY PipeAssumption

-----------------------------------------------------------------------------
(* The functions of the handler.                                           *)

\* What the body of a reply leaves alone, and where it can lead.
Feeds(x, y) ==
    /\ y.told = x.told /\ y.pipe.redirect_time = x.pipe.redirect_time
    /\ y.pipe.freed = x.pipe.freed
    /\ x.pipe.closing => y.pipe.closing
    /\ x.pipe.pos <= y.pipe.pos

\* What handing over bytes leaves alone.
Keeps(x, y) ==
    /\ Feeds(x, y)
    /\ y.pipe.len = x.pipe.len /\ y.conn.called = x.conn.called

\* Two functions after each other keep what both keep.
LEMMA KeepsIsTransitive ==
    ASSUME NEW x \in States, NEW y \in States, NEW z \in States, Keeps(x, y), Keeps(y, z)
    PROVE  Keeps(x, z)
  <1>1. x.pipe.pos \in Nat /\ y.pipe.pos \in Nat /\ z.pipe.pos \in Nat
    BY StateParts DEF PipeTypes
  <1> QED  BY <1>1 DEF Keeps, Feeds

\* Another buffer is all that SetBuffer changes.
LEMMA SetBufferKeeps ==
    ASSUME NEW x \in States, NEW b \in Nat
    PROVE  LET y == [x EXCEPT !.pipe.buf = b] IN
           /\ Keeps(x, y) /\ y.failed = x.failed
           /\ y.pipe.pos = x.pipe.pos /\ y.pipe.buf = b
  <1> DEFINE y == [x EXCEPT !.pipe.buf = b]
  <1>1. y.conn = x.conn /\ y.pipe = [x.pipe EXCEPT !.buf = b]
    BY SetBuffer
  <1>2. y.told = x.told /\ y.failed = x.failed
    BY DEF States
  <1>3. x.pipe \in PipeTypes /\ x.pipe.pos \in Nat
    BY StateParts DEF PipeTypes
  <1> HIDE DEF y
  <1>4. /\ y.pipe.len = x.pipe.len /\ y.pipe.redirect_time = x.pipe.redirect_time
        /\ y.pipe.freed = x.pipe.freed /\ y.pipe.closing = x.pipe.closing
        /\ y.pipe.pos = x.pipe.pos /\ y.pipe.buf = b
    BY <1>1, <1>3 DEF PipeTypes
  <1>5. Keeps(x, y) /\ y.failed = x.failed
    BY <1>1, <1>2, <1>3, <1>4 DEF Keeps, Feeds
  <1> QED  BY <1>4, <1>5 DEF y

\* Closing keeps everything but its two flags.
LEMMA PipeCloseKeeps ==
    ASSUME NEW x \in States
    PROVE  /\ Keeps(x, PipeClose(x)) /\ PipeClose(x).failed = x.failed
           /\ PipeClose(x).pipe.pos = x.pipe.pos /\ PipeClose(x).pipe.buf = x.pipe.buf
           /\ PipeClose(x).pipe.redirecting = x.pipe.redirecting
           /\ PipeClose(x).pipe.closing /\ PipeClose(x).conn.doomed
           /\ PipeClose(x).conn.code = x.conn.code /\ PipeClose(x).conn.phase = x.conn.phase
           /\ PipeClose(x).conn.total = x.conn.total
           /\ PipeClose(x).conn.arrived = x.conn.arrived
  <1> DEFINE y == PipeClose(x)
  <1>1. /\ y.pipe = [x.pipe EXCEPT !.closing = TRUE]
        /\ y.conn = [x.conn EXCEPT !.doomed = TRUE]
    BY PipeCloseDooms
  <1>2. y.told = x.told /\ y.failed = x.failed
    BY DEF PipeClose, States
  <1>3. x.pipe \in PipeTypes /\ x.conn \in ConnTypes
    BY StateParts
  <1> HIDE DEF y
  <1>4. /\ y.pipe.len = x.pipe.len /\ y.pipe.redirect_time = x.pipe.redirect_time
        /\ y.pipe.freed = x.pipe.freed /\ y.pipe.closing
        /\ y.pipe.pos = x.pipe.pos /\ y.pipe.buf = x.pipe.buf
        /\ y.pipe.redirecting = x.pipe.redirecting
    BY <1>1, <1>3 DEF PipeTypes
  <1>5. /\ y.conn.called = x.conn.called /\ y.conn.doomed /\ y.conn.code = x.conn.code
        /\ y.conn.phase = x.conn.phase /\ y.conn.total = x.conn.total
        /\ y.conn.arrived = x.conn.arrived
    BY <1>1, <1>3 DEF ConnTypes
  <1>6. x.pipe.pos <= y.pipe.pos
    BY <1>3, <1>4 DEF PipeTypes
  <1>7. Keeps(x, y) /\ y.failed = x.failed
    BY <1>2, <1>4, <1>5, <1>6 DEF Keeps, Feeds
  <1> QED  BY <1>4, <1>5, <1>7 DEF y

\* on_recv() with bytes that storage_write() accepts.
LEMMA OnRecvKeeps ==
    ASSUME NEW x \in States, NEW n \in Nat, x.pipe.pos + n = FileSize \/ n % PIECE = 0,
           NEW y \in OnRecv(x, n)
    PROVE  Keeps(x, y) /\ y.failed = x.failed
  <1> DEFINE to == x.pipe.pos + n
             m == [x EXCEPT !.pipe.pos = to]
  <1>1. x.pipe \in PipeTypes /\ x.pipe.pos \in Nat
    BY StateParts DEF PipeTypes
  <1>2. to \in Nat /\ x.pipe.pos <= to
    BY <1>1
  <1>3. m \in States /\ m.conn = x.conn /\ m.pipe = [x.pipe EXCEPT !.pos = to]
    <2> HIDE DEF to
    <2> QED  BY <1>2, SetPos
  <1>4. m.told = x.told /\ m.failed = x.failed
    BY DEF States
  <1>5. y \in {m, PipeClose(m)}
    <2> DEFINE ok == to = FileSize \/ n % PIECE = 0
    <2>1. ok
      OBVIOUS
    <2>2. OnRecv(x, n) = {Assert(m, 427, ok), PipeClose(Assert(m, 427, ok))}
      BY DEF OnRecv
    <2> HIDE DEF m, ok
    <2>3. Assert(m, 427, ok) = m
      BY <2>1 DEF Assert
    <2> QED  BY <2>2, <2>3
  <1> HIDE DEF m, to
  <1>6. /\ m.pipe.len = x.pipe.len /\ m.pipe.redirect_time = x.pipe.redirect_time
        /\ m.pipe.freed = x.pipe.freed /\ m.pipe.closing = x.pipe.closing
        /\ m.pipe.pos = to
    BY <1>1, <1>3 DEF PipeTypes
  <1>7. Keeps(x, m)
    BY <1>2, <1>3, <1>4, <1>6 DEF Keeps, Feeds
  <1>8. PipeClose(m) \in States /\ Keeps(m, PipeClose(m)) /\ PipeClose(m).failed = m.failed
    BY <1>3, PipeCloseKeeps, PipeCloseDooms
  <1>9. Keeps(x, PipeClose(m))
    BY <1>3, <1>7, <1>8, KeepsIsTransitive
  <1> QED  BY <1>4, <1>5, <1>7, <1>8, <1>9

\* A piece that the buffer completes is handed over whole.
LEMMA FillBufferKeeps ==
    ASSUME NEW x \in States, NEW n \in Nat, x.pipe.buf + n <= PIECE, x.pipe.pos % PIECE = 0,
           NEW y \in FillBuffer(x, n)
    PROVE  Keeps(x, y) /\ y.failed = x.failed /\ y.pipe.pos % PIECE = 0
  <1> DEFINE m == [x EXCEPT !.pipe.buf = x.pipe.buf + n]
  <1>0. x.pipe.pos \in Nat /\ x.pipe.buf + n \in Nat
    BY StateParts DEF PipeTypes
  <1>1. /\ m \in States /\ Keeps(x, m) /\ m.failed = x.failed
        /\ m.pipe.pos = x.pipe.pos
    BY <1>0, SetBuffer, SetBufferKeeps
  <1>2. y \in IF m.pipe.buf = PIECE THEN { [z EXCEPT !.pipe.buf = 0] : z \in OnRecv(m, PIECE) }
              ELSE {m}
    BY DEF FillBuffer
  <1> HIDE DEF m
  <1>3. CASE m.pipe.buf # PIECE
    BY <1>0, <1>1, <1>2, <1>3
  <1>4. CASE m.pipe.buf = PIECE
    <2>1. PICK z \in OnRecv(m, PIECE) : y = [z EXCEPT !.pipe.buf = 0]
      BY <1>2, <1>4
    <2>2. PIECE \in Nat
      BY PipeAssumption
    <2>3. SameButBytes(m, z) /\ z.pipe.pos = m.pipe.pos + PIECE
      BY <1>1, <2>2, OnRecvMovesPos
    <2>4. Keeps(m, z) /\ z.failed = m.failed
      BY <1>1, <2>2, OnePiece, OnRecvKeeps
    <2>5. z \in States
      BY <2>3 DEF SameButBytes
    <2>6. y \in States /\ Keeps(z, y) /\ y.failed = z.failed /\ y.pipe.pos = z.pipe.pos
      BY <2>1, <2>5, SetBuffer, SetBufferKeeps
    <2>7. Keeps(x, z)
      BY <1>1, <2>4, <2>5, KeepsIsTransitive
    <2>8. Keeps(x, y)
      BY <2>5, <2>6, <2>7, KeepsIsTransitive
    <2>9. (x.pipe.pos + PIECE) % PIECE = 0
      BY <1>0, <2>2, OnePiece, MultiplesAdd
    <2> QED  BY <1>1, <2>3, <2>4, <2>6, <2>8, <2>9
  <1> QED  BY <1>3, <1>4

\* So is what is whole of the rest.
LEMMA HandOverRestKeeps ==
    ASSUME NEW x \in States, NEW n \in Nat, x.pipe.pos % PIECE = 0,
           NEW y \in HandOverRest(x, n)
    PROVE  Keeps(x, y) /\ y.failed = x.failed /\ y.pipe.pos % PIECE = 0
  <1> DEFINE rest  == n % PIECE
             whole == n - (n % PIECE)
  <1>0. x.pipe.pos \in Nat
    BY StateParts DEF PipeTypes
  <1>1. rest \in Nat /\ whole \in Nat /\ whole % PIECE = 0
    BY WholePart, PipeAssumption
  <1>2. PICK z \in IF whole > 0 THEN OnRecv(x, whole) ELSE {x} :
           y = [z EXCEPT !.pipe.buf = z.pipe.buf + rest]
    BY DEF HandOverRest
  <1> HIDE DEF rest, whole
  <1>3. /\ z \in States /\ Keeps(x, z) /\ z.failed = x.failed
        /\ z.pipe.pos % PIECE = 0
    <2>1. CASE z = x
      <3>1. Keeps(x, x)
        BY <1>0 DEF Keeps, Feeds
      <3> QED  BY <2>1, <3>1
    <2>2. CASE z \in OnRecv(x, whole)
      <3>1. Keeps(x, z) /\ z.failed = x.failed
        BY <1>1, <2>2, OnRecvKeeps
      <3>2. SameButBytes(x, z) /\ z.pipe.pos = x.pipe.pos + whole
        BY <1>1, <2>2, OnRecvMovesPos
      <3>3. (x.pipe.pos + whole) % PIECE = 0
        BY <1>0, <1>1, MultiplesAdd
      <3> QED  BY <3>1, <3>2, <3>3 DEF SameButBytes
    <2> QED  BY <1>2, <2>1, <2>2
  <1>4. z.pipe.buf + rest \in Nat
    BY <1>1, <1>3, StateParts DEF PipeTypes
  <1>5. y \in States /\ Keeps(z, y) /\ y.failed = z.failed /\ y.pipe.pos = z.pipe.pos
    BY <1>2, <1>3, <1>4, SetBuffer, SetBufferKeeps
  <1>6. Keeps(x, y)
    BY <1>3, <1>5, KeepsIsTransitive
  <1> QED  BY <1>3, <1>5, <1>6

\* At the end of a range that ends where a piece or the file does, so is
\* what is left: nothing, or the last piece of the file.
LEMMA HandOverLastKeeps ==
    ASSUME NEW x \in States, NEW r, x.pipe.buf < PIECE, x.pipe.pos % PIECE = 0,
           Cut(r.pos + x.pipe.len), NEW y \in HandOverLast(x, r)
    PROVE  /\ Keeps(x, y) /\ y.failed = x.failed /\ Cut(y.pipe.pos)
           /\ Held(y) = r.pos + y.pipe.len => y.pipe.buf = 0
  <1>0. x.pipe.pos \in Nat /\ x.pipe.buf \in Nat
    BY StateParts DEF PipeTypes
  <1>1. CASE x.pipe.pos + x.pipe.buf # r.pos + x.pipe.len
    <2>1. y = x
      BY <1>1 DEF HandOverLast
    <2>2. Keeps(x, x)
      BY <1>0 DEF Keeps, Feeds
    <2> QED  BY <1>1, <2>1, <2>2 DEF Cut, Held
  <1>2. CASE x.pipe.pos + x.pipe.buf = r.pos + x.pipe.len
    <2>1. PICK z \in OnRecv(x, x.pipe.buf) : y = [z EXCEPT !.pipe.buf = 0]
      BY <1>2 DEF HandOverLast
    <2>2. x.pipe.pos + x.pipe.buf = FileSize \/ x.pipe.buf % PIECE = 0
      <3>1. Cut(x.pipe.pos + x.pipe.buf)
        BY <1>2
      <3>2. ASSUME (x.pipe.pos + x.pipe.buf) % PIECE = 0
            PROVE  x.pipe.buf = 0
        <4>1. x.pipe.pos + x.pipe.buf \in Nat /\ x.pipe.pos + x.pipe.buf < x.pipe.pos + PIECE
          BY <1>0, PipeAssumption
        <4>2. x.pipe.pos + x.pipe.buf <= x.pipe.pos
          BY <1>0, <3>2, <4>1, MultiplesApart
        <4> QED  BY <1>0, <4>2
      <3> QED  BY <3>1, <3>2, OnePiece DEF Cut
    <2>3. SameButBytes(x, z) /\ z.pipe.pos = x.pipe.pos + x.pipe.buf
      BY <1>0, <2>1, OnRecvMovesPos
    <2>4. Keeps(x, z) /\ z.failed = x.failed
      BY <1>0, <2>1, <2>2, OnRecvKeeps
    <2>5. z \in States
      BY <2>3 DEF SameButBytes
    <2>6. /\ y \in States /\ Keeps(z, y) /\ y.failed = z.failed /\ y.pipe.pos = z.pipe.pos
          /\ y.pipe.buf = 0
      BY <2>1, <2>5, SetBuffer, SetBufferKeeps
    <2>7. Keeps(x, y)
      BY <2>4, <2>5, <2>6, KeepsIsTransitive
    <2> QED  BY <1>2, <2>3, <2>4, <2>6, <2>7 DEF Cut
  <1> QED  BY <1>1, <1>2

\* A body event on a pipe that stands where a piece starts.
LEMMA GotBodyKeeps ==
    ASSUME NEW x \in States, NEW r, NEW n \in Nat, x.pipe.buf < PIECE,
           x.pipe.pos % PIECE = 0, Cut(r.pos + x.pipe.len), NEW y \in GotBody(x, r, n)
    PROVE  /\ Keeps(x, y) /\ y.failed = x.failed /\ Cut(y.pipe.pos)
           /\ Held(y) = r.pos + y.pipe.len => y.pipe.buf = 0
  <1> DEFINE k == Taken(x, n)
  <1>0. x.pipe.pos \in Nat /\ x.pipe.buf \in Nat /\ PIECE \in Nat \ {0}
    BY StateParts, PipeAssumption DEF PipeTypes
  <1>1. Assert(x, 130, x.pipe.pos % PIECE = 0) = x
    BY DEF Assert
  <1>2. y \in UNION { HandOverLast(z, r) :
                  z \in UNION { HandOverRest(w, n - k) : w \in FillBuffer(x, k) } }
    BY <1>1 DEF GotBody
  <1>3. /\ k \in Nat /\ k <= n /\ x.pipe.buf + k <= PIECE
        /\ k = n \/ x.pipe.buf + k \in {0, PIECE}
    BY <1>0 DEF Taken, Least
  <1> HIDE DEF k
  <1>4. PICK w \in FillBuffer(x, k) : \E z \in HandOverRest(w, n - k) : y \in HandOverLast(z, r)
    BY <1>2
  <1>5. PICK z \in HandOverRest(w, n - k) : y \in HandOverLast(z, r)
    BY <1>4
  <1>6. Keeps(x, w) /\ w.failed = x.failed /\ w.pipe.pos % PIECE = 0
    BY <1>3, FillBufferKeeps
  <1>7. SameButBytes(x, w) /\ w.pipe.buf < PIECE /\ w.pipe.buf \in {0, x.pipe.buf + k}
    BY <1>3, FillBufferHoldsMore
  <1>8. w \in States
    BY <1>7 DEF SameButBytes
  <1>9. n - k \in Nat /\ (w.pipe.buf = 0 \/ n - k = 0)
    <2>1. n - k \in Nat
      BY <1>3
    <2>2. CASE k = n
      BY <2>1, <2>2
    <2>3. CASE x.pipe.buf + k \in {0, PIECE}
      BY <1>0, <1>7, <2>1, <2>3
    <2> QED  BY <1>3, <2>2, <2>3
  <1>10. Keeps(w, z) /\ z.failed = w.failed /\ z.pipe.pos % PIECE = 0
    BY <1>6, <1>8, <1>9, HandOverRestKeeps
  <1>11. SameButBytes(w, z) /\ z.pipe.buf < PIECE
    BY <1>7, <1>8, <1>9, HandOverRestHoldsMore
  <1>12. z \in States
    BY <1>11 DEF SameButBytes
  <1>13. Keeps(x, z)
    BY <1>6, <1>8, <1>10, <1>12, KeepsIsTransitive
  <1>14. z.pipe.len = x.pipe.len
    BY <1>13 DEF Keeps, Feeds
  <1>15. /\ Keeps(z, y) /\ y.failed = z.failed /\ Cut(y.pipe.pos)
         /\ Held(y) = r.pos + y.pipe.len => y.pipe.buf = 0
    BY <1>5, <1>10, <1>11, <1>12, <1>14, HandOverLastKeeps
  <1>16. y \in States
    BY <1>5, <1>11, <1>12, HandOverLastHoldsSame DEF SameButBytes
  <1>17. Keeps(x, y)
    BY <1>12, <1>13, <1>15, <1>16, KeepsIsTransitive
  <1> QED  BY <1>6, <1>10, <1>15, <1>17

\* The ranges that are asked for.
LEMMA RangeFacts ==
    ASSUME EndsAtCuts, NEW r \in Requests
    PROVE  /\ r.pos \in Nat /\ r.len \in Nat /\ r.pos < FileSize /\ r.pos + r.len <= FileSize
           /\ r.pos % PIECE = 0
           /\ AskedLen(r) \in Nat /\ r.pos + AskedLen(r) <= FileSize
           /\ Cut(r.pos + AskedLen(r))
           /\ AnsweredLen(r) \in Nat /\ r.pos + AnsweredLen(r) <= FileSize
           /\ AnsweredLen(r) \in {AskedLen(r), AskedLen(r) + 1}
           /\ r.len = 0 => AnsweredLen(r) = AskedLen(r)
           /\ AskedLen(r) <= AnsweredLen(r)
  <1>1. /\ r \in [pos : 0..FileSize - 1, len : 0..FileSize]
        /\ r.pos % PIECE = 0 /\ r.pos + r.len <= FileSize /\ FileSize \in Nat
    BY PipeAssumption
  <1>2. r.pos \in Nat /\ r.len \in Nat /\ r.pos < FileSize
    BY <1>1
  <1>3. AskedLen(r) \in Nat /\ r.pos + AskedLen(r) <= FileSize
    BY <1>1, <1>2 DEF AskedLen
  <1>4. Cut(r.pos + AskedLen(r))
    <2>1. CASE r.len = 0
      <3>1. r.pos + AskedLen(r) = FileSize
        BY <1>1, <1>2, <2>1 DEF AskedLen
      <3> QED  BY <3>1 DEF Cut
    <2>2. CASE r.len # 0
      BY <2>2 DEF AskedLen, EndsAtCuts
    <2> QED  BY <2>1, <2>2
  <1>5. /\ AnsweredLen(r) \in Nat /\ r.pos + AnsweredLen(r) <= FileSize
        /\ AnsweredLen(r) \in {AskedLen(r), AskedLen(r) + 1}
        /\ r.len = 0 => AnsweredLen(r) = AskedLen(r)
        /\ AskedLen(r) <= AnsweredLen(r)
    BY <1>1, <1>2 DEF AnsweredLen, AskedLen, Least
  <1> QED  BY <1>1, <1>2, <1>3, <1>4, <1>5

\* The head of the content sets the length of a range that has none.
LEMMA GotHeadFeeds ==
    ASSUME NEW x \in States
    PROVE  /\ Feeds(x, GotHead(x)) /\ GotHead(x).failed = x.failed
           /\ GotHead(x).conn.called
           /\ GotHead(x).pipe.len = IF ~x.conn.called /\ x.pipe.len = 0
                                    THEN x.conn.total ELSE x.pipe.len
  <1> DEFINE l == IF ~x.conn.called /\ x.pipe.len = 0 THEN x.conn.total ELSE x.pipe.len
             c == [x.conn EXCEPT !.called = TRUE]
             p == [x.pipe EXCEPT !.len = l]
             y == [x EXCEPT !.conn = c]
             g == GotHead(x)
  <1>1. x.pipe \in PipeTypes /\ x.conn \in ConnTypes /\ x.pipe.pos \in Nat
    BY StateParts DEF PipeTypes
  <1>2. g = [y EXCEPT !.pipe = p]
    BY DEF GotHead, States
  <1>3. y \in States /\ y.conn = c /\ y.told = x.told /\ y.failed = x.failed
    <2>1. c \in ConnTypes
      BY ZenonT(60), <1>1 DEF ConnTypes
    <2> HIDE DEF c
    <2> QED  BY <2>1 DEF States
  <1> HIDE DEF y, c, p, g
  <1>4. g.pipe = p /\ g.conn = c /\ g.told = x.told /\ g.failed = x.failed
    BY <1>2, <1>3 DEF States
  <1>5. c.called
    BY <1>1 DEF c, ConnTypes
  <1> HIDE DEF l
  <1>6. /\ p.len = l /\ p.redirect_time = x.pipe.redirect_time /\ p.freed = x.pipe.freed
        /\ p.closing = x.pipe.closing /\ p.pos = x.pipe.pos
    BY <1>1 DEF p, PipeTypes
  <1>7. Feeds(x, g)
    BY <1>1, <1>4, <1>6 DEF Feeds
  <1> QED  BY <1>4, <1>5, <1>6, <1>7 DEF g, l

\* What a state of a pipe has to do with its range r, once its events are
\* through: it stands at a cut, no assert has failed, and
\* - without content it stands where the range starts;
\* - with content it knows how much there is to come, and has nothing left
\*   in its buffer when that has come.
Whole(x, r) ==
    /\ x.failed = {} /\ Cut(x.pipe.pos)
    /\ x.conn.code # Content =>
          /\ x.pipe.pos = r.pos /\ x.pipe.buf = 0 /\ x.pipe.len = r.len
          /\ ~x.conn.called
    /\ x.conn.code = Content =>
          /\ x.conn.called /\ x.pipe.len = AskedLen(r)
          /\ x.conn.total = AnsweredLen(r) /\ x.conn.arrived <= x.conn.total
          /\ Held(x) = r.pos + x.pipe.len => x.pipe.buf = 0

\* Content that arrives, of which the state x has counted n bytes that the
\* handler has not seen.
LEMMA ContentKeepsWhole ==
    ASSUME EndsAtCuts, NEW r \in Requests, NEW x \in States, NEW n \in Nat,
           x.pipe.buf < PIECE, Cut(x.pipe.pos), x.failed = {}, ~Ignores(x),
           x.conn.code = Content, x.conn.total = AnsweredLen(r),
           x.conn.arrived <= x.conn.total, Held(x) + n = r.pos + x.conn.arrived,
           \/ /\ x.conn.called /\ x.pipe.len = AskedLen(r)
              /\ Held(x) = r.pos + x.pipe.len => x.pipe.buf = 0
           \/ ~x.conn.called /\ x.pipe.len = r.len /\ x.pipe.buf = 0,
           NEW y \in ChunkEvent(x, r, n)
    PROVE  Whole(y, r) /\ Feeds(x, y)
  <1> DEFINE g == GotHead(x)
  <1>1. /\ x.pipe.pos \in Nat /\ x.pipe.buf \in Nat /\ x.conn.arrived \in Nat
        /\ x.conn.total \in Nat
    BY StateParts DEF PipeTypes, ConnTypes
  <1>2. /\ SameButBytes(x, g) /\ g.pipe.pos = x.pipe.pos /\ g.pipe.buf = x.pipe.buf
    BY GotHeadKeepsBytes
  <1>3. /\ Feeds(x, g) /\ g.failed = {} /\ g.conn.called
        /\ g.pipe.len = IF ~x.conn.called /\ x.pipe.len = 0 THEN x.conn.total ELSE x.pipe.len
    BY GotHeadFeeds
  <1>4. g.pipe.len = AskedLen(r)
    <2>1. CASE x.conn.called
      BY <1>3, <2>1
    <2>2. CASE ~x.conn.called /\ r.len = 0
      BY <1>3, <2>2, RangeFacts
    <2>3. CASE ~x.conn.called /\ r.len # 0
      BY <1>3, <2>3 DEF AskedLen
    <2> QED  BY <2>1, <2>2, <2>3
  <1>5. g \in States /\ g.conn.code = Content /\ g.conn.total = x.conn.total
        /\ g.conn.arrived = x.conn.arrived
    BY <1>2 DEF SameButBytes
  <1>6. y \in IF n = 0 THEN {g} ELSE GotBody(g, r, n)
    BY DEF ChunkEvent
  <1> HIDE DEF g
  <1>7. CASE n = 0
    <2>1. y = g
      BY <1>6, <1>7
    <2>2. Held(g) = Held(x)
      BY <1>2 DEF Held
    <2>3. Held(g) = r.pos + g.pipe.len => g.pipe.buf = 0
      BY <1>2, <1>3, <1>4, <2>2
    <2> QED  BY <1>2, <1>3, <1>4, <1>5, <2>1, <2>3 DEF Whole
  <1>8. CASE n # 0
    <2>1. y \in GotBody(g, r, n)
      BY <1>6, <1>8
    <2>2. x.pipe.pos % PIECE = 0
      <3>1. r.pos + AnsweredLen(r) <= FileSize /\ r.pos \in Nat /\ FileSize \in Nat
        BY RangeFacts, PipeAssumption
      <3>2. x.pipe.pos < FileSize
        BY <1>1, <1>8, <3>1 DEF Held
      <3> QED  BY <1>1, <3>1, <3>2 DEF Cut
    <2>3. Cut(r.pos + g.pipe.len)
      BY <1>4, RangeFacts
    <2>4. /\ Keeps(g, y) /\ y.failed = {} /\ Cut(y.pipe.pos)
          /\ Held(y) = r.pos + y.pipe.len => y.pipe.buf = 0
      BY <1>2, <1>3, <1>5, <2>1, <2>2, <2>3, GotBodyKeeps
    <2>5. SameButBytes(g, y)
      BY <1>2, <1>5, <2>1, GotBodyHoldsMore
    <2>6. y \in States
      BY <2>5 DEF SameButBytes
    <2>7. Feeds(x, y)
      <3>1. x.pipe.pos \in Nat /\ g.pipe.pos \in Nat /\ y.pipe.pos \in Nat
        BY <1>5, <2>6, StateParts DEF PipeTypes
      <3> QED  BY <1>3, <2>4, <3>1 DEF Keeps, Feeds
    <2>8. Whole(y, r)
      BY <1>3, <1>4, <1>5, <2>4, <2>5 DEF Whole, Keeps, SameButBytes
    <2> QED  BY <2>7, <2>8
  <1> QED  BY <1>7, <1>8

-----------------------------------------------------------------------------
(* The end of a pipe.                                                      *)

\* What a pipe has said of its end: nothing before the task let go of it,
\* and one thing at most, which is right.
Ended(x) ==
    /\ x.pipe.redirect_time <= MS_MAX_REDIRECT_TIME + (IF x.pipe.closing THEN 1 ELSE 0)
    /\ x.conn.total <= FileSize + ErrorBody /\ x.conn.arrived <= x.conn.total
    /\ x.pipe.freed => x.pipe.closing /\ x.conn.phase = "gone"
    /\ \/ x.told = <<>>
       \/ x.pipe.closing /\ \E e \in {Redirect, Refused, 310, 502} : x.told = <<e>>
       \/ x.pipe.closing /\ x.told = <<Content>> /\ x.conn.code = Content

\* What a step of the handler may do to the task: hand over bytes to one
\* that has not let go, and tell it the end with the close.
Moves(x, y) ==
    /\ x.pipe.pos <= y.pipe.pos
    /\ x.pipe.closing => y.pipe.closing /\ y.pipe.pos = x.pipe.pos /\ y.told = x.told
    /\ y.told = x.told \/ (y.told # <<>> /\ y.pipe.closing)
    /\ x.pipe.freed => y.pipe.freed

\* Steps after each other are one.
LEMMA MovesIsTransitive ==
    ASSUME NEW x \in States, NEW y \in States, NEW z \in States, Moves(x, y), Moves(y, z)
    PROVE  Moves(x, z)
  <1>1. x.pipe.pos \in Nat /\ y.pipe.pos \in Nat /\ z.pipe.pos \in Nat
    BY StateParts DEF PipeTypes
  <1> QED  BY <1>1 DEF Moves

\* Content does not move a pipe that was let go of.
LEMMA FeedsMoves ==
    ASSUME NEW x \in States, NEW y \in States, Feeds(x, y), ~x.pipe.closing
    PROVE  Moves(x, y)
  BY DEF Feeds, Moves

\* The end is told once.
LEMMA TellEndEnds ==
    ASSUME NEW r, NEW x \in States, Whole(x, r), ~x.pipe.closing, ~x.pipe.freed,
           x.told = <<>>, x.pipe.redirect_time <= MS_MAX_REDIRECT_TIME + 1,
           x.conn.total <= FileSize + ErrorBody, x.conn.arrived <= x.conn.total,
           NEW end \in {Redirect, Refused, 310, 502, Content},
           end = Content => x.conn.code = Content
    PROVE  LET y == TellEnd(x, end) IN
           /\ y \in States /\ Whole(y, r) /\ Ended(y) /\ Moves(x, y)
           /\ y.told # <<>> /\ y.pipe.closing /\ y.conn.doomed
           /\ y.conn.phase = x.conn.phase /\ ~y.pipe.freed
  <1> DEFINE m == [x EXCEPT !.told = Append(x.told, end)]
             y == TellEnd(x, end)
  <1>1. end \in Nat
    BY DEF Redirect, Refused, Content
  <1>2. Append(x.told, end) = <<end>> /\ <<end>> \in Seq(Nat) /\ <<end>> # <<>>
    BY <1>1
  <1>3. /\ m \in States /\ m.pipe = x.pipe /\ m.conn = x.conn /\ m.failed = x.failed
        /\ m.told = <<end>>
    BY <1>2 DEF States
  <1>4. y = PipeClose(m)
    BY DEF TellEnd
  <1> HIDE DEF m, y
  <1>5. /\ y \in States /\ Keeps(m, y) /\ y.failed = m.failed
        /\ y.pipe.pos = m.pipe.pos /\ y.pipe.buf = m.pipe.buf
        /\ y.pipe.closing /\ y.conn.doomed
        /\ y.conn.code = m.conn.code /\ y.conn.phase = m.conn.phase
        /\ y.conn.total = m.conn.total /\ y.conn.arrived = m.conn.arrived
    BY <1>3, <1>4, PipeCloseKeeps, PipeCloseDooms
  <1>6. /\ y.told = <<end>> /\ y.pipe.len = x.pipe.len /\ y.pipe.freed = x.pipe.freed
        /\ y.pipe.redirect_time = x.pipe.redirect_time /\ y.conn.called = x.conn.called
    BY <1>3, <1>5 DEF Keeps, Feeds
  <1>7. Held(y) = Held(x)
    BY <1>3, <1>5 DEF Held
  <1>8. Whole(y, r)
    BY <1>3, <1>5, <1>6, <1>7 DEF Whole
  <1>9. Ended(y)
    BY <1>3, <1>5, <1>6 DEF Ended
  <1>10. Moves(x, y)
    <2>1. x.pipe.pos \in Nat
      BY StateParts DEF PipeTypes
    <2> QED  BY <1>2, <1>3, <1>5, <1>6, <2>1 DEF Moves
  <1> QED  BY <1>2, <1>3, <1>5, <1>6, <1>8, <1>9, <1>10 DEF y

\* A redirect is followed three times at most.
LEMMA FollowRedirectEnds ==
    ASSUME NEW r, NEW x \in States, Whole(x, r), Ended(x), ~x.pipe.closing,
           x.conn.code = Redirect
    PROVE  LET y == FollowRedirect(x) IN
           /\ y \in States /\ Whole(y, r) /\ Ended(y) /\ Moves(x, y)
           /\ y.pipe.closing => y.told # <<>>
           /\ y.conn.phase = x.conn.phase /\ ~y.pipe.freed
  <1> DEFINE n == x.pipe.redirect_time + 1
             p == [x.pipe EXCEPT !.redirect_time = n]
             m == [x EXCEPT !.pipe = p]
             q == [p EXCEPT !.redirecting = TRUE]
             c == [x.conn EXCEPT !.doomed = TRUE]
             z == [m EXCEPT !.pipe = q]
             w == [z EXCEPT !.conn = c]
  <1>1. x.pipe \in PipeTypes /\ x.conn \in ConnTypes
    BY StateParts
  <1>2. n \in Nat /\ n <= MS_MAX_REDIRECT_TIME + 1
    BY <1>1 DEF PipeTypes, Ended, MS_MAX_REDIRECT_TIME
  <1>3. /\ x.told = <<>> /\ ~x.pipe.freed
        /\ x.conn.total <= FileSize + ErrorBody /\ x.conn.arrived <= x.conn.total
    BY DEF Ended
  <1>4. /\ p \in PipeTypes /\ p.redirect_time = n /\ p.pos = x.pipe.pos /\ p.buf = x.pipe.buf
        /\ p.len = x.pipe.len /\ p.closing = x.pipe.closing /\ p.freed = x.pipe.freed
    <2> HIDE DEF n
    <2> QED  BY <1>1, <1>2 DEF PipeTypes
  <1>5. /\ m \in States /\ m.pipe = p /\ m.conn = x.conn /\ m.told = x.told
        /\ m.failed = x.failed
    <2> HIDE DEF p
    <2> QED  BY <1>4 DEF States
  <1>6. [x EXCEPT !.pipe.redirect_time = n] = m
    BY DEF States
  <1>7. FollowRedirect(x) = IF m.pipe.redirect_time > MS_MAX_REDIRECT_TIME
                            THEN TellEnd(m, 310)
                            ELSE [m EXCEPT !.pipe.redirecting = TRUE, !.conn.doomed = TRUE]
    BY <1>6 DEF FollowRedirect
  <1>8. /\ q \in PipeTypes /\ q.redirect_time = n /\ q.pos = x.pipe.pos /\ q.buf = x.pipe.buf
        /\ q.len = x.pipe.len /\ q.closing = x.pipe.closing /\ q.freed = x.pipe.freed
    <2> HIDE DEF p
    <2> QED  BY <1>4 DEF PipeTypes
  <1>9. /\ c \in ConnTypes /\ c.code = x.conn.code /\ c.called = x.conn.called
        /\ c.total = x.conn.total /\ c.arrived = x.conn.arrived /\ c.phase = x.conn.phase
    BY ZenonT(60), <1>1 DEF ConnTypes
  <1>10. [m EXCEPT !.pipe.redirecting = TRUE, !.conn.doomed = TRUE] = w
    <2> HIDE DEF p
    <2> QED  BY <1>5 DEF States
  <1> HIDE DEF m
  <1>11. /\ w \in States /\ w.pipe = q /\ w.conn = c /\ w.told = x.told
         /\ w.failed = x.failed
    <2> HIDE DEF q, c
    <2> QED  BY <1>5, <1>8, <1>9 DEF States
  <1> HIDE DEF n, p, q, c, z, w
  <1>12. x.pipe.pos \in Nat
    BY <1>1 DEF PipeTypes
  <1>13. Whole(m, r) /\ Whole(w, r)
    BY <1>4, <1>5, <1>8, <1>9, <1>11 DEF Whole, Content, Redirect
  <1>14. Moves(x, m) /\ Moves(x, w)
    BY <1>4, <1>5, <1>8, <1>11, <1>12 DEF Moves
  <1>15. CASE n > MS_MAX_REDIRECT_TIME
    <2>1. FollowRedirect(x) = TellEnd(m, 310)
      BY <1>4, <1>5, <1>7, <1>15
    <2>2. LET y == TellEnd(m, 310) IN
          /\ y \in States /\ Whole(y, r) /\ Ended(y) /\ Moves(m, y) /\ y.told # <<>>
          /\ y.conn.phase = m.conn.phase /\ ~y.pipe.freed
      <3>1. /\ ~m.pipe.closing /\ ~m.pipe.freed /\ m.told = <<>>
            /\ m.pipe.redirect_time <= MS_MAX_REDIRECT_TIME + 1
            /\ m.conn.total <= FileSize + ErrorBody /\ m.conn.arrived <= m.conn.total
        BY <1>2, <1>3, <1>4, <1>5
      <3>2. 310 \in {Redirect, Refused, 310, 502, Content} /\ 310 # Content
        BY DEF Content
      <3> QED  BY <1>5, <1>13, <3>1, <3>2, TellEndEnds
    <2>3. Moves(x, TellEnd(m, 310))
      BY <1>5, <1>14, <2>2, MovesIsTransitive
    <2> QED  BY <1>5, <2>1, <2>2, <2>3
  <1>16. CASE ~(n > MS_MAX_REDIRECT_TIME)
    <2>1. FollowRedirect(x) = w
      BY <1>4, <1>5, <1>7, <1>10, <1>16
    <2>2. Ended(w)
      <3>1. n <= MS_MAX_REDIRECT_TIME
        BY <1>2, <1>16 DEF MS_MAX_REDIRECT_TIME
      <3>2. w.pipe.redirect_time <= MS_MAX_REDIRECT_TIME + 0
        BY <1>2, <1>8, <1>11, <3>1 DEF MS_MAX_REDIRECT_TIME
      <3> QED  BY <1>3, <1>8, <1>9, <1>11, <3>2 DEF Ended
    <2> QED  BY <1>3, <1>8, <1>9, <1>11, <1>13, <1>14, <2>1, <2>2
  <1> QED  BY <1>15, <1>16

\* The reply ends the pipe or sends it on.
LEMMA ReplyEventEnds ==
    ASSUME NEW r, NEW x \in States, Whole(x, r), Ended(x), x.conn.code # 0
    PROVE  LET y == ReplyEvent(x) IN
           /\ y \in States /\ Whole(y, r) /\ Ended(y) /\ Moves(x, y)
           /\ y.pipe.closing => x.pipe.closing \/ y.told # <<>>
           /\ y.conn.phase = x.conn.phase /\ y.pipe.freed = x.pipe.freed
  <1>1. x.conn.code \in {0, 206, 302, 404} /\ x.pipe.pos \in Nat
    BY StateParts DEF PipeTypes, ConnTypes
  <1>2. CASE Ignores(x)
    <2>1. ReplyEvent(x) = x
      BY <1>2 DEF ReplyEvent
    <2>2. Moves(x, x)
      BY <1>1 DEF Moves
    <2> QED  BY <2>1, <2>2
  <1>3. CASE ~Ignores(x) /\ x.conn.code = Redirect
    <2>1. ReplyEvent(x) = FollowRedirect(x) /\ ~x.pipe.closing /\ ~x.pipe.freed
      BY <1>3 DEF ReplyEvent, Ignores, Ended
    <2>2. LET y == FollowRedirect(x) IN
          /\ y \in States /\ Whole(y, r) /\ Ended(y) /\ Moves(x, y)
          /\ y.pipe.closing => y.told # <<>>
          /\ y.conn.phase = x.conn.phase /\ ~y.pipe.freed
      BY <1>3, <2>1, FollowRedirectEnds
    <2>3. FollowRedirect(x).pipe.freed \in BOOLEAN /\ x.pipe.freed \in BOOLEAN
      BY <2>2, StateParts DEF PipeTypes
    <2> QED  BY <2>1, <2>2, <2>3
  <1>4. CASE ~Ignores(x) /\ x.conn.code # Redirect
    <2>1. ReplyEvent(x) = TellEnd(x, x.conn.code) /\ ~x.pipe.closing
      BY <1>4 DEF ReplyEvent, Ignores
    <2>2. x.conn.code \in {Redirect, Refused, 310, 502, Content}
      BY <1>1 DEF Refused, Content, Redirect
    <2>3. /\ x.told = <<>> /\ ~x.pipe.freed
          /\ x.pipe.redirect_time <= MS_MAX_REDIRECT_TIME + 1
          /\ x.conn.total <= FileSize + ErrorBody /\ x.conn.arrived <= x.conn.total
      <3>1. x.pipe.redirect_time \in Nat
        BY StateParts DEF PipeTypes
      <3> QED  BY <2>1, <3>1 DEF Ended, MS_MAX_REDIRECT_TIME
    <2> DEFINE e == x.conn.code
    <2>4. e \in {Redirect, Refused, 310, 502, Content} /\ (e = Content => x.conn.code = Content)
      BY <2>2
    <2> HIDE DEF e
    <2>5. LET y == TellEnd(x, e) IN
          /\ y \in States /\ Whole(y, r) /\ Ended(y) /\ Moves(x, y) /\ y.told # <<>>
          /\ y.conn.phase = x.conn.phase /\ ~y.pipe.freed
      BY <2>1, <2>3, <2>4, TellEndEnds
    <2>6. ReplyEvent(x) = TellEnd(x, e)
      BY <2>1 DEF e
    <2>7. TellEnd(x, e).pipe.freed \in BOOLEAN /\ x.pipe.freed \in BOOLEAN
      BY <2>5, StateParts DEF PipeTypes
    <2> QED  BY <2>3, <2>5, <2>6, <2>7
  <1> QED  BY <1>2, <1>3, <1>4

\* The connection closes: the pipe is freed, or connects again from where
\* its range starts.
LEMMA CloseEventEnds ==
    ASSUME NEW r, NEW x, Sound(x, r), Whole(x, r), Ended(x)
    PROVE  LET y == CloseEvent(x) IN
           /\ y \in States /\ Whole(y, r) /\ Ended(y) /\ Moves(x, y)
           /\ y.pipe.freed => x.pipe.closing \/ y.told # <<>>
  <1>1. x \in States
    BY DEF Sound
  <1>2. x.pipe \in PipeTypes /\ x.conn \in ConnTypes
    BY <1>1, StateParts
  <1>3. ASSUME NEW y \in States, Whole(y, r), Ended(y), y.pipe.closing
        PROVE  /\ FreePipe(y) \in States /\ Whole(FreePipe(y), r) /\ Ended(FreePipe(y))
               /\ Moves(y, FreePipe(y)) /\ FreePipe(y).told = y.told
    <2> DEFINE p == [y.pipe EXCEPT !.freed = TRUE]
               c == [y.conn EXCEPT !.phase = "gone"]
               z == FreePipe(y)
    <2>1. y.pipe \in PipeTypes /\ y.conn \in ConnTypes /\ y.pipe.pos \in Nat
      BY <1>3, StateParts DEF PipeTypes
    <2>2. /\ p \in PipeTypes /\ p.pos = y.pipe.pos /\ p.buf = y.pipe.buf /\ p.freed
          /\ p.len = y.pipe.len /\ p.redirect_time = y.pipe.redirect_time
          /\ p.closing = y.pipe.closing
      BY <2>1 DEF PipeTypes
    <2>3. /\ c \in ConnTypes /\ c.phase = "gone" /\ c.called = y.conn.called
          /\ c.code = y.conn.code /\ c.total = y.conn.total /\ c.arrived = y.conn.arrived
      BY <2>1 DEF ConnTypes
    <2>4. /\ z \in States /\ z.pipe = p /\ z.conn = c /\ z.told = y.told
          /\ z.failed = y.failed
      <3>1. z = [[y EXCEPT !.pipe = p] EXCEPT !.conn = c]
        BY <1>3 DEF FreePipe, States
      <3> HIDE DEF p, c, z
      <3> QED  BY <1>3, <2>2, <2>3, <3>1 DEF States
    <2> HIDE DEF p, c, z
    <2>5. Whole(z, r) /\ Ended(z) /\ Moves(y, z)
      <3>1. Held(z) = Held(y)
        BY <2>2, <2>4 DEF Held
      <3>2. Whole(z, r)
        BY <1>3, <2>2, <2>3, <2>4, <3>1 DEF Whole
      <3>3. Ended(z)
        <4>1. /\ z.pipe.closing /\ z.pipe.freed /\ z.conn.phase = "gone"
              /\ z.pipe.redirect_time = y.pipe.redirect_time
          BY <1>3, <2>2, <2>3, <2>4
        <4>2. /\ z.conn.total = y.conn.total /\ z.conn.arrived = y.conn.arrived
              /\ z.conn.code = y.conn.code
          BY <2>3, <2>4
        <4> QED  BY <1>3, <2>4, <4>1, <4>2 DEF Ended
      <3>4. Moves(y, z)
        <4>1. z.pipe.closing /\ z.pipe.freed /\ z.pipe.pos = y.pipe.pos
          BY <1>3, <2>2, <2>4
        <4> QED  BY <2>1, <2>4, <4>1 DEF Moves
      <3> QED  BY <3>2, <3>3, <3>4
    <2> QED  BY <2>4, <2>5 DEF z
  <1>4. CASE x.pipe.closing
    <2>1. CloseEvent(x) = FreePipe(x)
      BY <1>4 DEF CloseEvent
    <2> QED  BY <1>1, <1>3, <1>4, <2>1
  <1>5. CASE ~x.pipe.closing /\ x.pipe.redirecting
    <2> DEFINE p == [x.pipe EXCEPT !.redirecting = FALSE]
               y == CloseEvent(x)
    <2>1. /\ p \in PipeTypes /\ p.pos = x.pipe.pos /\ p.buf = x.pipe.buf
          /\ p.len = x.pipe.len /\ p.redirect_time = x.pipe.redirect_time
          /\ p.closing = x.pipe.closing /\ p.freed = x.pipe.freed /\ p.pos \in Nat
      BY <1>2 DEF PipeTypes
    <2>2. NewConn \in ConnTypes /\ NewConn.code = 0 /\ NewConn.arrived = 0
          /\ NewConn.total = 0 /\ ~NewConn.called
      BY DEF NewConn, ConnTypes
    <2>3. /\ y \in States /\ y.pipe = p /\ y.conn = NewConn /\ y.told = x.told
          /\ y.failed = x.failed
      <3>1. y = [[x EXCEPT !.pipe = p] EXCEPT !.conn = NewConn]
        BY <1>1, <1>5 DEF CloseEvent, States
      <3> HIDE DEF p, y
      <3> QED  BY <1>1, <2>1, <2>2, <3>1 DEF States
    <2> HIDE DEF p, y
    <2>4. x.conn.code # Content /\ ~x.pipe.freed
      BY <1>5 DEF Sound, Ended
    <2>5. Whole(y, r)
      BY <2>1, <2>2, <2>3, <2>4 DEF Whole, Content
    <2>6. Ended(y)
      <3>1. 0 <= FileSize + ErrorBody
        BY PipeAssumption
      <3> QED  BY <1>5, <2>1, <2>2, <2>3, <2>4, <3>1 DEF Ended
    <2>7. Moves(x, y)
      BY <1>5, <2>1, <2>3, <2>4 DEF Moves
    <2> QED  BY <2>1, <2>3, <2>4, <2>5, <2>6, <2>7 DEF y
  <1>6. CASE ~x.pipe.closing /\ ~x.pipe.redirecting
    <2> DEFINE y == TellEnd(x, 502)
    <2>1. CloseEvent(x) = FreePipe(y)
      BY <1>6 DEF CloseEvent
    <2>2. /\ x.told = <<>> /\ ~x.pipe.freed
          /\ x.pipe.redirect_time <= MS_MAX_REDIRECT_TIME + 1
          /\ x.conn.total <= FileSize + ErrorBody /\ x.conn.arrived <= x.conn.total
      BY <1>2, <1>6 DEF Ended, MS_MAX_REDIRECT_TIME, PipeTypes
    <2>3. 502 \in {Redirect, Refused, 310, 502, Content} /\ 502 # Content
      BY DEF Content
    <2>4. /\ y \in States /\ Whole(y, r) /\ Ended(y) /\ Moves(x, y)
          /\ y.told # <<>> /\ y.pipe.closing
      BY <1>1, <1>6, <2>2, <2>3, TellEndEnds
    <2> HIDE DEF y
    <2>5. /\ FreePipe(y) \in States /\ Whole(FreePipe(y), r) /\ Ended(FreePipe(y))
          /\ Moves(y, FreePipe(y)) /\ FreePipe(y).told = y.told
      BY <1>3, <2>4
    <2>6. Moves(x, FreePipe(y))
      BY <1>1, <2>4, <2>5, MovesIsTransitive
    <2> QED  BY <2>1, <2>4, <2>5, <2>6
  <1> QED  BY <1>4, <1>5, <1>6

-----------------------------------------------------------------------------
(* The pipe.                                                               *)

FInv == IInv /\ Whole(Current, request) /\ Ended(Current)

\* What every step makes of the pipe.
StepTo(z) ==
    /\ z \in States /\ Become(z) /\ Whole(z, request) /\ Ended(z) /\ Moves(Current, z)
    /\ z.pipe.freed => pipe.closing \/ z.told # <<>>

\* The variables are a state of the handler.
LEMMA CurrentIs ==
    ASSUME FInv
    PROVE  /\ Current \in States /\ Current.pipe = pipe /\ Current.conn = conn
           /\ Current.told = told /\ Current.failed = failed
           /\ pipe \in PipeTypes /\ conn \in ConnTypes /\ pipe.pos \in Nat
           /\ request \in Requests /\ Sound(Current, request)
           /\ Whole(Current, request) /\ Ended(Current)
  <1>1. Current \in States /\ Current.pipe = pipe /\ Current.conn = conn
        /\ Current.told = told /\ Current.failed = failed
    BY DEF FInv, IInv, Sound, Current
  <1>2. pipe \in PipeTypes /\ conn \in ConnTypes
    BY <1>1, StateParts
  <1>3. pipe.pos \in Nat
    BY <1>2 DEF PipeTypes
  <1> QED  BY <1>1, <1>2, <1>3 DEF FInv, IInv

\* Bytes that arrive on an open connection, for a state x in which the head
\* of their reply is known.
LEMMA ArriveSteps ==
    ASSUME EndsAtCuts, FInv, NEW x \in States, NEW n \in Nat, Arrive(x, n),
           x.pipe = pipe, x.told = told, x.failed = failed, ~pipe.freed, ~Ignores(x),
           x.conn.code \in Codes, x.conn.total <= FileSize + ErrorBody,
           x.conn.arrived + n <= x.conn.total,
           x.conn.code # Content =>
              /\ pipe.pos = request.pos /\ pipe.buf = 0 /\ pipe.len = request.len
              /\ ~x.conn.called,
           x.conn.code = Content =>
              /\ x.conn.total = AnsweredLen(request)
              /\ Held(x) = request.pos + x.conn.arrived
              /\ \/ /\ x.conn.called /\ pipe.len = AskedLen(request)
                    /\ Held(x) = request.pos + pipe.len => pipe.buf = 0
                 \/ ~x.conn.called /\ pipe.len = request.len /\ pipe.buf = 0
    PROVE  \E z : StepTo(z)
  <1> DEFINE c == [x.conn EXCEPT !.arrived = x.conn.arrived + n]
             y == [x EXCEPT !.conn = c]
  <1>0. /\ Current \in States /\ Current.pipe = pipe /\ Current.told = told
        /\ pipe \in PipeTypes /\ pipe.pos \in Nat /\ pipe.buf \in Nat /\ pipe.buf < PIECE
        /\ request \in Requests /\ failed = {} /\ Cut(pipe.pos)
        /\ pipe.redirect_time <= MS_MAX_REDIRECT_TIME + (IF pipe.closing THEN 1 ELSE 0)
    BY CurrentIs DEF PipeTypes, Sound, Whole, Ended
  <1>1. x.conn \in ConnTypes /\ x.conn.arrived \in Nat
    BY StateParts DEF ConnTypes
  <1>2. /\ c \in ConnTypes /\ c.arrived = x.conn.arrived + n /\ c.code = x.conn.code
        /\ c.total = x.conn.total /\ c.called = x.conn.called /\ c.phase = x.conn.phase
    BY <1>1 DEF ConnTypes
  <1>3. [x EXCEPT !.conn.arrived = x.conn.arrived + n] = y
    BY DEF States
  <1>4. /\ y \in States /\ y.pipe = pipe /\ y.conn = c /\ y.told = told
        /\ y.failed = failed
    <2> HIDE DEF c
    <2> QED  BY <1>2 DEF States
  <1>5. \E z \in ChunkEvent(y, request, n) :
            Become(IF y.conn.arrived = y.conn.total THEN ReplyEvent(z) ELSE z)
    BY <1>3 DEF Arrive
  <1> HIDE DEF y, c
  <1>6. PICK z \in ChunkEvent(y, request, n) :
            Become(IF y.conn.arrived = y.conn.total THEN ReplyEvent(z) ELSE z)
    BY <1>5
  <1>7. ~Ignores(y) /\ Held(y) = Held(x) /\ ~pipe.closing /\ ~pipe.redirecting
    BY <1>4 DEF Ignores, Held
  <1>8. SameButBytes(y, z)
    BY <1>0, <1>4, <1>6, ChunkEventHoldsMore
  <1>9. z \in States /\ z.conn.code = x.conn.code /\ z.conn.total = x.conn.total
        /\ z.conn.arrived = x.conn.arrived + n /\ z.conn.phase = x.conn.phase
    BY <1>2, <1>4, <1>8 DEF SameButBytes
  <1>10. Whole(z, request) /\ Feeds(y, z)
    <2>1. CASE x.conn.code = Content
      <3>1. Held(y) + n = request.pos + y.conn.arrived
        <4>1. request.pos \in Nat /\ Held(x) = request.pos + x.conn.arrived
          BY <1>0, <2>1, RangeFacts
        <4> QED  BY <1>1, <1>2, <1>4, <1>7, <4>1
      <3>2. /\ y.conn.code = Content /\ y.conn.total = AnsweredLen(request)
            /\ y.conn.arrived <= y.conn.total
        BY <1>2, <1>4, <2>1
      <3>3. \/ /\ y.conn.called /\ y.pipe.len = AskedLen(request)
               /\ Held(y) = request.pos + y.pipe.len => y.pipe.buf = 0
            \/ ~y.conn.called /\ y.pipe.len = request.len /\ y.pipe.buf = 0
        BY <1>2, <1>4, <1>7, <2>1
      <3> QED  BY <1>0, <1>4, <1>6, <1>7, <3>1, <3>2, <3>3, ContentKeepsWhole
    <2>2. CASE x.conn.code # Content
      <3>1. z = y
        BY <1>2, <1>4, <1>6, <2>2 DEF ChunkEvent
      <3>2. Whole(y, request)
        BY <1>0, <1>2, <1>4, <2>2 DEF Whole
      <3>3. Feeds(y, y)
        BY <1>0, <1>4 DEF Feeds
      <3> QED  BY <3>1, <3>2, <3>3
    <2> QED  BY <2>1, <2>2
  <1>11. z.told = told /\ z.pipe.freed = pipe.freed /\ z.pipe.redirect_time = pipe.redirect_time
    BY <1>4, <1>10 DEF Feeds
  <1>12. told = <<>>
    BY <1>0, <1>7, CurrentIs DEF Ended
  <1>13. Ended(z)
    <2>1. z.pipe.redirect_time <= MS_MAX_REDIRECT_TIME + (IF z.pipe.closing THEN 1 ELSE 0)
      <3>1. pipe.redirect_time \in Nat /\ pipe.redirect_time <= MS_MAX_REDIRECT_TIME
        BY <1>0, <1>7 DEF PipeTypes, MS_MAX_REDIRECT_TIME
      <3> QED  BY <1>11, <3>1 DEF MS_MAX_REDIRECT_TIME
    <2> QED  BY <1>9, <1>11, <1>12, <2>1 DEF Ended
  <1>14. Moves(Current, z)
    <2>1. Moves(y, z)
      BY <1>4, <1>7, <1>9, <1>10, FeedsMoves
    <2>2. Moves(Current, y)
      BY <1>0, <1>4 DEF Moves
    <2> QED  BY <1>0, <1>4, <1>9, <2>1, <2>2, MovesIsTransitive
  <1>15. CASE y.conn.arrived # y.conn.total
    <2>1. Become(z)
      BY <1>6, <1>15
    <2> QED  BY <1>9, <1>10, <1>11, <1>13, <1>14, <2>1 DEF StepTo
  <1>16. CASE y.conn.arrived = y.conn.total
    <2> DEFINE w == ReplyEvent(z)
    <2>1. Become(w)
      BY <1>6, <1>16
    <2>2. z.conn.code # 0
      BY <1>9 DEF Codes, Content, Redirect, Refused
    <2>3. /\ w \in States /\ Whole(w, request) /\ Ended(w) /\ Moves(z, w)
          /\ w.pipe.freed = z.pipe.freed
      BY <1>9, <1>10, <1>13, <2>2, ReplyEventEnds
    <2>4. Moves(Current, w)
      BY <1>0, <1>9, <1>14, <2>3, MovesIsTransitive
    <2> HIDE DEF w
    <2> QED  BY <1>11, <2>1, <2>3, <2>4 DEF StepTo
  <1> QED  BY <1>15, <1>16

\* Every step of the pipe is one of the handler's.
LEMMA NextSteps ==
    ASSUME EndsAtCuts, FInv, Next
    PROVE  \E z : StepTo(z)
  <1>0. /\ Current \in States /\ Current.pipe = pipe /\ Current.conn = conn
        /\ Current.told = told /\ Current.failed = failed
        /\ pipe \in PipeTypes /\ conn \in ConnTypes /\ pipe.pos \in Nat
        /\ request \in Requests /\ Sound(Current, request)
        /\ Whole(Current, request) /\ Ended(Current)
    BY CurrentIs
  <1>1. Moves(Current, Current)
    BY <1>0 DEF Moves
  <1>2. /\ conn.total <= FileSize + ErrorBody /\ conn.arrived <= conn.total
        /\ pipe.freed => pipe.closing /\ conn.phase = "gone"
    BY <1>0 DEF Ended
  <1>3. ASSUME NEW c \in ConnTypes, c.code = conn.code, c.called = conn.called,
               c.total = conn.total, c.arrived = conn.arrived,
               conn.phase = "gone" => c.phase = "gone"
        PROVE  LET z == [Current EXCEPT !.conn = c] IN
               /\ z \in States /\ z.pipe = pipe /\ z.conn = c /\ z.told = told
               /\ Whole(z, request) /\ Ended(z) /\ Moves(Current, z)
    <2> DEFINE z == [Current EXCEPT !.conn = c]
    <2>1. /\ z \in States /\ z.pipe = pipe /\ z.conn = c /\ z.told = told
          /\ z.failed = failed
      BY <1>0 DEF States
    <2> HIDE DEF z
    <2>2. Held(z) = Held(Current)
      BY <1>0, <2>1 DEF Held
    <2>3. Whole(z, request)
      BY <1>0, <1>3, <2>1, <2>2 DEF Whole
    <2>4. Ended(z)
      BY <1>0, <1>3, <2>1 DEF Ended
    <2>5. Moves(Current, z)
      BY <1>0, <2>1 DEF Moves
    <2> QED  BY <2>1, <2>3, <2>4, <2>5 DEF z
  <1>4. CASE Connect
    <2> DEFINE c == [conn EXCEPT !.phase = "open"]
               z == [Current EXCEPT !.conn = c]
    <2>1. /\ c \in ConnTypes /\ c.code = conn.code /\ c.called = conn.called
          /\ c.total = conn.total /\ c.arrived = conn.arrived
      BY <1>0 DEF ConnTypes
    <2>2. [Current EXCEPT !.conn.phase = "open"] = z
      BY <1>0 DEF States
    <2>3. Become(z) /\ ~pipe.freed
      BY <1>2, <1>4, <2>2 DEF Connect
    <2>4. conn.phase # "gone"
      BY <1>4 DEF Connect
    <2> HIDE DEF c
    <2>5. /\ z \in States /\ z.pipe = pipe /\ Whole(z, request) /\ Ended(z)
          /\ Moves(Current, z)
      BY <1>3, <2>1, <2>4
    <2> HIDE DEF z
    <2> QED  BY <2>3, <2>5 DEF StepTo
  <1>5. CASE ConnectFails
    <2> DEFINE c == [conn EXCEPT !.doomed = TRUE]
               m == [Current EXCEPT !.conn = c]
               z == TellEnd(m, 502)
    <2>1. /\ c \in ConnTypes /\ c.code = conn.code /\ c.called = conn.called
          /\ c.total = conn.total /\ c.arrived = conn.arrived /\ c.phase = conn.phase
      <3>1. conn \in ConnTypes
        BY <1>0
      <3> QED  BY ZenonT(60), <3>1 DEF ConnTypes
    <2>2. [Current EXCEPT !.conn.doomed = TRUE] = m
      BY <1>0 DEF States
    <2>3. Become(z) /\ ~conn.doomed /\ conn.phase = "connecting"
      BY <1>5, <2>2 DEF ConnectFails
    <2>4. ~pipe.closing /\ ~pipe.freed
      BY <1>0, <1>2, <2>3 DEF Sound, Ignores
    <2> HIDE DEF c
    <2>5. /\ m \in States /\ m.pipe = pipe /\ m.conn = c /\ m.told = told
          /\ Whole(m, request) /\ Ended(m) /\ Moves(Current, m)
      BY <1>3, <2>1
    <2> HIDE DEF m
    <2>6. /\ m.told = <<>> /\ m.pipe.redirect_time <= MS_MAX_REDIRECT_TIME + 1
          /\ m.conn.total <= FileSize + ErrorBody /\ m.conn.arrived <= m.conn.total
      <3>1. m.pipe.redirect_time \in Nat /\ ~m.pipe.closing
        BY <1>0, <2>4, <2>5 DEF PipeTypes
      <3> QED  BY <2>5, <3>1 DEF Ended, MS_MAX_REDIRECT_TIME
    <2>7. 502 \in {Redirect, Refused, 310, 502, Content} /\ 502 # Content
      BY DEF Content
    <2>8. ~m.pipe.closing /\ ~m.pipe.freed
      BY <2>4, <2>5
    <2>9. /\ z \in States /\ Whole(z, request) /\ Ended(z) /\ Moves(m, z)
          /\ z.told # <<>>
      BY <2>5, <2>6, <2>7, <2>8, TellEndEnds
    <2> HIDE DEF z
    <2>10. Moves(Current, z)
      BY <1>0, <2>5, <2>9, MovesIsTransitive
    <2> QED  BY <2>3, <2>9, <2>10 DEF StepTo
  <1>6. ASSUME NEW code \in Codes, NEW total \in 0..FileSize + ErrorBody, NEW n \in 0..IO,
               Answer(code, total, n)
        PROVE  \E z : StepTo(z)
    <2> DEFINE b == [conn EXCEPT !.code = code]
               c == [b EXCEPT !.total = total]
               x == [Current EXCEPT !.conn = c]
    <2>1. /\ total \in Nat /\ n \in Nat /\ total <= FileSize + ErrorBody
          /\ code \in {0, 206, 302, 404}
      BY PipeAssumption DEF Codes, Content, Redirect, Refused
    <2>2. /\ c \in ConnTypes /\ c.doomed = conn.doomed /\ c.code = code /\ c.total = total
          /\ c.arrived = conn.arrived /\ c.called = conn.called
      <3>1. /\ b \in ConnTypes /\ b.doomed = conn.doomed /\ b.code = code
            /\ b.arrived = conn.arrived /\ b.called = conn.called
        BY <1>0, <2>1 DEF ConnTypes
      <3> HIDE DEF b
      <3> QED  BY <2>1, <3>1 DEF ConnTypes
    <2>3. [Current EXCEPT !.conn.code = code, !.conn.total = total] = x
      BY <1>0 DEF States
    <2>4. /\ x \in States /\ x.pipe = pipe /\ x.conn = c /\ x.told = told
          /\ x.failed = failed
      <3> HIDE DEF c
      <3> QED  BY <1>0, <2>2 DEF States
    <2>5. /\ Arrive(x, n) /\ ~conn.doomed /\ conn.code = 0 /\ conn.phase = "open"
          /\ n <= total
          /\ code = Content => total = Answered(pipe)
      BY <1>6, <2>3 DEF Answer
    <2> HIDE DEF b, c, x
    <2>6. /\ conn.arrived = 0 /\ ~pipe.closing /\ ~pipe.redirecting /\ ~pipe.freed
      BY <1>0, <1>2, <2>5 DEF Sound, Ignores
    <2>7. pipe.pos = request.pos /\ pipe.buf = 0 /\ pipe.len = request.len /\ ~conn.called
      BY <1>0, <2>5 DEF Whole, Content
    <2>8. Answered(pipe) = AnsweredLen(request)
      BY <2>7 DEF Answered, AnsweredLen
    <2>9. ~Ignores(x) /\ x.conn.arrived + n <= x.conn.total
      BY <2>1, <2>2, <2>4, <2>5, <2>6 DEF Ignores
    <2>10. CASE code = Content
      <3>1. Held(x) = request.pos + x.conn.arrived
        BY <1>0, <2>2, <2>4, <2>6, <2>7 DEF Held
      <3> QED  BY <2>1, <2>2, <2>4, <2>5, <2>6, <2>7, <2>8, <2>9, <2>10, <3>1, ArriveSteps
    <2>11. CASE code # Content
      BY <2>1, <2>2, <2>4, <2>5, <2>6, <2>7, <2>9, <2>11, ArriveSteps
    <2> QED  BY <2>10, <2>11
  <1>7. ASSUME NEW n \in 1..IO, More(n)
        PROVE  \E z : StepTo(z)
    <2>1. /\ n \in Nat /\ Arrive(Current, n) /\ ~conn.doomed /\ conn.code # 0
          /\ conn.phase = "open" /\ conn.arrived + n <= conn.total
      BY <1>7, PipeAssumption DEF More
    <2>2. conn.code \in Codes
      BY <1>0, <2>1 DEF ConnTypes, Codes, Content, Redirect, Refused
    <2>3. ~Ignores(Current) /\ ~pipe.freed
      BY <1>0, <1>2, <2>1 DEF Sound
    <2>4. conn.code # Content =>
             /\ pipe.pos = request.pos /\ pipe.buf = 0 /\ pipe.len = request.len
             /\ ~conn.called
      BY <1>0 DEF Whole
    <2>5. conn.code = Content =>
             /\ conn.total = AnsweredLen(request)
             /\ Held(Current) = request.pos + conn.arrived
             /\ conn.called /\ pipe.len = AskedLen(request)
             /\ Held(Current) = request.pos + pipe.len => pipe.buf = 0
      BY <1>0 DEF Whole, Sound, Held
    <2> QED  BY <1>0, <1>2, <2>1, <2>2, <2>3, <2>4, <2>5, ArriveSteps
  <1>8. CASE Drop
    <2> DEFINE c == [conn EXCEPT !.doomed = TRUE]
               z == [Current EXCEPT !.conn = c]
    <2>1. /\ c \in ConnTypes /\ c.code = conn.code /\ c.called = conn.called
          /\ c.total = conn.total /\ c.arrived = conn.arrived /\ c.phase = conn.phase
      <3>1. conn \in ConnTypes
        BY <1>0
      <3> QED  BY ZenonT(60), <3>1 DEF ConnTypes
    <2>2. [Current EXCEPT !.conn.doomed = TRUE] = z
      BY <1>0 DEF States
    <2>3. Become(z) /\ ~pipe.freed
      BY <1>2, <1>8, <2>2 DEF Drop
    <2> HIDE DEF c
    <2>4. /\ z \in States /\ z.pipe = pipe /\ Whole(z, request) /\ Ended(z)
          /\ Moves(Current, z)
      BY <1>3, <2>1
    <2> HIDE DEF z
    <2> QED  BY <2>3, <2>4 DEF StepTo
  <1>9. CASE CloseConn
    <2> DEFINE cut == conn.code # 0 /\ conn.arrived < conn.total
    <2>1. PICK x \in IF cut THEN ChunkEvent(Current, request, 0) ELSE {Current} :
              Become(CloseEvent(IF cut THEN ReplyEvent(x) ELSE x))
      BY <1>9 DEF CloseConn
    <2>2. conn.phase # "gone" /\ conn.doomed /\ ~pipe.freed
      BY <1>2, <1>9 DEF CloseConn
    <2>3. CASE cut
      <3> DEFINE w == ReplyEvent(x)
                 z == CloseEvent(w)
      <3>1. x \in ChunkEvent(Current, request, 0) /\ Become(z)
        BY <2>1, <2>3
      <3>2. Sound(w, request) /\ x \in States
        <4>1. pipe.buf < PIECE
          BY <1>0 DEF Sound
        <4>2. /\ SameButBytes(Current, x) /\ x.pipe.buf < PIECE
              /\ Held(x) \in {Held(Current), Held(Current) + 0}
          BY <1>0, <3>1, <4>1, ChunkEventHoldsMore
        <4>3. Held(x) = Held(Current)
          BY <1>0, <4>2 DEF Held, PipeTypes
        <4>4. Sound(x, request)
          BY <1>0, <2>2, <4>2, <4>3 DEF Sound, SameButBytes, Ignores, Held
        <4> QED  BY <4>2, <4>4, ReplyEventSound DEF SameButBytes
      <3>3. /\ Whole(x, request) /\ Moves(Current, x) /\ x.conn.code = conn.code
            /\ x.conn.total = conn.total /\ x.conn.arrived = conn.arrived
            /\ x.conn.phase = conn.phase /\ x.told = told
            /\ x.pipe.redirect_time = pipe.redirect_time /\ x.pipe.freed = pipe.freed
            /\ x.pipe.closing = pipe.closing
        <4>1. CASE Ignores(Current) \/ conn.code # Content
          <5>1. x = Current
            BY <1>0, <3>1, <4>1 DEF ChunkEvent
          <5> QED  BY <1>0, <1>1, <5>1
        <4>2. CASE ~Ignores(Current) /\ conn.code = Content
          <5>1. x = GotHead(Current)
            BY <1>0, <3>1, <4>2 DEF ChunkEvent
          <5>2. Whole(x, request) /\ Feeds(Current, x)
            <6>1. /\ Held(Current) + 0 = request.pos + conn.arrived
                  /\ pipe.buf < PIECE /\ Cut(pipe.pos) /\ failed = {}
                  /\ conn.total = AnsweredLen(request) /\ conn.arrived <= conn.total
                  /\ conn.called /\ pipe.len = AskedLen(request)
                  /\ Held(Current) = request.pos + pipe.len => pipe.buf = 0
              <7>1. Held(Current) = request.pos + conn.arrived /\ Held(Current) \in Nat
                BY <1>0, <4>2 DEF Sound, Held, PipeTypes
              <7> QED  BY <1>0, <4>2, <7>1 DEF Sound, Whole
            <6> QED  BY <1>0, <3>1, <4>2, <6>1, ContentKeepsWhole
          <5>3. /\ SameButBytes(Current, x) /\ x.pipe.closing = pipe.closing
            <6>1. x.pipe = [pipe EXCEPT !.len = x.pipe.len]
              BY <1>0, <5>1 DEF GotHead, States, PipeTypes
            <6>2. x.pipe.closing = pipe.closing
              BY <1>0, <6>1 DEF PipeTypes
            <6> QED  BY <1>0, <5>1, <6>2, GotHeadKeepsBytes
          <5>4. Moves(Current, x)
            BY <1>0, <3>2, <4>2, <5>2, FeedsMoves DEF Ignores
          <5> QED  BY <1>0, <5>2, <5>3, <5>4 DEF SameButBytes, Feeds
        <4> QED  BY <4>1, <4>2
      <3>4. Ended(x)
        BY <1>0, <3>3 DEF Ended
      <3>5. /\ w \in States /\ Whole(w, request) /\ Ended(w) /\ Moves(x, w)
            /\ w.pipe.closing => x.pipe.closing \/ w.told # <<>>
        <4>1. x.conn.code # 0
          BY <2>3, <3>3
        <4> QED  BY <3>2, <3>3, <3>4, <4>1, ReplyEventEnds
      <3> HIDE DEF w
      <3>6. /\ z \in States /\ Whole(z, request) /\ Ended(z) /\ Moves(w, z)
            /\ z.pipe.freed => w.pipe.closing \/ z.told # <<>>
        BY <3>2, <3>5, CloseEventEnds
      <3> HIDE DEF z
      <3>7. Moves(Current, w)
        BY <1>0, <3>2, <3>3, <3>5, MovesIsTransitive
      <3>8. Moves(Current, z)
        BY <1>0, <3>5, <3>6, <3>7, MovesIsTransitive
      <3>9. z.pipe.freed => pipe.closing \/ z.told # <<>>
        <4>1. w.told # <<>> => z.told # <<>>
          BY <3>6 DEF Moves
        <4> QED  BY <3>3, <3>5, <3>6, <4>1
      <3> QED  BY <3>1, <3>6, <3>8, <3>9 DEF StepTo
    <2>4. CASE ~cut
      <3> DEFINE z == CloseEvent(Current)
      <3>1. Become(z)
        BY <2>1, <2>4
      <3>2. /\ z \in States /\ Whole(z, request) /\ Ended(z) /\ Moves(Current, z)
            /\ z.pipe.freed => pipe.closing \/ z.told # <<>>
        BY <1>0, CloseEventEnds
      <3> HIDE DEF z
      <3> QED  BY <3>1, <3>2 DEF StepTo
    <2> QED  BY <2>3, <2>4
  <1>10. CASE TaskCloses
    <2> DEFINE z == PipeClose(Current)
    <2>1. Become(z) /\ ~pipe.closing /\ ~pipe.freed
      BY <1>2, <1>10 DEF TaskCloses
    <2>2. /\ z \in States /\ Keeps(Current, z) /\ z.failed = failed
          /\ z.pipe.pos = pipe.pos /\ z.pipe.buf = pipe.buf /\ z.pipe.closing
          /\ z.conn.code = conn.code /\ z.conn.phase = conn.phase
          /\ z.conn.total = conn.total /\ z.conn.arrived = conn.arrived
      BY <1>0, PipeCloseKeeps, PipeCloseDooms
    <2> HIDE DEF z
    <2>3. /\ z.told = told /\ z.pipe.len = pipe.len /\ z.conn.called = conn.called
          /\ z.pipe.redirect_time = pipe.redirect_time /\ z.pipe.freed = pipe.freed
      BY <1>0, <2>2 DEF Keeps, Feeds
    <2>4. Held(z) = Held(Current)
      BY <1>0, <2>2 DEF Held
    <2>5. Whole(z, request)
      BY <1>0, <2>2, <2>3, <2>4 DEF Whole
    <2>6. Ended(z)
      <3>1. z.pipe.redirect_time <= MS_MAX_REDIRECT_TIME + 1
        BY <1>0, <2>1, <2>3 DEF Ended, PipeTypes, MS_MAX_REDIRECT_TIME
      <3> QED  BY <1>0, <2>1, <2>2, <2>3, <3>1 DEF Ended
    <2>7. Moves(Current, z)
      BY <1>0, <2>1, <2>2, <2>3 DEF Moves
    <2> QED  BY <2>1, <2>2, <2>3, <2>5, <2>6, <2>7 DEF StepTo
  <1> QED  BY <1>4, <1>5, <1>6, <1>7, <1>8, <1>9, <1>10 DEF Next

\* A pipe starts whole.
LEMMA InitWhole ==
    ASSUME EndsAtCuts, Init
    PROVE  FInv
  <1>1. IInv
    BY InitSound
  <1>2. /\ request \in Requests /\ request.pos \in Nat /\ request.pos % PIECE = 0
    BY RangeFacts DEF Init
  <1>3. /\ pipe.pos = request.pos /\ pipe.buf = 0 /\ pipe.len = request.len
        /\ ~pipe.closing /\ ~pipe.freed /\ pipe.redirect_time = 0
    BY DEF Init, NewPipe
  <1>4. conn.code = 0 /\ conn.total = 0 /\ conn.arrived = 0 /\ ~conn.called
    BY DEF Init, NewConn
  <1>5. /\ Current.pipe = pipe /\ Current.conn = conn /\ Current.told = <<>>
        /\ Current.failed = {}
    BY DEF Init, Current
  <1>6. Whole(Current, request)
    BY <1>2, <1>3, <1>4, <1>5 DEF Whole, Cut, Content
  <1>7. Ended(Current)
    <2>1. 0 <= FileSize + ErrorBody
      BY PipeAssumption
    <2> QED  BY <1>3, <1>4, <1>5, <2>1 DEF Ended, MS_MAX_REDIRECT_TIME
  <1> QED  BY <1>1, <1>6, <1>7 DEF FInv

\* A step leads to the state it makes.
LEMMA StepToIs ==
    ASSUME NEW z, StepTo(z)
    PROVE  Current' = z /\ request' = request /\ told' = z.told /\ pipe' = z.pipe
  <1>1. /\ pipe' = z.pipe /\ conn' = z.conn /\ told' = z.told /\ failed' = z.failed
        /\ request' = request /\ z \in States
    BY DEF StepTo, Become
  <1>2. Current' = z
    BY <1>1 DEF Current, States
  <1> QED  BY <1>1, <1>2

\* Every step keeps the invariant.
LEMMA NextWhole ==
    ASSUME EndsAtCuts, FInv, [Next]_vars
    PROVE  FInv'
  <1>1. IInv'
    BY NextSound DEF FInv
  <1>2. CASE Next
    <2>1. PICK z : StepTo(z)
      BY <1>2, NextSteps
    <2>2. Current' = z /\ request' = request
      BY <2>1, StepToIs
    <2>3. Whole(z, request) /\ Ended(z)
      BY <2>1 DEF StepTo
    <2>4. Whole(Current', request') /\ Ended(Current')
      BY <2>2, <2>3
    <2>5. Whole(Current, request)' /\ Ended(Current)'
      BY <2>4 DEF Whole, Ended, Cut, Held, AskedLen, AnsweredLen, Least
    <2> QED  BY <1>1, <2>5 DEF FInv
  <1>3. CASE UNCHANGED vars
    <2>1. Current' = Current /\ request' = request
      BY <1>3 DEF vars, Current
    <2>2. Whole(Current', request') /\ Ended(Current')
      BY <2>1 DEF FInv
    <2>3. Whole(Current, request)' /\ Ended(Current)'
      BY <2>2 DEF Whole, Ended, Cut, Held, AskedLen, AnsweredLen, Least
    <2> QED  BY <1>1, <2>3 DEF FInv
  <1> QED  BY <1>2, <1>3

\* What is handed over and kept never passes the end of the file.
LEMMA HeldBounded ==
    ASSUME EndsAtCuts, NEW r \in Requests, NEW x, Sound(x, r), Whole(x, r)
    PROVE  /\ x.pipe.pos + x.pipe.buf <= FileSize /\ x.pipe.pos <= FileSize
           /\ x.pipe.len <= FileSize
  <1>1. /\ x.pipe.pos \in Nat /\ x.pipe.buf \in Nat /\ x.conn.arrived \in Nat
        /\ x.conn.total \in Nat
    BY StateParts DEF Sound, PipeTypes, ConnTypes
  <1>2. /\ r.pos \in Nat /\ r.len \in Nat /\ r.pos < FileSize /\ r.pos + r.len <= FileSize
        /\ AskedLen(r) \in Nat /\ r.pos + AskedLen(r) <= FileSize
        /\ r.pos + AnsweredLen(r) <= FileSize
    BY RangeFacts
  <1>3. FileSize \in Nat
    BY PipeAssumption
  <1>4. CASE x.conn.code = Content
    <2>1. /\ x.pipe.pos + x.pipe.buf = r.pos + x.conn.arrived
          /\ x.conn.arrived <= x.conn.total /\ x.conn.total = AnsweredLen(r)
          /\ x.pipe.len = AskedLen(r)
      BY <1>4 DEF Sound, Whole
    <2> QED  BY <1>1, <1>2, <1>3, <2>1
  <1>5. CASE x.conn.code # Content
    <2>1. x.pipe.pos = r.pos /\ x.pipe.buf = 0 /\ x.pipe.len = r.len
      BY <1>5 DEF Whole
    <2> QED  BY <1>1, <1>2, <1>3, <2>1
  <1> QED  BY <1>4, <1>5

\* The invariant of the pipe: besides what EveryByteAccounted needs, where a
\* pipe stands in its range and what it has said of its end.
THEOREM PipeInvariant ==
    ASSUME EndsAtCuts
    PROVE  Spec => []FInv
  <1>1. Init => FInv
    BY InitWhole
  <1>2. FInv /\ [Next]_vars => FInv'
    BY NextWhole
  <1> QED  BY <1>1, <1>2, PTL DEF Spec

\* For every size of piece, file and event and all ranges that end at cuts:
\* every variable has its type, the position is in the file, the buffer
\* holds less than a piece, and a redirect is followed three times at most.
THEOREM PipeTypeOK ==
    ASSUME EndsAtCuts
    PROVE  Spec => []TypeOK
  <1>1. FInv => TypeOK
    <2> SUFFICES ASSUME FInv PROVE TypeOK
      OBVIOUS
    <2>1. /\ request \in Requests /\ pipe \in PipeTypes /\ conn \in ConnTypes
          /\ Current.pipe = pipe /\ Current.conn = conn /\ Current.told = told
          /\ Current.failed = failed
          /\ Sound(Current, request) /\ Whole(Current, request) /\ Ended(Current)
      BY CurrentIs
    <2>2. /\ PIECE \in Nat \ {0} /\ FileSize \in Nat /\ ErrorBody \in Nat
      BY PipeAssumption
    <2>3. pipe \in PipeRecords
      <3>1. pipe.redirect_time <= MS_MAX_REDIRECT_TIME + 1
        BY <2>1 DEF Ended, PipeTypes, MS_MAX_REDIRECT_TIME
      <3>2. /\ pipe.pos <= FileSize /\ pipe.len <= FileSize /\ pipe.buf <= PIECE - 1
        <4>1. pipe.buf \in Nat /\ pipe.buf < PIECE
          BY <2>1 DEF Sound, PipeTypes
        <4> QED  BY <2>1, <2>2, <4>1, HeldBounded
      <3> QED  BY <2>1, <2>2, <3>1, <3>2 DEF PipeRecords, PipeTypes, MS_MAX_REDIRECT_TIME
    <2>4. conn \in ConnRecords
      <3>1. conn.total <= FileSize + ErrorBody /\ conn.arrived <= conn.total
        BY <2>1 DEF Ended
      <3>2. conn.total \in Nat /\ conn.arrived \in Nat
        BY <2>1 DEF ConnTypes
      <3>3. conn.total \in 0..FileSize + ErrorBody /\ conn.arrived \in 0..FileSize + ErrorBody
        BY <2>2, <3>1, <3>2
      <3> QED  BY <2>1, <3>3 DEF ConnRecords, ConnTypes, Codes, Content, Redirect, Refused
    <2>5. told \in Seq(Codes \cup {310, 502})
      <3>1. told = <<>> \/ \E e \in Codes \cup {310, 502} : told = <<e>>
        BY <2>1 DEF Ended, Codes
      <3>2. ASSUME NEW S PROVE <<>> \in Seq(S) /\ \A e \in S : <<e>> \in Seq(S)
        OBVIOUS
      <3>3. \A e \in Codes \cup {310, 502} : <<e>> \in Seq(Codes \cup {310, 502})
        BY <3>2
      <3>4. <<>> \in Seq(Codes \cup {310, 502})
        BY <3>2
      <3> QED  BY ZenonT(60), <3>1, <3>3, <3>4
    <2>6. failed \subseteq {130, 427}
      BY <2>1 DEF Whole
    <2> QED  BY <2>1, <2>3, <2>4, <2>5, <2>6 DEF TypeOK
  <1> QED  BY <1>1, PipeInvariant, PTL

\* For every size of piece, file and event and all ranges that end at cuts,
\* whatever the origin answers and however it splits it: a body event finds
\* the pipe at the start of a piece, and what is handed to the storage is
\* whole pieces or ends where the file does.
THEOREM PipeAssertsHold ==
    ASSUME EndsAtCuts
    PROVE  Spec => []AssertsHold
  <1>1. FInv => AssertsHold
    BY CurrentIs DEF Whole, AssertsHold
  <1> QED  BY <1>1, PipeInvariant, PTL

\* When a reply has come whole and the task is told so, it has been handed
\* every byte it asked for: nothing of the range stays in the buffer.
THEOREM NothingIsKeptBack ==
    ASSUME EndsAtCuts
    PROVE  Spec => []NothingKeptBack
  <1>1. FInv => NothingKeptBack
    <2> SUFFICES ASSUME FInv, told = <<Content>>, conn.arrived = conn.total
                 PROVE  pipe.pos >= (IF request.len = 0 THEN FileSize
                                                        ELSE request.pos + request.len)
      BY DEF NothingKeptBack
    <2>1. /\ request \in Requests /\ pipe \in PipeTypes /\ conn \in ConnTypes
          /\ Current.pipe = pipe /\ Current.conn = conn /\ Current.told = told
          /\ Sound(Current, request) /\ Whole(Current, request) /\ Ended(Current)
      BY CurrentIs
    <2>2. conn.code = Content
      <3>1. told # <<>> /\ \A e \in {Redirect, Refused, 310, 502} : told # <<e>>
        BY DEF Redirect, Refused, Content
      <3> QED  BY <2>1, <3>1 DEF Ended
    <2> DEFINE end == request.pos + AskedLen(request)
    <2>3. /\ pipe.pos \in Nat /\ pipe.buf \in Nat /\ pipe.buf < PIECE
          /\ pipe.pos + pipe.buf = request.pos + AnsweredLen(request)
          /\ pipe.pos + pipe.buf = end => pipe.buf = 0
          /\ Cut(pipe.pos)
      BY <2>1, <2>2 DEF Sound, Whole, PipeTypes, Held
    <2>4. /\ end \in Nat /\ end <= FileSize /\ Cut(end)
          /\ request.pos \in Nat /\ AskedLen(request) \in Nat
          /\ AnsweredLen(request) \in {AskedLen(request), AskedLen(request) + 1}
          /\ AskedLen(request) <= AnsweredLen(request) /\ AnsweredLen(request) \in Nat
          /\ request.pos + AnsweredLen(request) <= FileSize
      BY <2>1, RangeFacts
    <2>5. pipe.pos + pipe.buf \in {end, end + 1}
          /\ pipe.pos + pipe.buf <= FileSize /\ FileSize \in Nat /\ PIECE \in Nat
      <3>1. FileSize \in Nat /\ PIECE \in Nat
        BY PipeAssumption
      <3> QED  BY <2>3, <2>4, <3>1
    <2> HIDE DEF end
    <2>6. end <= pipe.pos
      <3>1. CASE pipe.pos + pipe.buf = end
        BY <2>3, <2>4, <3>1
      <3>2. CASE pipe.pos + pipe.buf # end /\ pipe.pos = FileSize
        BY <2>4, <2>5, <3>2
      <3>3. CASE pipe.pos + pipe.buf # end /\ pipe.pos # FileSize
        <4>1. pipe.pos % PIECE = 0
          BY <2>3, <3>3 DEF Cut
        <4>2. end < FileSize
          BY <2>3, <2>4, <2>5, <3>3
        <4>3. end % PIECE = 0
          BY <2>4, <4>2 DEF Cut
        <4>4. end < pipe.pos + PIECE
          BY <2>3, <2>4, <2>5, <3>3
        <4>5. end <= pipe.pos
          BY <2>3, <2>4, <4>1, <4>3, <4>4, MultiplesApart
        <4> QED  BY <4>5
      <3> QED  BY <3>1, <3>2, <3>3
    <2>7. request.pos \in Nat /\ AskedLen(request) \in Nat /\ FileSize \in Nat
      BY <2>4, PipeAssumption
    <2>8. end <= pipe.pos /\ end = (IF request.len = 0 THEN FileSize
                                                      ELSE request.pos + request.len)
      <3>1. request.len = 0 => request.pos + AskedLen(request) = FileSize
        BY <2>7, PipeAssumption DEF AskedLen
      <3> QED  BY <2>6, <3>1 DEF end, AskedLen
    <2> QED  BY <2>3, <2>4, <2>8
  <1> QED  BY <1>1, PipeInvariant, PTL

-----------------------------------------------------------------------------
(* The pipe implements what its task relies on.                            *)

Status == IF pipe.freed THEN "freed" ELSE IF pipe.closing THEN "closed" ELSE "open"

\* A pipe begins as a feed does.
LEMMA FeedInit ==
    ASSUME EndsAtCuts, Init
    PROVE  Feed!Init
  <1>1. /\ request \in Requests /\ request.pos \in Nat /\ request.pos < FileSize
        /\ request.pos % PIECE = 0
    BY RangeFacts DEF Init
  <1>2. pipe.pos = request.pos /\ ~pipe.closing /\ ~pipe.freed /\ told = <<>>
    BY DEF Init, NewPipe
  <1>3. pipe.pos \in 0..FileSize
    BY <1>1, <1>2, PipeAssumption
  <1> QED  BY <1>1, <1>2, <1>3 DEF Feed!Init, Feed!CutAt

\* Every step of a pipe feeds, ends or frees, or is none of the task's
\* business.
LEMMA FeedNext ==
    ASSUME EndsAtCuts, FInv, [Next]_vars
    PROVE  [Feed!Next]_(Feed!vars)
  <1>1. CASE UNCHANGED vars
    BY <1>1 DEF vars, Feed!vars
  <1>2. CASE Next
    <2>1. PICK z : StepTo(z)
      BY <1>2, NextSteps
    <2>2. /\ Current.pipe = pipe /\ Current.told = told /\ pipe \in PipeTypes
          /\ pipe.pos \in Nat /\ Ended(Current)
      BY CurrentIs
    <2>3. pipe' = z.pipe /\ told' = z.told /\ z \in States
      BY <2>1, StepToIs DEF StepTo
    <2>4. /\ pipe.pos <= pipe.pos'
          /\ pipe.closing => pipe.closing' /\ pipe.pos' = pipe.pos /\ told' = told
          /\ told' = told \/ (told' # <<>> /\ pipe.closing')
          /\ pipe.freed => pipe.freed'
          /\ pipe.freed' => pipe.closing \/ told' # <<>>
      BY <2>1, <2>2, <2>3 DEF StepTo, Moves
    <2>5. pipe.pos' \in pipe.pos..FileSize /\ Feed!CutAt(pipe.pos')
      <3>1. FInv'
        BY NextWhole
      <3>2. pipe.pos' <= FileSize
        <4>1. Sound(Current, request)' /\ Whole(Current, request)' /\ (request \in Requests)'
          BY <3>1 DEF FInv, IInv
        <4>2. request' = request /\ Current' = z
          BY <2>1, StepToIs
        <4>3. Sound(Current', request') /\ Whole(z, request)
          BY <2>1, <4>1 DEF Sound, Ignores, StepTo
        <4> QED  BY <2>3, <4>1, <4>2, <4>3, HeldBounded
      <3>3. Cut(pipe.pos')
        BY <2>1, <2>3 DEF StepTo, Whole
      <3>4. pipe.pos' \in Nat
        BY <2>3, StateParts DEF PipeTypes
      <3> QED  BY <2>2, <2>4, <3>2, <3>3, <3>4, PipeAssumption DEF Cut, Feed!CutAt
    <2>6. /\ ~pipe.closing => told = <<>>
          /\ pipe.freed => pipe.closing
      BY <2>2 DEF Ended
    <2>7. CASE pipe.closing
      <3>1. CASE pipe.freed' /\ ~pipe.freed
        BY <2>4, <2>7, <3>1 DEF Feed!Next, Feed!Free
      <3>2. CASE ~(pipe.freed' /\ ~pipe.freed)
        BY <2>4, <2>7, <3>2 DEF Feed!vars
      <3> QED  BY <3>1, <3>2
    <2>8. CASE ~pipe.closing /\ told' = <<>>
      <3>1. ~pipe.freed /\ ~pipe.freed' /\ told = <<>>
        BY <2>4, <2>6, <2>8
      <3> QED  BY <2>5, <2>8, <3>1 DEF Feed!Next, Feed!Feed
    <2>9. CASE ~pipe.closing /\ told' # <<>>
      <3>1. ~pipe.freed /\ pipe.closing' /\ told = <<>>
        BY <2>4, <2>6, <2>9
      <3> QED  BY <2>5, <2>9, <3>1 DEF Feed!Next, Feed!End
    <2> QED  BY <2>7, <2>8, <2>9
  <1> QED  BY <1>1, <1>2

\* Each step of a pipe, whatever the origin sends and whenever the task
\* closes it, is one the task of module PipeFeed can rely on: it is fed in
\* order and to a cut, is told the end once and only while it has not let
\* go, and the pipe is freed once and after that.
THEOREM PipeImplementsFeed ==
    ASSUME EndsAtCuts
    PROVE  Spec => RefinesFeed
  <1>1. Init => Feed!Init
    BY FeedInit
  <1>2. FInv /\ [Next]_vars => [Feed!Next]_(Feed!vars)
    BY FeedNext
  <1> QED  BY <1>1, <1>2, PipeInvariant, PTL DEF Spec, RefinesFeed, Feed!Spec
=============================================================================
