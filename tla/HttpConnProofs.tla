---------------------------- MODULE HttpConnProofs ----------------------------
(***************************************************************************)
(* Proofs about a connection of mongoose, for every number of retries,     *)
(* size of a head and of a read, and for all that a peer may send.         *)
(***************************************************************************)
EXTENDS HttpConn, TLAPS, NaturalsInduction, WellFoundedInduction, SequenceTheorems

-----------------------------------------------------------------------------
\* FlattenSeq().

\* A set of naturals that is not empty has a least element.
LEMMA LeastOne ==
    ASSUME NEW S, S \subseteq Nat, S # {}
    PROVE  \E x \in S : \A y \in S : x <= y
PROOF
<1>1. PICK m \in S : \A y \in S : ~(<<y, m>> \in OpToRel(<, Nat))
    BY NatLessThanWellFounded, WFMin
<1>2. \A y \in S : ~(y < m)
    BY <1>1 DEF OpToRel
<1>3. QED
    BY <1>2

\* One equation for what FlattenSeq() is the last value of.
Flattens(f, ss, n) ==
    f = [i \in 1..n |-> IF i = 1 THEN ss[i] ELSE f[i - 1] \o ss[i]]

\* The joins of the first n sequences exist, by a least counterexample.
LEMMA FlattensExists ==
    ASSUME NEW S, NEW ss \in Seq(Seq(S)), NEW n \in 0..Len(ss)
    PROVE  \E f : Flattens(f, ss, n)
PROOF
<1> DEFINE Bad == {k \in 0..Len(ss) : ~ \E f : Flattens(f, ss, k)}
<1>1. SUFFICES Bad = {}
    OBVIOUS
<1>2. SUFFICES ASSUME Bad # {} PROVE FALSE
    OBVIOUS
<1>3. PICK m \in Bad : \A k \in Bad : m <= k
  <2>1. Bad \subseteq Nat
    BY DEF Bad
  <2> HIDE DEF Bad
  <2>2. QED
    BY <1>2, <2>1, LeastOne
<1>4. CASE m = 0
  <2>1. Flattens([i \in 1..0 |-> 0], ss, 0)
    BY DEF Flattens
  <2>2. QED
    BY <1>4, <2>1
<1>5. CASE m # 0
  <2>1. m - 1 \in 0..Len(ss) /\ ~(m - 1 \in Bad)
  <3>1. m \in 0..Len(ss) /\ Len(ss) \in Nat
    BY <1>3
  <3>2. m - 1 \in 0..Len(ss) /\ ~(m <= m - 1)
    BY <1>5, <3>1
  <3> HIDE DEF Bad
  <3>3. QED
    BY <1>3, <3>2
  <2>2. PICK f : Flattens(f, ss, m - 1)
    BY <2>1
  <2> DEFINE last == IF m = 1 THEN ss[m] ELSE f[m - 1] \o ss[m]
             g    == [i \in 1..m |-> IF i < m THEN f[i] ELSE last]
  <2>3. \A i \in 1..m - 1 : f[i] = IF i = 1 THEN ss[i] ELSE f[i - 1] \o ss[i]
    BY <2>2 DEF Flattens
  <2>4. m \in Nat
    BY <1>3
  <2>5. ASSUME NEW i \in 1..m
        PROVE  g[i] = IF i = 1 THEN ss[i] ELSE g[i - 1] \o ss[i]
    <3>1. CASE i = m
        BY <2>4, <3>1
    <3>2. CASE i # m
        BY <2>3, <2>4, <3>2
    <3>3. QED
        BY <3>1, <3>2
  <2>6. Flattens(g, ss, m)
    BY <2>5 DEF Flattens
  <2>7. QED
    BY <2>6
<1>6. QED
    BY <1>4, <1>5

\* FlattenSeq is the last of those joins.
LEMMA FlattenIs ==
    ASSUME NEW S, NEW ss \in Seq(Seq(S)), ss # <<>>
    PROVE  \E f : Flattens(f, ss, Len(ss)) /\ FlattenSeq(ss) = f[Len(ss)]
PROOF
<1> DEFINE f == CHOOSE g : Flattens(g, ss, Len(ss))
<1>1. Flattens(f, ss, Len(ss))
    BY FlattensExists
<1>2. FlattenSeq(ss) = f[Len(ss)]
    BY DEF FlattenSeq, Flattens
<1>3. QED
    BY <1>1, <1>2

\* Each of the joins is a sequence of the elements of the parts.
LEMMA FlattensTyped ==
    ASSUME NEW S, NEW ss \in Seq(Seq(S)), NEW f, Flattens(f, ss, Len(ss))
    PROVE  \A i \in 1..Len(ss) : f[i] \in Seq(S)
PROOF
<1> DEFINE Bad == {i \in 1..Len(ss) : f[i] \notin Seq(S)}
<1>1. SUFFICES ASSUME Bad # {} PROVE FALSE
    OBVIOUS
<1>2. PICK m \in Bad : \A k \in Bad : m <= k
  <2>1. Bad \subseteq Nat
    BY DEF Bad
  <2> HIDE DEF Bad
  <2>2. QED
    BY <1>1, <2>1, LeastOne
<1>3. m \in 1..Len(ss) /\ Len(ss) \in Nat /\ f[m] \notin Seq(S) /\ ss[m] \in Seq(S)
    BY <1>2
<1>4. f[m] = IF m = 1 THEN ss[m] ELSE f[m - 1] \o ss[m]
    BY <1>3 DEF Flattens
<1>5. m # 1
    BY <1>3, <1>4
<1>6. f[m - 1] \in Seq(S)
  <2>1. m - 1 \in 1..Len(ss) /\ ~(m <= m - 1)
    BY <1>3, <1>5
  <2>2. m - 1 \notin Bad
    <3> HIDE DEF Bad
    <3>1. QED
        BY <1>2, <2>1
  <2>3. QED
    BY <2>1, <2>2
<1>7. QED
    BY <1>3, <1>4, <1>5, <1>6, ConcatProperties

-----------------------------------------------------------------------------
\* The bytes of the wire.

Byte(m, k) == [msg |-> m, at |-> k]

Message(m) == [k \in 1..MessageLen(m) |-> Byte(m, k)]

\* How many bytes are before each message.
AreStarts(st) ==
    /\ st \in [1..Len(bodies) + 1 -> 0..Len(Wire)]
    /\ st[1] = 0 /\ st[Len(bodies) + 1] = Len(Wire)
    /\ \A m \in 1..Len(bodies) : st[m + 1] = st[m] + MessageLen(m)
    /\ \A m \in 1..Len(bodies) : \A k \in 1..MessageLen(m) : Wire[st[m] + k] = Byte(m, k)

\* A message is a sequence of its bytes, at least as long as a head.
LEMMA MessageIs ==
    ASSUME bodies \in Peers, NEW m \in 1..Len(bodies), NEW S,
           \A k \in 1..MessageLen(m) : Byte(m, k) \in S
    PROVE  /\ MessageLen(m) \in Nat /\ MessageLen(m) >= HeadLen
           /\ Message(m) \in Seq(S) /\ Len(Message(m)) = MessageLen(m)
           /\ \A k \in 1..MessageLen(m) : Message(m)[k] = Byte(m, k)
PROOF
<1>1. bodies \in Seq([len : Nat, known : BOOLEAN]) /\ HeadLen \in Nat
    BY ConnAssumption
<1>2. bodies[m].len \in Nat
  <2>1. bodies[m] \in [len : Nat, known : BOOLEAN]
    BY <1>1, ElementOfSeq
  <2>2. QED
    BY <2>1
<1>3. MessageLen(m) \in Nat /\ MessageLen(m) >= HeadLen
    BY <1>1, <1>2 DEF MessageLen
<1> DEFINE n == MessageLen(m)
<1> HIDE DEF n
<1>4. n \in Nat /\ Message(m) = [k \in 1..n |-> Byte(m, k)] /\ \A k \in 1..n : Byte(m, k) \in S
    BY <1>3 DEF Message, n
<1>5. Message(m) \in Seq(S) /\ Len(Message(m)) = n /\ \A k \in 1..n : Message(m)[k] = Byte(m, k)
    BY <1>4
<1>6. QED
    BY <1>3, <1>5 DEF n

\* Without messages the wire is empty, and the end of it is its start.
LEMMA WireOfNothing ==
    ASSUME bodies \in Peers, Len(bodies) = 0
    PROVE  AreStarts([m \in 1..1 |-> 0]) /\ Wire \in Seq(Bytes)
PROOF
<1>1. Wire = <<>>
    BY DEF Wire, FlattenSeq
<1>2. Len(Wire) = 0 /\ Wire \in Seq(Bytes)
    BY <1>1
<1>3. QED
    BY <1>2 DEF AreStarts

\* Of what has been joined, the messages are where they have been put.
Placed(f, ss, st) ==
    /\ \A m \in 1..Len(ss) : st[m + 1] = st[m] + Len(ss[m])
    /\ \A i \in 1..Len(ss) : \A m \in 1..i :
          /\ st[m + 1] <= Len(f[i])
          /\ \A k \in 1..Len(ss[m]) : f[i][st[m] + k] = ss[m][k]

Places(f, ss, st) ==
    /\ st[1] = 0 /\ \A m \in 1..Len(ss) + 1 : st[m] \in Nat
    /\ \A m \in 1..Len(ss) : st[m + 1] = Len(f[m])

\* In a join every part stands whole at its place.
LEMMA JoinedAt ==
    ASSUME NEW S, NEW ss \in Seq(Seq(S)), NEW f, Flattens(f, ss, Len(ss)),
           NEW st, Places(f, ss, st)
    PROVE  Placed(f, ss, st)
PROOF
<1> USE DEF Places, Placed
<1>0. \A i \in 1..Len(ss) : f[i] \in Seq(S) /\ ss[i] \in Seq(S) /\ Len(f[i]) \in Nat
  <2>1. \A i \in 1..Len(ss) : f[i] \in Seq(S)
    BY FlattensTyped
  <2>2. QED
    BY <2>1
<1>1. \A i \in 1..Len(ss) : f[i] = IF i = 1 THEN ss[i] ELSE f[i - 1] \o ss[i]
    BY DEF Flattens
<1>n. Len(ss) \in Nat /\ \A i \in 1..Len(ss) : Len(ss[i]) \in Nat
  <2>1. \A i \in 1..Len(ss) : ss[i] \in Seq(S)
    BY <1>0
  <2>2. QED
    BY <2>1
<1>2. ASSUME NEW m \in 1..Len(ss)
      PROVE  st[m + 1] = st[m] + Len(ss[m])
  <2>1. CASE m = 1
    <3>1. f[1] = ss[1] /\ st[1 + 1] = Len(f[1]) /\ Len(ss[1]) \in Nat
        BY <1>n, <1>1, <2>1
    <3>2. QED
        BY <2>1, <3>1
  <2>2. CASE m # 1
    <3>1. m - 1 \in 1..Len(ss)
        BY <2>2
    <3>2. f[m] = f[m - 1] \o ss[m] /\ f[m - 1] \in Seq(S) /\ ss[m] \in Seq(S)
        BY <1>0, <1>1, <2>2, <3>1
    <3>3. Len(f[m]) = Len(f[m - 1]) + Len(ss[m])
        BY <3>2, ConcatProperties
    <3>4. st[m] = Len(f[m - 1]) /\ st[m + 1] = Len(f[m])
      <4>1. (m - 1) + 1 = m
        BY <1>n
      <4>2. QED
        BY <3>1, <4>1
    <3>5. QED
        BY <3>3, <3>4
  <2>3. QED
    BY <2>1, <2>2
<1> DEFINE At(i) == \A m \in 1..i :
                /\ st[m + 1] <= Len(f[i])
                /\ \A k \in 1..Len(ss[m]) : f[i][st[m] + k] = ss[m][k]
           Bad == {i \in 1..Len(ss) : ~At(i)}
<1>3. SUFFICES ASSUME Bad # {} PROVE FALSE
    BY <1>2
<1>4. PICK i \in Bad : \A k \in Bad : i <= k
  <2>1. Bad \subseteq Nat
    BY DEF Bad
  <2> HIDE DEF Bad
  <2>2. QED
    BY <1>3, <2>1, LeastOne
<1>5. i \in 1..Len(ss) /\ Len(ss) \in Nat /\ ~At(i)
    BY <1>4
<1>6. i # 1
  <2>1. ASSUME i = 1 PROVE FALSE
    <3>1. f[1] = ss[1] /\ st[2] = Len(f[1]) /\ Len(f[1]) \in Nat /\ ss[1] \in Seq(S)
        BY <1>0, <1>1, <1>5, <2>1
    <3>2. At(1)
        BY <3>1
    <3>3. QED
        BY <1>5, <2>1, <3>2
  <2>2. QED
    BY <2>1
<1>7. i - 1 \in 1..Len(ss) /\ At(i - 1)
  <2>1. i - 1 \in 1..Len(ss) /\ ~(i <= i - 1)
    <3> HIDE DEF Bad
    <3>1. i \in Int /\ 1 <= i /\ i <= Len(ss)
        BY <1>5
    <3>2. QED
        BY <1>n, <1>6, <3>1
  <2>2. i - 1 \notin Bad
    <3> HIDE DEF Bad
    <3>1. QED
        BY <1>4, <2>1
  <2>3. QED
    BY <2>1, <2>2
<1>8. f[i] = f[i - 1] \o ss[i] /\ f[i - 1] \in Seq(S) /\ ss[i] \in Seq(S)
    BY <1>0, <1>1, <1>5, <1>6, <1>7
<1>9. /\ Len(f[i]) = Len(f[i - 1]) + Len(ss[i]) /\ Len(ss[i]) \in Nat /\ Len(f[i - 1]) \in Nat
      /\ \A k \in 1..Len(f[i - 1]) : f[i][k] = f[i - 1][k]
      /\ \A k \in 1..Len(ss[i]) : f[i][Len(f[i - 1]) + k] = ss[i][k]
  <2>1. /\ Len(f[i]) = Len(f[i - 1]) + Len(ss[i]) /\ Len(ss[i]) \in Nat /\ Len(f[i - 1]) \in Nat
    BY <1>8, ConcatProperties
  <2>2. \A k \in 1..Len(f[i - 1]) + Len(ss[i]) :
            f[i][k] = IF k <= Len(f[i - 1]) THEN f[i - 1][k] ELSE ss[i][k - Len(f[i - 1])]
    BY <1>8, ConcatProperties
  <2> DEFINE a == Len(f[i - 1])
             b == Len(ss[i])
  <2> HIDE DEF a, b
  <2>3. a \in Nat /\ b \in Nat
    BY <2>1 DEF a, b
  <2>4. \A k \in 1..a + b : f[i][k] = IF k <= a THEN f[i - 1][k] ELSE ss[i][k - a]
    BY <2>2 DEF a, b
  <2>5. ASSUME NEW k \in 1..a PROVE f[i][k] = f[i - 1][k]
    <3>1. k \in 1..a + b /\ k <= a
        BY <2>3
    <3>2. QED
        BY <2>4, <3>1
  <2>6. ASSUME NEW k \in 1..b PROVE f[i][a + k] = ss[i][k]
    <3>1. a + k \in 1..a + b /\ ~(a + k <= a) /\ (a + k) - a = k
        BY <2>3
    <3>2. QED
        BY <2>4, <3>1
  <2>7. QED
    BY <2>1, <2>5, <2>6 DEF a, b
<1>10. ASSUME NEW m \in 1..i
       PROVE  /\ st[m + 1] <= Len(f[i])
              /\ \A k \in 1..Len(ss[m]) : f[i][st[m] + k] = ss[m][k]
  <2>1. CASE m = i
    <3>1. st[i] = Len(f[i - 1]) /\ st[i + 1] = Len(f[i])
      <4>1. (i - 1) + 1 = i
        BY <1>5
      <4>2. st[(i - 1) + 1] = Len(f[i - 1]) /\ st[i + 1] = Len(f[i])
        BY <1>5, <1>7
      <4>3. QED
        BY <4>1, <4>2
    <3>2. QED
        BY <1>9, <2>1, <3>1
  <2>2. CASE m # i
    <3>1. m \in 1..i - 1 /\ m \in 1..Len(ss) /\ m + 1 \in 1..Len(ss) + 1
        BY <1>5, <2>2
    <3>2. /\ st[m + 1] <= Len(f[i - 1])
          /\ \A k \in 1..Len(ss[m]) : f[i - 1][st[m] + k] = ss[m][k]
        BY <1>7, <3>1
    <3>3. /\ st[m] \in Nat /\ st[m + 1] \in Nat
          /\ st[m + 1] = st[m] + Len(ss[m]) /\ Len(ss[m]) \in Nat
      <4>1. m \in 1..Len(ss) + 1
        BY <1>n, <3>1
      <4>2. QED
        BY <1>n, <1>2, <3>1, <4>1
    <3> DEFINE a == Len(f[i - 1])
               b == Len(ss[i])
    <3>a. /\ a \in Nat /\ b \in Nat /\ Len(f[i]) = a + b /\ st[m + 1] <= a
        BY <1>9, <3>2
    <3>b. \A k \in 1..a : f[i][k] = f[i - 1][k]
        BY <1>9
    <3> HIDE DEF a, b
    <3>4. ASSUME NEW k \in 1..Len(ss[m]) PROVE f[i][st[m] + k] = ss[m][k]
      <4>1. st[m] + k \in 1..a
        <5> DEFINE p == st[m]
                   q == st[m + 1]
                   l == Len(ss[m])
        <5>1. p \in Nat /\ q \in Nat /\ l \in Nat /\ q = p + l /\ q <= a /\ k \in 1..l /\ a \in Nat
          BY <3>a, <3>3
        <5> HIDE DEF p, q, l
        <5>2. p + k \in 1..a
          BY <5>1
        <5>3. QED
          BY <5>2 DEF p
      <4>2. QED
        BY <3>b, <3>2, <4>1
    <3>5. st[m + 1] <= Len(f[i])
        BY <3>a, <3>3
    <3>6. QED
        BY <3>4, <3>5
  <2>3. QED
    BY <2>1, <2>2
<1>11. QED
    BY <1>5, <1>10

\* Every message of the wire has a place where it starts.
LEMMA StartsExist ==
    ASSUME bodies \in Peers
    PROVE  Wire \in Seq(Bytes) /\ \E st : AreStarts(st)
PROOF
<1> DEFINE n  == Len(bodies)
           ss == [m \in 1..n |-> Message(m)]
           B  == [msg : 1..n, at : Nat]
<1>0. n \in Nat /\ bodies \in Seq([len : Nat, known : BOOLEAN])
    BY ConnAssumption
<1>1. CASE n = 0
    BY <1>1, WireOfNothing
<1>2. CASE n # 0
  <2>1. ASSUME NEW m \in 1..n
        PROVE  /\ MessageLen(m) \in Nat /\ MessageLen(m) >= HeadLen
               /\ Message(m) \in Seq(B) /\ Len(Message(m)) = MessageLen(m)
               /\ \A k \in 1..MessageLen(m) : Message(m)[k] = Byte(m, k)
    <3>1. \A k \in 1..MessageLen(m) : Byte(m, k) \in B
        BY <1>0 DEF Byte
    <3>2. QED
        BY <3>1, MessageIs
  <2>2. Wire = FlattenSeq(ss)
    BY DEF Wire, Message, MessageLen, Byte
  <2>3. ss \in Seq(Seq(B)) /\ Len(ss) = n /\ ss # <<>> /\ \A m \in 1..n : ss[m] = Message(m)
    <3> HIDE DEF n, B
    <3>1. \A m \in 1..n : Message(m) \in Seq(B)
        BY <2>1
    <3>2. QED
        BY <1>0, <1>2, <3>1
  <2>4. PICK f : Flattens(f, ss, n) /\ FlattenSeq(ss) = f[n]
    <3> HIDE DEF ss, B, n
    <3>1. QED
        BY <2>3, FlattenIs
  <2>5. \A i \in 1..n : f[i] \in Seq(B)
    <3> HIDE DEF ss, B, n
    <3>1. QED
        BY <2>3, <2>4, FlattensTyped
  <2> DEFINE st == [m \in 1..n + 1 |-> IF m = 1 THEN 0 ELSE Len(f[m - 1])]
  <2>6. st \in [1..n + 1 -> Nat] /\ st[1] = 0 /\ \A m \in 1..n : st[m + 1] = Len(f[m])
    <3> HIDE DEF B, n
    <3>1. \A i \in 1..n : Len(f[i]) \in Nat
        BY <2>5
    <3>2. ASSUME NEW m \in 1..n + 1 PROVE (IF m = 1 THEN 0 ELSE Len(f[m - 1])) \in Nat
      <4>1. CASE m # 1
        <5>1. m - 1 \in 1..n
            BY <1>0, <4>1
        <5>2. QED
            BY <3>1, <4>1, <5>1
      <4>2. QED
        BY <4>1
    <3>3. ASSUME NEW m \in 1..n PROVE st[m + 1] = Len(f[m])
      <4>1. m + 1 \in 1..n + 1 /\ m + 1 # 1 /\ (m + 1) - 1 = m
        BY <1>0
      <4>2. QED
        BY <4>1
    <3>4. 1 \in 1..n + 1
        BY <1>0
    <3>5. QED
        BY <3>2, <3>3, <3>4
  <2> HIDE DEF st
  <2>7. /\ \A m \in 1..n : st[m + 1] = st[m] + Len(ss[m])
        /\ \A i \in 1..n : \A m \in 1..i :
                /\ st[m + 1] <= Len(f[i])
                /\ \A k \in 1..Len(ss[m]) : f[i][st[m] + k] = ss[m][k]
    <3> HIDE DEF ss, B, n
    <3>1. /\ (\A m \in 1..Len(ss) + 1 : st[m] \in Nat) /\ st[1] = 0 /\ Flattens(f, ss, Len(ss))
          /\ \A m \in 1..Len(ss) : st[m + 1] = Len(f[m])
        BY <2>3, <2>4, <2>6
    <3>2. ss \in Seq(Seq(B))
        BY <2>3
    <3>3. Places(f, ss, st)
        BY <3>1 DEF Places
    <3>4. Placed(f, ss, st)
        BY <3>1, <3>2, <3>3, JoinedAt
    <3>5. QED
        BY <2>3, <3>4 DEF Placed
  <2>8. /\ Wire = f[n] /\ Len(Wire) \in Nat /\ st[n + 1] = Len(Wire)
    <3>1. n \in 1..n
        BY <1>0, <1>2
    <3>2. Wire = f[n]
        BY <2>2, <2>4
    <3> HIDE DEF ss, B, n
    <3>3. f[n] \in Seq(B) /\ st[n + 1] = Len(f[n])
        BY <2>5, <2>6, <3>1
    <3>4. Len(f[n]) \in Nat
        BY <3>3
    <3>5. QED
        BY <3>2, <3>3, <3>4
  <2>9. \A m \in 1..n : st[m + 1] = st[m] + MessageLen(m) /\ st[m + 1] <= Len(Wire)
                        /\ \A k \in 1..MessageLen(m) : Wire[st[m] + k] = Byte(m, k)
    <3>1. n \in 1..n
        BY <1>0, <1>2
    <3> HIDE DEF ss, n
    <3>2. ASSUME NEW m \in 1..n
          PROVE  st[m + 1] = st[m] + MessageLen(m) /\ st[m + 1] <= Len(Wire)
                        /\ \A k \in 1..MessageLen(m) : Wire[st[m] + k] = Byte(m, k)
      <4>1. ss[m] = Message(m) /\ Len(ss[m]) = MessageLen(m) /\ m \in 1..n
        BY <2>1, <2>3
      <4>2. st[m + 1] = st[m] + Len(ss[m])
        BY <2>7
      <4>3. /\ st[m + 1] <= Len(f[n])
            /\ \A k \in 1..Len(ss[m]) : f[n][st[m] + k] = ss[m][k]
        BY <2>7, <3>1
      <4>4. QED
        BY <2>1, <2>8, <4>1, <4>2, <4>3
    <3>3. QED
        BY <3>2
  <2>10. st \in [1..n + 1 -> 0..Len(Wire)]
    <3> HIDE DEF n
    <3>1. ASSUME NEW m \in 1..n + 1 PROVE st[m] \in 0..Len(Wire)
      <4>1. CASE m = 1
        BY <2>6, <2>8, <4>1
      <4>2. CASE m # 1
        <5>1. m - 1 \in 1..n /\ (m - 1) + 1 = m
            BY <1>0, <4>2
        <5>2. st[m] <= Len(Wire) /\ st[m] \in Nat
            BY <2>6, <2>9, <5>1
        <5>3. QED
            BY <2>8, <5>2
      <4>3. QED
        BY <4>1, <4>2
    <3>2. QED
        BY <2>6, <3>1
  <2>11. AreStarts(st)
    BY <2>6, <2>8, <2>9, <2>10 DEF AreStarts
  <2>12. Wire \in Seq(Bytes)
    <3>1. ASSUME NEW m \in 1..n, NEW k \in 1..MessageLen(m) PROVE Byte(m, k) \in Bytes
      <4>1. MessageLen(m) <= Len(Wire)
        <5> HIDE DEF n
        <5> DEFINE a == st[m]
                   b == st[m + 1]
                   c == MessageLen(m)
                   d == Len(Wire)
        <5>1. a \in Nat /\ b = a + c /\ b <= d
            BY <1>0, <2>6, <2>9
        <5>2. c \in Nat /\ d \in Nat
            BY <2>1, <2>8
        <5> HIDE DEF a, b, c, d
        <5>3. c <= d
            BY <5>1, <5>2
        <5>4. QED
            BY <5>3 DEF c, d
      <4>2. k \in 1..Len(Wire)
        BY SMTT(30), <2>1, <2>8, <4>1
      <4>3. QED
        BY <4>2 DEF Byte, Bytes
    <3>2. \A m \in 1..n : Message(m) \in Seq(Bytes)
      <4>1. ASSUME NEW m \in 1..n PROVE Message(m) \in Seq(Bytes)
        BY <3>1, MessageIs
      <4>2. QED
        BY <4>1
    <3>3. ss \in Seq(Seq(Bytes))
      <4> HIDE DEF n
      <4>1. QED
        BY <1>0, <3>2
    <3>4. \A i \in 1..Len(ss) : f[i] \in Seq(Bytes)
      <4> HIDE DEF ss, n
      <4>1. QED
        BY <2>3, <2>4, <3>3, FlattensTyped
    <3>5. n \in 1..Len(ss)
      <4> HIDE DEF ss, n
      <4>1. QED
        BY <1>0, <1>2, <2>3
    <3>6. QED
        BY <2>8, <3>4, <3>5
  <2>13. QED
    BY <2>11, <2>12
<1>3. QED
    BY <1>1, <1>2

\* Where message m starts.
Start(m) == (CHOOSE st : AreStarts(st))[m]

\* All the proofs use of the wire: messages follow one another from their
\* starts, byte by byte.
LEMMA StartIs ==
    ASSUME bodies \in Peers
    PROVE  /\ Wire \in Seq(Bytes) /\ Len(Wire) \in Nat /\ Len(bodies) \in Nat
           /\ \A m \in 1..Len(bodies) + 1 : Start(m) \in 0..Len(Wire)
           /\ Start(1) = 0 /\ Start(Len(bodies) + 1) = Len(Wire)
           /\ \A m \in 1..Len(bodies) : /\ Start(m + 1) = Start(m) + MessageLen(m)
                                        /\ MessageLen(m) \in Nat /\ MessageLen(m) >= HeadLen
           /\ \A m \in 1..Len(bodies) : \A k \in 1..MessageLen(m) :
                    Wire[Start(m) + k] = Byte(m, k)
PROOF
<1> DEFINE st == CHOOSE t : AreStarts(t)
<1>1. AreStarts(st) /\ Wire \in Seq(Bytes)
    BY StartsExist
<1>2. Len(Wire) \in Nat /\ Len(bodies) \in Nat
    BY <1>1, ConnAssumption
<1>3. \A m \in 1..Len(bodies) : MessageLen(m) \in Nat /\ MessageLen(m) >= HeadLen
  <2>1. ASSUME NEW m \in 1..Len(bodies) PROVE MessageLen(m) \in Nat /\ MessageLen(m) >= HeadLen
    <3> DEFINE S == {Byte(m, k) : k \in 1..MessageLen(m)}
    <3>1. \A k \in 1..MessageLen(m) : Byte(m, k) \in S
        OBVIOUS
    <3> HIDE DEF S
    <3>2. QED
        BY <3>1, MessageIs
  <2>2. QED
    BY <2>1
<1>4. \A m : Start(m) = st[m]
    BY DEF Start
<1> HIDE DEF st
<1>5. QED
    BY <1>1, <1>2, <1>3, <1>4 DEF AreStarts

-----------------------------------------------------------------------------
\* The resolver.

DnsRecords ==
    [conn : {"none", "connecting", "open", "gone"}, doomed : BOOLEAN, retries : Nat,
     due : BOOLEAN, queued : BOOLEAN, asked : BOOLEAN, sent : Nat, calls : Nat]

\* How many queries may be sent.
MaxSent == IF MaxRetries = 0 THEN 1 ELSE MaxRetries

\* A query that is in the buffer has been counted, and is not among those
\* sent; the request is there until it has been answered.
DnsSound(d) ==
    /\ d \in DnsRecords
    /\ d.retries <= MaxRetries + 1 /\ d.sent <= MaxSent
    /\ d.sent <= d.retries /\ (d.queued => d.sent < d.retries)
    /\ d.conn = "connecting" => d.retries = 0
    /\ d.conn \in {"connecting", "open"} /\ ~d.doomed => d.asked
    /\ d.asked => d.conn \in {"connecting", "open"}
    /\ d.calls = IF d.conn = "none" \/ d.asked THEN 0 ELSE 1

\* A poll gives up, asks again, or does nothing.
LEMMA PolledIs ==
    ASSUME NEW d \in DnsRecords, d.asked
    PROVE  \/ d.retries > MaxRetries /\ Polled(d) = [d EXCEPT !.doomed = TRUE]
           \/ /\ d.retries <= MaxRetries /\ d.conn = "open"
              /\ Polled(d) = [d EXCEPT !.retries = d.retries + 1, !.due = FALSE, !.queued = TRUE]
           \/ d.retries <= MaxRetries /\ Polled(d) = d
PROOF
<1>1. d.retries \in Nat /\ MaxRetries \in Nat
    BY ConnAssumption DEF DnsRecords
<1>2. CASE d.retries > MaxRetries
    BY <1>1, <1>2 DEF Polled
<1>3. CASE d.retries <= MaxRetries /\ d.conn = "open" /\ (d.retries = 0 \/ d.due)
  <2>1. ~(d.retries > MaxRetries)
    BY <1>1, <1>3
  <2>2. Polled(d) = Queried(d)
    BY <1>3, <2>1 DEF Polled
  <2>3. QED
    BY <1>3, <2>2 DEF Queried
<1>4. CASE /\ d.retries <= MaxRetries
           /\ ~(d.retries <= MaxRetries /\ d.conn = "open" /\ (d.retries = 0 \/ d.due))
  <2>1. ~(d.retries > MaxRetries)
    BY <1>1, <1>4
  <2>2. Polled(d) = d
    BY <1>4, <2>1 DEF Polled
  <2>3. QED
    BY <1>4, <2>2
<1>5. QED
    BY <1>1, <1>2, <1>3, <1>4

\* A poll of the resolver keeps its state sound and sends nothing by itself;
\* past the retries it dooms the connection.
LEMMA PolledSound ==
    ASSUME NEW d, DnsSound(d), d.conn \in {"connecting", "open"}, ~d.doomed
    PROVE  /\ DnsSound(Polled(d)) /\ Polled(d).conn = d.conn
           /\ Polled(d).asked = d.asked /\ Polled(d).sent = d.sent
           /\ Polled(d).retries >= d.retries
           /\ ~Polled(d).doomed => d.retries <= MaxRetries
PROOF
<1>0. d.asked /\ MaxRetries \in Nat /\ d \in DnsRecords
    BY ConnAssumption DEF DnsSound
<1> DEFINE e == Polled(d)
<1>1. CASE e = [d EXCEPT !.doomed = TRUE]
  <2>1. /\ e \in DnsRecords /\ e.conn = d.conn /\ e.doomed /\ e.asked = d.asked
        /\ e.retries = d.retries /\ e.sent = d.sent /\ e.queued = d.queued
        /\ e.calls = d.calls
    BY <1>0, <1>1 DEF DnsRecords
  <2>2. d.retries \in Nat
    BY <1>0 DEF DnsRecords
  <2> HIDE DEF e
  <2>3. QED
    BY <2>1, <2>2 DEF DnsSound, e
<1>2. CASE /\ d.retries <= MaxRetries /\ d.conn = "open"
           /\ e = [d EXCEPT !.retries = d.retries + 1, !.due = FALSE, !.queued = TRUE]
  <2>1. /\ e \in DnsRecords /\ e.conn = "open" /\ e.doomed = d.doomed /\ e.asked = d.asked
        /\ e.retries = d.retries + 1 /\ e.sent = d.sent /\ e.queued
        /\ e.calls = d.calls
    <3> DEFINE n == d.retries + 1
    <3>1. n \in Nat
        BY <1>0 DEF DnsRecords
    <3>2. e = [d EXCEPT !.retries = n, !.due = FALSE, !.queued = TRUE]
        BY <1>2
    <3> HIDE DEF n, e
    <3>3. /\ e \in DnsRecords /\ e.conn = d.conn /\ e.doomed = d.doomed /\ e.asked = d.asked
          /\ e.retries = n /\ e.sent = d.sent /\ e.calls = d.calls
        BY <1>0, <3>1, <3>2 DEF DnsRecords
    <3>4. e.queued = TRUE
        BY <1>0, <3>1, <3>2 DEF DnsRecords
    <3>5. QED
        BY <1>2, <3>3, <3>4 DEF n
  <2>2. d.retries \in Nat /\ d.sent \in Nat
    BY <1>0 DEF DnsRecords
  <2> HIDE DEF e
  <2>3. e.retries <= MaxRetries + 1 /\ e.sent < e.retries /\ e.sent <= e.retries
    BY <1>0, <1>2, <2>1, <2>2 DEF DnsSound
  <2>4. DnsSound(e)
    BY <1>0, <1>2, <2>1, <2>3 DEF DnsSound
  <2>5. e.retries >= d.retries
    BY <2>1, <2>2
  <2>6. QED
    BY <1>2, <2>1, <2>4, <2>5 DEF e
<1>3. CASE d.retries <= MaxRetries /\ e = d
  <2>1. d.retries \in Nat
    BY <1>0 DEF DnsRecords
  <2>2. QED
    BY <1>3, <2>1
<1>4. QED
    BY <1>0, <1>1, <1>2, <1>3, PolledIs

\* Where a connection can be.
ConnRecords ==
    [at : {"resolving", "connecting", "open", "closed"},
     doomed : BOOLEAN, ending : BOOLEAN, out : BOOLEAN]

\* What the resolver and its connection know of one another.
Resolving ==
    /\ DnsSound(dns)
    /\ dns.asked <=> conn.at = "resolving"
    /\ conn \in ConnRecords

\* At the start nothing is resolved.
LEMMA InitResolving == Init => Resolving
PROOF
<1> SUFFICES ASSUME Init PROVE Resolving
    OBVIOUS
<1>1. DnsSound(NoDns) /\ ~NoDns.asked
    BY ConnAssumption DEF DnsSound, DnsRecords, NoDns, MaxSent
<1>2. DnsSound(NewDns) /\ NewDns.asked
  <2> DEFINE d == NoDns
  <2>1. /\ d \in DnsRecords /\ d.doomed = FALSE /\ d.retries = 0 /\ d.queued = FALSE
        /\ d.sent = 0 /\ d.calls = 0
    BY DEF NoDns, DnsRecords
  <2>2. NewDns = [d EXCEPT !.conn = "connecting", !.asked = TRUE]
    BY DEF NewDns
  <2> HIDE DEF d
  <2>3. /\ NewDns \in DnsRecords /\ NewDns.conn = "connecting" /\ NewDns.asked = TRUE
        /\ NewDns.doomed = FALSE /\ NewDns.retries = 0 /\ NewDns.queued = FALSE
        /\ NewDns.sent = 0 /\ NewDns.calls = 0
    BY <2>1, <2>2 DEF DnsRecords
  <2>4. QED
    BY <2>3, ConnAssumption DEF DnsSound, MaxSent
<1>3. PICK at \in IF side = "client" THEN {"resolving", "connecting"} ELSE {"open"} :
        /\ conn = [at |-> at, doomed |-> FALSE, ending |-> FALSE, out |-> side = "client"]
        /\ dns = IF at = "resolving" THEN NewDns ELSE NoDns
    BY DEF Init
<1>4. (side = "client") \in BOOLEAN
    OBVIOUS
<1>5. QED
    BY <1>1, <1>2, <1>3, <1>4 DEF Resolving, ConnRecords

\* The connection's own steps do not bring it back to the resolver.
LEMMA ConnOnly ==
    ASSUME Resolving, UNCHANGED dns, conn.at # "resolving" \/ conn'.at = conn.at,
           conn'.at # "resolving" \/ conn'.at = conn.at,
           conn' \in ConnRecords
    PROVE  Resolving'
PROOF
    BY DEF Resolving

\* A step of the resolver that leaves the connection alone.
LEMMA DnsOnly ==
    ASSUME Resolving, UNCHANGED conn, DnsSound(dns'), dns'.asked = dns.asked
    PROVE  Resolving'
PROOF
    BY DEF Resolving, DnsSound, DnsRecords, MaxSent

\* The resolver's connection opens, or does not.
LEMMA ResolvingDnsConnect ==
    ASSUME Resolving, NEW ok \in BOOLEAN, DnsConnect(ok)
    PROVE  Resolving'
PROOF
<1> DEFINE c == [Polled(dns) EXCEPT !.conn = "open", !.doomed = ~ok]
           d == Queried(c)
           e == SentOut(d, TRUE)
<1>1. /\ dns \in DnsRecords /\ dns.conn = "connecting" /\ dns.asked /\ dns.doomed = FALSE
      /\ dns.retries = 0 /\ dns.sent = 0 /\ dns.calls = 0 /\ MaxRetries \in Nat
  <2>1. DnsSound(dns) /\ dns.conn = "connecting" /\ ~dns.doomed
    BY DEF Resolving, DnsConnect, DnsTurn
  <2>2. dns \in DnsRecords /\ dns.sent \in Nat /\ dns.doomed \in BOOLEAN
    BY <2>1 DEF DnsSound, DnsRecords
  <2>3. QED
    BY <2>1, <2>2, ConnAssumption DEF DnsSound
<1>2. Polled(dns) = dns
    BY <1>1 DEF Polled
<1>3. dns' = e /\ UNCHANGED conn
    BY DEF DnsConnect
<1>4. c = [dns EXCEPT !.conn = "open", !.doomed = ~ok]
    BY <1>2
<1>5. d = [c EXCEPT !.retries = c.retries + 1, !.due = FALSE, !.queued = TRUE]
    BY DEF Queried
<1>6. e = IF d.doomed THEN d ELSE [d EXCEPT !.queued = FALSE, !.sent = d.sent + 1]
    BY DEF SentOut
<1> HIDE DEF c, d, e
<1>7. /\ c \in DnsRecords /\ c.conn = "open" /\ c.asked = dns.asked
      /\ c.retries = 0 /\ c.sent = 0 /\ c.calls = 0
    BY <1>1, <1>4 DEF DnsRecords
<1>8. d = [c EXCEPT !.retries = 1, !.due = FALSE, !.queued = TRUE]
    BY <1>5, <1>7
<1>9. /\ d \in DnsRecords /\ d.conn = "open" /\ d.asked = dns.asked
      /\ d.retries = 1 /\ d.sent = 0 /\ d.calls = 0
    BY <1>7, <1>8 DEF DnsRecords
<1>10. e = IF d.doomed THEN d ELSE [d EXCEPT !.queued = FALSE, !.sent = 1]
    BY <1>6, <1>9
<1>11. /\ e \in DnsRecords /\ e.conn = "open" /\ e.asked = dns.asked
       /\ e.retries = 1 /\ e.calls = 0
       /\ e.sent = 0 \/ (e.sent = 1 /\ e.queued = FALSE)
    BY <1>9, <1>10 DEF DnsRecords
<1>12. 0 <= MaxSent /\ 1 <= MaxSent /\ 1 <= MaxRetries + 1
    BY <1>1 DEF MaxSent
<1>13. DnsSound(e)
    BY <1>1, <1>11, <1>12 DEF DnsSound
<1>14. QED
    BY <1>3, <1>11, <1>13, DnsOnly

\* The resolver sends its query, or cannot.
LEMMA ResolvingDnsSend ==
    ASSUME Resolving, NEW ok \in BOOLEAN, DnsSend(ok)
    PROVE  Resolving'
PROOF
<1> DEFINE d == Polled(dns)
           n == d.sent + 1
<1>1. /\ DnsSound(dns) /\ dns.conn \in {"connecting", "open"} /\ ~dns.doomed /\ dns.queued
      /\ dns' = SentOut(d, ok) /\ UNCHANGED conn
    BY DEF Resolving, DnsSend, DnsTurn
<1>2. /\ DnsSound(d) /\ d.conn = dns.conn /\ d.asked = dns.asked /\ d.sent = dns.sent
      /\ d.retries >= dns.retries /\ (~d.doomed => dns.retries <= MaxRetries)
    BY <1>1, PolledSound
<1>3. CASE d.doomed
    BY <1>1, <1>2, <1>3, DnsOnly DEF SentOut
<1>4. CASE ~d.doomed /\ ok
  <2>1. dns' = [d EXCEPT !.queued = FALSE, !.sent = n]
    BY <1>1, <1>4 DEF SentOut
  <2>2. /\ dns.sent \in Nat /\ dns.retries \in Nat /\ d.retries \in Nat /\ MaxRetries \in Nat
    BY <1>1, <1>2, ConnAssumption DEF DnsSound, DnsRecords
  <2>3. n \in Nat /\ n <= d.retries /\ n <= MaxSent
    BY <1>1, <1>2, <1>4, <2>2 DEF DnsSound, MaxSent
  <2> HIDE DEF n, d
  <2>4. /\ dns' \in DnsRecords /\ dns'.conn = d.conn /\ dns'.doomed = d.doomed
        /\ dns'.retries = d.retries /\ dns'.queued = FALSE /\ dns'.asked = d.asked
        /\ dns'.sent = n /\ dns'.calls = d.calls
    BY <1>2, <2>1, <2>3 DEF DnsSound, DnsRecords
  <2>5. DnsSound(dns')
    BY <1>2, <2>3, <2>4 DEF DnsSound
  <2>6. QED
    BY <1>1, <1>2, <2>4, <2>5, DnsOnly
<1>5. CASE ~d.doomed /\ ~ok
  <2>1. dns' = [d EXCEPT !.queued = FALSE, !.sent = d.sent]
    BY <1>1, <1>5 DEF SentOut
  <2> HIDE DEF d
  <2>2. /\ dns' \in DnsRecords /\ dns'.conn = d.conn /\ dns'.doomed = d.doomed
        /\ dns'.retries = d.retries /\ dns'.queued = FALSE /\ dns'.asked = d.asked
        /\ dns'.sent = d.sent /\ dns'.calls = d.calls
    BY <1>2, <2>1 DEF DnsSound, DnsRecords
  <2>3. DnsSound(dns')
    BY <1>2, <2>2 DEF DnsSound
  <2>4. QED
    BY <1>1, <1>2, <2>2, <2>3, DnsOnly
<1>6. QED
    BY <1>3, <1>4, <1>5

\* The resolver's time is up, and it asks again or gives up.
LEMMA ResolvingDnsDue ==
    ASSUME Resolving, DnsDue
    PROVE  Resolving'
PROOF
<1>1. DnsSound(dns) /\ dns' = [dns EXCEPT !.due = TRUE] /\ UNCHANGED conn
    BY DEF Resolving, DnsDue
<1>2. /\ dns' \in DnsRecords /\ dns'.conn = dns.conn /\ dns'.doomed = dns.doomed
      /\ dns'.retries = dns.retries /\ dns'.queued = dns.queued /\ dns'.asked = dns.asked
      /\ dns'.sent = dns.sent /\ dns'.calls = dns.calls
    BY <1>1 DEF DnsSound, DnsRecords
<1>3. DnsSound(dns')
    BY <1>1, <1>2 DEF DnsSound
<1>4. QED
    BY <1>1, <1>2, <1>3, DnsOnly

\* Where resolve_cb() leaves the connection.
LEMMA FailsAt ==
    ASSUME Resolving, ResolveFails
    PROVE  conn' \in ConnRecords /\ conn'.at = "closed"
PROOF
    BY DEF Resolving, ResolveFails, ConnRecords

\* The resolver hears an answer.
LEMMA ResolvingDnsRecv ==
    ASSUME Resolving, NEW found, DnsRecv(found)
    PROVE  Resolving'
PROOF
<1> DEFINE d == Polled(dns)
           n == d.calls + 1
<1>1. DnsSound(dns) /\ dns.conn \in {"connecting", "open"} /\ ~dns.doomed /\ dns.asked
    BY DEF Resolving, DnsRecv, DnsTurn, DnsSound
<1>2. DnsSound(d) /\ d.conn = dns.conn /\ d.asked = dns.asked
    BY <1>1, PolledSound
<1>3. CASE d.doomed \/ found = "nothing"
  <2>1. dns' = [d EXCEPT !.doomed = TRUE] /\ UNCHANGED conn
    BY <1>3 DEF DnsRecv
  <2> HIDE DEF d
  <2>2. /\ dns' \in DnsRecords /\ dns'.conn = d.conn /\ dns'.doomed = TRUE
        /\ dns'.retries = d.retries /\ dns'.queued = d.queued /\ dns'.asked = d.asked
        /\ dns'.sent = d.sent /\ dns'.calls = d.calls
    BY <1>2, <2>1 DEF DnsSound, DnsRecords
  <2>3. DnsSound(dns')
    BY <1>2, <2>2 DEF DnsSound
  <2>4. QED
    BY <1>2, <2>1, <2>2, <2>3, DnsOnly
<1>4. CASE ~(d.doomed \/ found = "nothing")
  <2>1. dns' = [d EXCEPT !.doomed = TRUE, !.asked = FALSE, !.calls = n]
    BY <1>4 DEF DnsRecv, Answered
  <2>2. d.calls = 0 /\ n = 1 /\ d.conn # "none"
    BY <1>1, <1>2 DEF DnsSound, DnsRecords
  <2>3. conn' \in ConnRecords /\ conn'.at # "resolving"
    <3>1. \/ ResolveFails
          \/ conn' = [conn EXCEPT !.at = "connecting"]
        BY <1>4 DEF DnsRecv
    <3>2. CASE ResolveFails
        BY <3>2, FailsAt
    <3>3. CASE conn' = [conn EXCEPT !.at = "connecting"]
        BY <3>3 DEF Resolving, ConnRecords
    <3>4. QED
        BY <3>1, <3>2, <3>3
  <2> HIDE DEF d, n
  <2>4. /\ dns' \in DnsRecords /\ dns'.conn = d.conn /\ dns'.doomed = TRUE
        /\ dns'.retries = d.retries /\ dns'.queued = d.queued /\ dns'.asked = FALSE
        /\ dns'.sent = d.sent /\ dns'.calls = 1
    BY <1>2, <2>1, <2>2 DEF DnsSound, DnsRecords
  <2>5. DnsSound(dns')
    BY <1>2, <2>2, <2>4 DEF DnsSound
  <2>6. QED
    BY <2>3, <2>4, <2>5 DEF Resolving, DnsSound, DnsRecords, ConnRecords, MaxSent
<1>5. QED
    BY <1>3, <1>4

\* The resolver's connection closes, and the one that waits is told.
LEMMA ResolvingDnsClose ==
    ASSUME Resolving, DnsClose
    PROVE  Resolving'
PROOF
<1> DEFINE n == IF dns.asked THEN dns.calls + 1 ELSE dns.calls
<1>1. DnsSound(dns) /\ dns.conn \in {"connecting", "open"}
    BY DEF Resolving, DnsClose
<1>2. dns' = [dns EXCEPT !.conn = "gone", !.asked = FALSE, !.doomed = TRUE, !.calls = n]
    BY DEF DnsClose
<1>3. n = 1
    BY <1>1 DEF DnsSound, DnsRecords
<1>4. conn' \in ConnRecords /\ conn'.at # "resolving"
  <2>1. CASE dns.asked
    BY <2>1, FailsAt DEF DnsClose
  <2>2. CASE ~dns.asked
    BY <2>2 DEF DnsClose, Resolving
  <2>3. QED
    BY <2>1, <2>2
<1> HIDE DEF n
<1>5. /\ dns' \in DnsRecords /\ dns'.conn = "gone" /\ dns'.doomed = TRUE
      /\ dns'.retries = dns.retries /\ dns'.queued = dns.queued /\ dns'.asked = FALSE
      /\ dns'.sent = dns.sent /\ dns'.calls = 1
    BY <1>1, <1>2, <1>3 DEF DnsSound, DnsRecords
<1>6. DnsSound(dns')
    BY <1>1, <1>5 DEF DnsSound
<1>7. QED
    BY <1>4, <1>5, <1>6 DEF Resolving, DnsSound, DnsRecords, ConnRecords, MaxSent

-----------------------------------------------------------------------------
\* mg_http_handler(), as the records it makes.

\* What the handler is called on.
Shape(x) ==
    /\ x = [conn |-> x.conn, http |-> x.http, user |-> x.user, heard |-> x.heard]
    /\ x.conn \in ConnRecords
    /\ x.http = [io |-> x.http.io, rcvd |-> x.http.rcvd, parsing |-> x.http.parsing]
    /\ x.heard = [events |-> x.heard.events, body |-> x.heard.body,
                  requests |-> x.heard.requests]

\* The chunk is taken by a pipe that listens.
LEMMA ChunkTaken ==
    ASSUME NEW x, Shape(x), NEW quits \in BOOLEAN, Takes(x)
    PROVE  LET y == DeliverChunk(x, quits)
           IN  /\ Shape(y)
               /\ y.conn.at = x.conn.at /\ (x.conn.doomed \/ quits => y.conn.doomed)
               /\ y.http = [x.http EXCEPT !.io = SubSeq(x.http.io, 1, HeadLen)]
               /\ (quits => y.user = "quit") /\ (~quits => y.user = x.user)
               /\ y.heard = [x.heard EXCEPT !.body =
                    x.heard.body \o SubSeq(x.http.io, HeadLen + 1, Len(x.http.io))]
PROOF
<1> DEFINE body == x.heard.body \o SubSeq(x.http.io, HeadLen + 1, Len(x.http.io))
           io   == SubSeq(x.http.io, 1, HeadLen)
           u    == IF quits THEN "quit" ELSE x.user
           dm   == x.conn.doomed \/ quits
           y    == DeliverChunk(x, quits)
<1>1. y = [x EXCEPT !.heard.body = body, !.http.io = io, !.user = u, !.conn.doomed = dm]
    BY DEF DeliverChunk
<1>2. dm \in BOOLEAN
    BY DEF Shape, ConnRecords
<1> SUFFICES /\ Shape(y)
             /\ y.conn.at = x.conn.at /\ (dm => y.conn.doomed)
             /\ y.http = [x.http EXCEPT !.io = io]
             /\ (quits => y.user = "quit") /\ (~quits => y.user = x.user)
             /\ y.heard = [x.heard EXCEPT !.body = body]
    OBVIOUS
<1> HIDE DEF body, io, u, dm, y
<1>3. /\ y.conn = [x.conn EXCEPT !.doomed = dm]
      /\ y.http = [x.http EXCEPT !.io = io]
      /\ y.user = u
      /\ y.heard = [x.heard EXCEPT !.body = body]
      /\ y = [conn |-> y.conn, http |-> y.http, user |-> y.user, heard |-> y.heard]
    BY <1>1 DEF Shape
<1>4. y.conn \in ConnRecords
    BY <1>2, <1>3 DEF Shape, ConnRecords
<1>5. y.http = [io |-> y.http.io, rcvd |-> y.http.rcvd, parsing |-> y.http.parsing]
    BY <1>3 DEF Shape
<1>6. y.heard = [events |-> y.heard.events, body |-> y.heard.body,
                 requests |-> y.heard.requests]
    BY <1>3 DEF Shape
<1>7. y.conn.at = x.conn.at /\ (dm => y.conn.doomed)
    BY <1>2, <1>3 DEF Shape, ConnRecords
<1>8. (quits => y.user = "quit") /\ (~quits => y.user = x.user)
    BY <1>3 DEF u
<1>9. QED
    BY <1>3, <1>4, <1>5, <1>6, <1>7, <1>8 DEF Shape

\* One event more.
Then(events, e) == Append(events, e)

\* A reply is told of to a pipe that listens.
LEMMA ReplyTold ==
    ASSUME NEW x, Shape(x), NEW m, NEW size, Takes(x)
    PROVE  LET y == DeliverMessage(x, m, size)
           IN  /\ Shape(y)
               /\ y.conn.at = x.conn.at /\ y.conn.doomed = TRUE
               /\ y.http = x.http
               /\ y.user = "told"
               /\ y.heard.body = x.heard.body /\ y.heard.requests = x.heard.requests
PROOF
<1> DEFINE events == Then(x.heard.events, "end")
           y      == DeliverMessage(x, m, size)
<1>0. side # "server"
    BY DEF Takes
<1>1. y = [x EXCEPT !.heard.events = events, !.user = "told", !.conn.doomed = TRUE]
    BY <1>0 DEF DeliverMessage, Then
<1> SUFFICES /\ Shape(y)
             /\ y.conn.at = x.conn.at /\ y.conn.doomed = TRUE
             /\ y.http = x.http
             /\ y.user = "told"
             /\ y.heard.body = x.heard.body /\ y.heard.requests = x.heard.requests
    OBVIOUS
<1> HIDE DEF events, y
<1>3. /\ y.conn = [x.conn EXCEPT !.doomed = TRUE]
      /\ y.http = x.http
      /\ y.user = "told"
      /\ y.heard = [x.heard EXCEPT !.events = events]
      /\ y = [conn |-> y.conn, http |-> y.http, user |-> y.user, heard |-> y.heard]
    BY <1>1 DEF Shape
<1>4. y.conn \in ConnRecords
    BY <1>3 DEF Shape, ConnRecords
<1>5. y.heard = [events |-> y.heard.events, body |-> y.heard.body,
                 requests |-> y.heard.requests]
    BY <1>3 DEF Shape
<1>6. y.conn.at = x.conn.at /\ y.conn.doomed = TRUE
    BY <1>3 DEF Shape, ConnRecords
<1>7. /\ y.heard.body = x.heard.body /\ y.heard.requests = x.heard.requests
    BY <1>3 DEF Shape
<1>8. QED
    BY <1>3, <1>4, <1>5, <1>6, <1>7 DEF Shape

\* Delivering the reply tells the pipe of its end.
LEMMA EndHeard ==
    ASSUME NEW x, Shape(x), NEW m, NEW size, Takes(x)
    PROVE  DeliverMessage(x, m, size).heard.events = Then(x.heard.events, "end")
PROOF
<1> DEFINE events == Then(x.heard.events, "end")
           y      == DeliverMessage(x, m, size)
<1>1. side # "server"
    BY DEF Takes
<1>2. y = [x EXCEPT !.heard.events = events, !.user = "told", !.conn.doomed = TRUE]
    BY <1>1 DEF DeliverMessage, Then
<1> SUFFICES y.heard.events = events
    OBVIOUS
<1> HIDE DEF events, y
<1>3. y.heard = [x.heard EXCEPT !.events = events]
    BY <1>2 DEF Shape
<1>4. QED
    BY <1>3 DEF Shape

\* What is known of a request.
Request(m, size) == [msg |-> m, size |-> size]

\* A request is told of to the server.
LEMMA RequestTold ==
    ASSUME NEW x, Shape(x), NEW m, NEW size, side = "server"
    PROVE  LET y == DeliverMessage(x, m, size)
           IN  /\ Shape(y)
               /\ y.conn.at = x.conn.at
               /\ y.http = x.http
               /\ y.user = x.user
               /\ y.heard.events = x.heard.events /\ y.heard.body = x.heard.body
               /\ y.heard.requests = Append(x.heard.requests, Request(m, size))
PROOF
<1> DEFINE requests == Append(x.heard.requests, Request(m, size))
           y        == DeliverMessage(x, m, size)
<1>0. ~Takes(x)
    BY DEF Takes
<1>1. y = [x EXCEPT !.heard.requests = requests, !.conn.out = TRUE]
    BY <1>0 DEF DeliverMessage, Request
<1> SUFFICES /\ Shape(y)
             /\ y.conn.at = x.conn.at
             /\ y.http = x.http
             /\ y.user = x.user
             /\ y.heard.events = x.heard.events /\ y.heard.body = x.heard.body
             /\ y.heard.requests = requests
    OBVIOUS
<1> HIDE DEF requests, y
<1>3. /\ y.conn = [x.conn EXCEPT !.out = TRUE]
      /\ y.http = x.http
      /\ y.user = x.user
      /\ y.heard = [x.heard EXCEPT !.requests = requests]
      /\ y = [conn |-> y.conn, http |-> y.http, user |-> y.user, heard |-> y.heard]
    BY <1>1 DEF Shape
<1>4. y.conn \in ConnRecords
    BY <1>3 DEF Shape, ConnRecords
<1>5. y.heard = [events |-> y.heard.events, body |-> y.heard.body,
                 requests |-> y.heard.requests]
    BY <1>3 DEF Shape
<1>6. y.conn.at = x.conn.at
    BY <1>3 DEF Shape, ConnRecords
<1>7. /\ y.heard.events = x.heard.events /\ y.heard.body = x.heard.body
      /\ y.heard.requests = requests
    BY <1>3 DEF Shape
<1>8. QED
    BY <1>3, <1>4, <1>5, <1>6, <1>7 DEF Shape

\* Whoever has closed, or been told of a reply, is told nothing more.
LEMMA NothingTold ==
    ASSUME NEW x, NEW m, NEW size, NEW quits, side # "server", ~Takes(x)
    PROVE  DeliverChunk(x, quits) = x /\ DeliverMessage(x, m, size) = x
PROOF
    BY DEF DeliverChunk, DeliverMessage

\* The message that has been told of is removed.
LEMMA MessageGone ==
    ASSUME NEW x, Shape(x), NEW m
    PROVE  LET y  == MessageDone(x, m)
               io == Removed(x.http.io, MessageLen(m))
           IN  /\ Shape(y)
               /\ y.conn = x.conn /\ y.user = x.user /\ y.heard = x.heard
               /\ y.http = [io |-> io, rcvd |-> x.http.rcvd - MessageLen(m),
                            parsing |-> io # <<>>]
PROOF
<1> DEFINE io == Removed(x.http.io, MessageLen(m))
           n  == x.http.rcvd - MessageLen(m)
           p  == io # <<>>
           y  == MessageDone(x, m)
<1>1. y = [x EXCEPT !.http.io = io, !.http.rcvd = n, !.http.parsing = p]
    BY DEF MessageDone
<1> SUFFICES /\ Shape(y)
             /\ y.conn = x.conn /\ y.user = x.user /\ y.heard = x.heard
             /\ y.http = [io |-> io, rcvd |-> n, parsing |-> p]
    OBVIOUS
<1> HIDE DEF io, n, p, y
<1>2. /\ y.conn = x.conn /\ y.user = x.user /\ y.heard = x.heard
      /\ y = [conn |-> y.conn, http |-> y.http, user |-> y.user, heard |-> y.heard]
      /\ y.http = [io |-> io, rcvd |-> n, parsing |-> p]
    BY <1>1 DEF Shape
<1>3. y.http = [io |-> y.http.io, rcvd |-> y.http.rcvd, parsing |-> y.http.parsing]
    BY <1>2
<1>4. QED
    BY <1>2, <1>3 DEF Shape

\* The handler makes what it is called on of what it is called on, and leaves
\* the connection where it is.
LEMMA HandlerShape ==
    ASSUME NEW x, Shape(x), NEW quits \in BOOLEAN, NEW m, NEW size
    PROVE  /\ Shape(DeliverChunk(x, quits)) /\ DeliverChunk(x, quits).conn.at = x.conn.at
           /\ Shape(DeliverMessage(x, m, size)) /\ DeliverMessage(x, m, size).conn.at = x.conn.at
           /\ Shape(MessageDone(x, m)) /\ MessageDone(x, m).conn.at = x.conn.at
PROOF
<1>1. Shape(DeliverChunk(x, quits)) /\ DeliverChunk(x, quits).conn.at = x.conn.at
  <2>1. CASE Takes(x)
    BY <2>1, ChunkTaken
  <2>2. CASE ~Takes(x)
    BY <2>2 DEF DeliverChunk
  <2>3. QED
    BY <2>1, <2>2
<1>2. Shape(DeliverMessage(x, m, size)) /\ DeliverMessage(x, m, size).conn.at = x.conn.at
  <2>1. CASE Takes(x)
    BY ZenonT(60), <2>1, ReplyTold
  <2>2. CASE side = "server"
    BY <2>2, RequestTold
  <2>3. CASE ~Takes(x) /\ side # "server"
    BY <2>3, NothingTold
  <2>4. QED
    BY <2>1, <2>2, <2>3
<1>3. Shape(MessageDone(x, m)) /\ MessageDone(x, m).conn.at = x.conn.at
    BY MessageGone
<1>4. QED
    BY <1>1, <1>2, <1>3

\* The loop stops, and the connection may be closed for it.
Rest == [Current EXCEPT !.http.parsing = FALSE]
Cut == [Current EXCEPT !.conn.doomed = TRUE, !.http.parsing = FALSE]

\* What is left when the loop stops waiting for more, or cuts the connection.
LEMMA RestIs ==
    ASSUME Shape(Current)
    PROVE  /\ Shape(Rest) /\ Rest.conn = conn /\ Rest.user = user /\ Rest.heard = heard
           /\ Rest.http = [http EXCEPT !.parsing = FALSE]
           /\ Shape(Cut) /\ Cut.conn = [conn EXCEPT !.doomed = TRUE] /\ Cut.user = user
           /\ Cut.heard = heard /\ Cut.http = [http EXCEPT !.parsing = FALSE]
PROOF
<1> DEFINE x == Current
           r == Rest
           c == Cut
<1>1. x.conn = conn /\ x.http = http /\ x.user = user /\ x.heard = heard /\ Shape(x)
    BY DEF Current
<1>2. r = [x EXCEPT !.http.parsing = FALSE]
    BY DEF Rest
<1>3. c = [x EXCEPT !.conn.doomed = TRUE, !.http.parsing = FALSE]
    BY DEF Cut
<1> HIDE DEF x, r, c
<1>4. /\ r.conn = x.conn /\ r.user = x.user /\ r.heard = x.heard
      /\ r.http = [x.http EXCEPT !.parsing = FALSE]
      /\ r = [conn |-> r.conn, http |-> r.http, user |-> r.user, heard |-> r.heard]
    BY <1>1, <1>2 DEF Shape
<1>5. r.http = [io |-> r.http.io, rcvd |-> r.http.rcvd, parsing |-> r.http.parsing]
    BY <1>1, <1>4 DEF Shape
<1>6. Shape(r)
    BY <1>1, <1>4, <1>5 DEF Shape
<1>7. /\ c.conn = [x.conn EXCEPT !.doomed = TRUE] /\ c.user = x.user /\ c.heard = x.heard
      /\ c.http = [x.http EXCEPT !.parsing = FALSE]
      /\ c = [conn |-> c.conn, http |-> c.http, user |-> c.user, heard |-> c.heard]
    BY <1>1, <1>3 DEF Shape
<1>8. c.http = [io |-> c.http.io, rcvd |-> c.http.rcvd, parsing |-> c.http.parsing]
    BY <1>1, <1>7 DEF Shape
<1>9. c.conn \in ConnRecords
    BY <1>1, <1>7 DEF Shape, ConnRecords
<1>10. Shape(c)
    BY <1>1, <1>7, <1>8, <1>9 DEF Shape
<1>11. QED
    BY <1>1, <1>4, <1>6, <1>7, <1>10 DEF r, c

\* One round of the loop, by what is in front.
LEMMA RoundIs ==
    ASSUME NEW quits \in BOOLEAN, Again(quits)
    PROVE  LET m == Parsed(http.io)
           IN  /\ m = -1 => Become(Cut)
               /\ m = 0 => Become(Rest)
               /\ m > 0 /\ ~Reaches(m, http.rcvd) => Become(DeliverChunk(Rest, quits))
               /\ m > 0 /\ Reaches(m, http.rcvd) =>
                    Become(MessageDone(DeliverMessage(DeliverChunk(Current, quits), m,
                                                      Len(http.io) - HeadLen), m))
PROOF
<1> DEFINE m == Parsed(http.io)
           d == DeliverChunk(Rest, quits)
           t == MessageDone(DeliverMessage(DeliverChunk(Current, quits), m,
                                           Len(http.io) - HeadLen), m)
<1>1. (CASE m = -1 -> Become(Cut)
         [] m = 0 -> Become(Rest)
         [] m > 0 /\ ~Reaches(m, http.rcvd) -> Become(d)
         [] m > 0 /\ Reaches(m, http.rcvd) -> Become(t))
    BY DEF Again, Cut, Rest
<1>2. m > 0 => m # -1 /\ m # 0
    OBVIOUS
<1> HIDE DEF m, d, t
<1>3. m = -1 => Become(Cut)
    BY <1>1, <1>2
<1>4. m = 0 => Become(Rest)
    BY <1>1, <1>2
<1>5. m > 0 /\ ~Reaches(m, http.rcvd) => Become(d)
    BY <1>1, <1>2
<1>6. m > 0 /\ Reaches(m, http.rcvd) => Become(t)
    BY <1>1, <1>2
<1>7. QED
    BY <1>3, <1>4, <1>5, <1>6 DEF m, d, t

\* The handler has been told of the close.
Ended(x) ==
    [x EXCEPT !.conn.at = "closed", !.conn.doomed = TRUE,
              !.heard.events = Append(x.heard.events, "close"), !.http.rcvd = 0]

\* The last event of mg_close_conn() closes the connection and takes nothing.
LEMMA EndedIs ==
    ASSUME NEW x, Shape(x)
    PROVE  LET y == Ended(x)
           IN  /\ Shape(y)
               /\ y.conn.at = "closed" /\ y.conn.doomed = TRUE
               /\ y.http.io = x.http.io /\ y.http.rcvd = 0 /\ y.http.parsing = x.http.parsing
               /\ y.user = x.user
               /\ y.heard.body = x.heard.body /\ y.heard.requests = x.heard.requests
PROOF
<1> DEFINE events == Append(x.heard.events, "close")
           y      == Ended(x)
<1>1. y = [x EXCEPT !.conn.at = "closed", !.conn.doomed = TRUE, !.heard.events = events,
                    !.http.rcvd = 0]
    BY DEF Ended
<1> SUFFICES /\ Shape(y)
             /\ y.conn.at = "closed" /\ y.conn.doomed = TRUE
             /\ y.http.io = x.http.io /\ y.http.rcvd = 0 /\ y.http.parsing = x.http.parsing
             /\ y.user = x.user
             /\ y.heard.body = x.heard.body /\ y.heard.requests = x.heard.requests
    OBVIOUS
<1> HIDE DEF events, y
<1>2. /\ y.conn = [x.conn EXCEPT !.at = "closed", !.doomed = TRUE]
      /\ y.http = [x.http EXCEPT !.rcvd = 0]
      /\ y.user = x.user
      /\ y.heard = [x.heard EXCEPT !.events = events]
      /\ y = [conn |-> y.conn, http |-> y.http, user |-> y.user, heard |-> y.heard]
    BY <1>1 DEF Shape
<1>3. y.conn \in ConnRecords /\ y.conn.at = "closed" /\ y.conn.doomed = TRUE
    BY <1>2 DEF Shape, ConnRecords
<1>4. /\ y.http = [io |-> y.http.io, rcvd |-> y.http.rcvd, parsing |-> y.http.parsing]
      /\ y.http.io = x.http.io /\ y.http.rcvd = 0 /\ y.http.parsing = x.http.parsing
    BY <1>2 DEF Shape
<1>5. y.heard = [events |-> y.heard.events, body |-> y.heard.body,
                 requests |-> y.heard.requests]
    BY <1>2 DEF Shape
<1>6. y.heard.body = x.heard.body /\ y.heard.requests = x.heard.requests
    BY <1>2 DEF Shape
<1>7. QED
    BY <1>2, <1>3, <1>4, <1>5, <1>6 DEF Shape

\* mg_close_conn() tells of the close.
LEMMA CloseHeard ==
    ASSUME NEW x, Shape(x)
    PROVE  Ended(x).heard.events = Then(x.heard.events, "close")
PROOF
<1> DEFINE events == Then(x.heard.events, "close")
           y      == Ended(x)
<1>1. y = [x EXCEPT !.conn.at = "closed", !.conn.doomed = TRUE, !.heard.events = events,
                    !.http.rcvd = 0]
    BY DEF Ended, Then
<1> SUFFICES y.heard.events = events
    OBVIOUS
<1> HIDE DEF events, y
<1>2. y.heard = [x.heard EXCEPT !.events = events]
    BY <1>1 DEF Shape
<1>3. QED
    BY <1>2 DEF Shape

\* A close is the reply told, if one is under way, and then the end.
LEMMA CloseIs ==
    ASSUME NEW quits, CloseConn(quits)
    PROVE  Become(Ended(Told(Current, quits)))
PROOF
    BY DEF CloseConn, Ended

\* What is become of is what the next step starts from.
LEMMA BecomeIs ==
    ASSUME NEW y, Shape(y), Become(y)
    PROVE  Shape(Current)' /\ Current' = y
PROOF
<1>1. /\ Current' = [conn |-> y.conn, http |-> y.http, user |-> y.user, heard |-> y.heard]
    BY DEF Current, Become
<1>2. QED
    BY <1>1 DEF Shape

\* Telling the reply leaves the records of the connection what they are.
LEMMA ToldShape ==
    ASSUME NEW x, Shape(x), NEW quits \in BOOLEAN
    PROVE  Shape(Told(x, quits)) /\ Told(x, quits).conn.at = x.conn.at
PROOF
<1> DEFINE m == Parsed(x.http.io)
           c == DeliverChunk(x, quits)
           n == Len(x.http.io) - HeadLen
<1>1. Shape(c) /\ c.conn.at = x.conn.at
    BY HandlerShape
<1> HIDE DEF c, m, n
<1>2. Shape(DeliverMessage(c, m, n)) /\ DeliverMessage(c, m, n).conn.at = c.conn.at
    BY <1>1, HandlerShape
<1>3. Told(x, quits) = IF m > 0 THEN DeliverMessage(c, m, n) ELSE x
    BY DEF Told, c, m, n
<1>4. QED
    BY <1>1, <1>2, <1>3

\* A head is in front, as much of it as is there.
HasHead(io, m) == \A k \in 1..Len(io) : k <= HeadLen => io[k] = Byte(m, k)

\* mg_parse_http() finds the message whose head the buffer has whole.
LEMMA ParsedIs ==
    ASSUME NEW io \in Seq(Bytes), NEW m \in Nat \ {0}, HasHead(io, m)
    PROVE  /\ Len(io) < HeadLen => Parsed(io) = 0
           /\ Len(io) >= HeadLen => Parsed(io) = m
PROOF
<1>1. HeadLen \in Nat \ {0} /\ Len(io) \in Nat
    BY ConnAssumption
<1>2. CASE Len(io) < HeadLen
  <2>1. ~(Len(io) >= HeadLen)
    BY <1>1, <1>2
  <2>2. Parsed(io) = 0
    BY <1>2, <2>1 DEF Parsed
  <2>3. QED
    BY <2>1, <2>2
<1>3. CASE ~(Len(io) < HeadLen)
  <2>1. Len(io) >= HeadLen /\ 1 \in 1..Len(io) /\ 1 <= HeadLen
    BY <1>1, <1>3
  <2>2. io[1] = Byte(m, 1)
    BY <2>1 DEF HasHead
  <2>3. io[1].msg = m
    BY <2>2 DEF Byte
  <2>4. \A k \in 1..HeadLen : io[k] = [msg |-> io[1].msg, at |-> k]
    <3>1. ASSUME NEW k \in 1..HeadLen PROVE io[k] = [msg |-> io[1].msg, at |-> k]
      <4>1. k \in 1..Len(io) /\ k <= HeadLen
        BY <1>1, <2>1
      <4>2. io[k] = Byte(m, k)
        BY <4>1 DEF HasHead
      <4>3. QED
        BY <2>3, <4>2 DEF Byte
    <3>2. QED
        BY <3>1
  <2>5. Parsed(io) = io[1].msg
    BY <1>3, <2>1, <2>4 DEF Parsed
  <2>6. QED
    BY <1>3, <2>3, <2>5
<1>4. QED
    BY <1>2, <1>3

-----------------------------------------------------------------------------
\* A pipe's connection.

\* The events, one after another.
LEMMA OneAfterAnother ==
    ASSUME NEW S, NEW a \in S, NEW b \in S
    PROVE  Append(<<a>>, b) = <<a, b>> /\ <<a>> \o <<b>> = <<a, b>>
PROOF
<1> DEFINE s == Append(<<a>>, b)
           r == <<a>> \o <<b>>
           t == <<a, b>>
<1>1. <<a>> \in Seq(S) /\ Len(<<a>>) = 1 /\ <<a>>[1] = a
    OBVIOUS
<1>2. s \in Seq(S) /\ Len(s) = 2 /\ s[1] = a /\ s[2] = b
    BY <1>1
<1>3. r \in Seq(S) /\ Len(r) = 2 /\ r[1] = a /\ r[2] = b
    BY <1>1
<1>4. t \in Seq(S) /\ Len(t) = 2 /\ t[1] = a /\ t[2] = b
    OBVIOUS
<1> HIDE DEF r, s, t
<1>5. s = t /\ r = t
    BY <1>2, <1>3, <1>4, SeqEqual
<1>6. QED
    BY <1>5 DEF r, s, t

\* What an append to a pair is.
LEMMA TwoAndOne ==
    ASSUME NEW S, NEW a \in S, NEW b \in S, NEW c \in S
    PROVE  Append(<<a, b>>, c) = <<a, b, c>>
PROOF
<1> DEFINE s == Append(<<a, b>>, c)
           t == <<a, b, c>>
<1>1. <<a, b>> \in Seq(S) /\ Len(<<a, b>>) = 2 /\ <<a, b>>[1] = a /\ <<a, b>>[2] = b
    OBVIOUS
<1>2. s \in Seq(S) /\ Len(s) = 3 /\ s[1] = a /\ s[2] = b /\ s[3] = c
    BY <1>1
<1>3. t \in Seq(S) /\ Len(t) = 3 /\ t[1] = a /\ t[2] = b /\ t[3] = c
    OBVIOUS
<1> HIDE DEF s, t
<1>4. s = t
    BY <1>2, <1>3, SeqEqual
<1>5. QED
    BY <1>4 DEF s, t

\* What an append to nothing is.
LEMMA FirstOfAll ==
    ASSUME NEW a
    PROVE  Append(<<>>, a) = <<a>> /\ <<>> \o <<a>> = <<a>> /\ <<>> \o <<>> \o <<a>> = <<a>>
PROOF
    OBVIOUS

\* The sequences of events a pipe can hear, and their next ones.
LEMMA Appended ==
    /\ Append(<<>>, "connected") = <<"connected">>
    /\ Append(<<>>, "failed") = <<"failed">>
    /\ Append(<<>>, "close") = <<"close">>
    /\ Append(<<"failed">>, "close") = <<"failed", "close">>
    /\ Append(<<"connected">>, "end") = <<"connected", "end">>
    /\ Append(<<"connected">>, "close") = <<"connected", "close">>
    /\ Append(<<"connected", "end">>, "close") = <<"connected", "end", "close">>
    /\ <<>> \o <<"failed">> \o <<"close">> = <<"failed", "close">>
    /\ <<>> \o <<>> \o <<"close">> = <<"close">>
PROOF
<1> DEFINE S == {"connected", "failed", "end", "close"}
<1>0. "connected" \in S /\ "failed" \in S /\ "end" \in S /\ "close" \in S
    OBVIOUS
<1> HIDE DEF S
<1>1. /\ Append(<<"failed">>, "close") = <<"failed", "close">>
      /\ Append(<<"connected">>, "end") = <<"connected", "end">>
      /\ Append(<<"connected">>, "close") = <<"connected", "close">>
    BY <1>0, OneAfterAnother
<1>2. <<"failed">> \o <<"close">> = <<"failed", "close">>
    BY <1>0, OneAfterAnother
<1>3. Append(<<"connected", "end">>, "close") = <<"connected", "end", "close">>
    BY <1>0, TwoAndOne
<1>4. <<>> \o <<"failed">> = <<"failed">> /\ <<>> \o <<>> \o <<"close">> = <<"close">>
    BY FirstOfAll
<1>5. /\ Append(<<>>, "connected") = <<"connected">>
      /\ Append(<<>>, "failed") = <<"failed">> /\ Append(<<>>, "close") = <<"close">>
    BY FirstOfAll
<1>6. QED
    BY <1>1, <1>2, <1>3, <1>4, <1>5

\* What has come is in front or with the pipe: the head stays.
Carried(x) ==
    /\ x.http.rcvd = arrived
    /\ Len(x.http.io) = arrived - Len(x.heard.body)
    /\ x.heard.body # <<>> => HeadLen + Len(x.heard.body) <= arrived
    /\ \A k \in 1..Len(x.http.io) :
          x.http.io[k] = Byte(1, IF k <= HeadLen THEN k ELSE k + Len(x.heard.body))
    /\ \A k \in 1..Len(x.heard.body) : x.heard.body[k] = Byte(1, HeadLen + k)

Before(x) ==
    /\ arrived = 0 /\ x.http.io = <<>> /\ x.http.rcvd = 0 /\ x.http.parsing = FALSE
    /\ x.heard.events = <<>> /\ x.heard.body = <<>> /\ x.user # "told"

During(x) ==
    \/ /\ x.user = "listens" /\ x.heard.events = <<"connected">> /\ Carried(x)
       /\ x.http.parsing = FALSE => Len(x.http.io) <= HeadLen
    \/ /\ x.user = "quit"
       /\ \/ x.heard.events = <<"connected">>
          \/ x.heard.events = <<"failed">> /\ x.heard.body = <<>>
    \/ x.user = "told" /\ x.heard.events = <<"connected", "end">>

After(x) ==
    /\ x.http.parsing = FALSE
    /\ \/ x.user = "told" /\ x.heard.events = <<"connected", "end", "close">>
       \/ /\ x.user = "listens" /\ arrived < HeadLen
          /\ \/ x.heard.events = <<"connected", "close">>
             \/ x.heard.events = <<"close">> /\ x.heard.body = <<>>
       \/ /\ x.user = "quit"
          /\ \/ x.heard.events = <<"connected", "close">>
             \/ x.heard.events \in { <<"close">>, <<"failed", "close">> } /\ x.heard.body = <<>>

\* What does not depend on where the connection is.
PipeTypes(x) ==
    /\ Shape(x)
    /\ x.http.io \in Seq(Bytes) /\ x.heard.body \in Seq(Bytes) /\ x.http.parsing \in BOOLEAN
    /\ x.http.rcvd \in 0..arrived /\ Len(x.http.io) <= arrived
    /\ HasHead(x.http.io, 1)
    /\ x.user \in {"listens", "quit", "told"} /\ (x.user # "listens" => x.conn.doomed)

OfClient(x) ==
    /\ PipeTypes(x)
    /\ x.conn.at \in {"resolving", "connecting"} => Before(x)
    /\ x.conn.at = "open" => During(x)
    /\ x.conn.at = "closed" => After(x)

\* The peer of a pipe sends one message.
Replied ==
    /\ side = "client" /\ bodies \in Peers /\ Len(bodies) = 1 /\ arrived \in 0..Len(Wire)

\* For a pipe the wire is one message.
LEMMA ReplyWire ==
    ASSUME Replied
    PROVE  /\ Wire \in Seq(Bytes) /\ Len(Wire) \in Nat /\ arrived \in Nat /\ arrived <= Len(Wire)
           /\ HeadLen \in Nat \ {0} /\ Len(Wire) = MessageLen(1) /\ HeadLen <= Len(Wire)
           /\ \A k \in 1..Len(Wire) : Wire[k] = Byte(1, k)
PROOF
<1> DEFINE n == Len(Wire)
<1>1. /\ Wire \in Seq(Bytes) /\ n \in Nat /\ Start(1) = 0 /\ Start(2) = n
      /\ Start(1 + 1) = Start(1) + MessageLen(1) /\ MessageLen(1) \in Nat
      /\ MessageLen(1) >= HeadLen
      /\ \A k \in 1..MessageLen(1) : Wire[Start(1) + k] = Byte(1, k)
  <2>1. bodies \in Peers /\ Len(bodies) = 1 /\ 1 \in 1..Len(bodies) /\ Len(bodies) + 1 = 2
    BY DEF Replied
  <2>2. QED
    BY <2>1, StartIs
<1>2. n = MessageLen(1)
    BY <1>1
<1>3. \A k \in 1..n : Wire[k] = Byte(1, k)
  <2> HIDE DEF n
  <2>1. QED
    BY <1>1, <1>2
<1>4. arrived \in 0..n
    BY DEF Replied
<1> HIDE DEF n
<1>5. arrived \in Nat /\ arrived <= n /\ HeadLen <= n /\ HeadLen \in Nat \ {0}
    BY <1>1, <1>2, <1>4, ConnAssumption
<1>6. QED
    BY <1>1, <1>2, <1>3, <1>5 DEF n

\* A pipe that listens takes the body away, and has all that follows the head.
LEMMA ChunkCarried ==
    ASSUME Replied, NEW x, PipeTypes(x), Carried(x), x.user = "listens",
           Len(x.http.io) >= HeadLen, NEW quits \in BOOLEAN
    PROVE  LET y == DeliverChunk(x, quits)
           IN  /\ PipeTypes(y) /\ Carried(y)
               /\ y.conn.at = x.conn.at /\ y.http.parsing = x.http.parsing
               /\ y.http.rcvd = x.http.rcvd
               /\ y.heard.events = x.heard.events
               /\ Len(y.heard.body) = arrived - HeadLen /\ Len(y.http.io) = HeadLen
               /\ y.user = IF quits THEN "quit" ELSE "listens"
PROOF
<1> DEFINE y  == DeliverChunk(x, quits)
           io == SubSeq(x.http.io, 1, HeadLen)
           bd == x.heard.body \o SubSeq(x.http.io, HeadLen + 1, Len(x.http.io))
<1>1. /\ Takes(x) /\ Shape(x)
    BY DEF Takes, Replied, PipeTypes
<1>2. /\ Shape(y) /\ y.conn.at = x.conn.at /\ (x.conn.doomed \/ quits => y.conn.doomed)
      /\ y.http = [x.http EXCEPT !.io = io]
      /\ y.user = IF quits THEN "quit" ELSE x.user
      /\ y.heard = [x.heard EXCEPT !.body = bd]
  <2>1. /\ Shape(y) /\ y.conn.at = x.conn.at
        /\ y.http = [x.http EXCEPT !.io = io]
        /\ y.heard = [x.heard EXCEPT !.body = bd]
    BY <1>1, ChunkTaken
  <2>2. (quits => y.user = "quit") /\ (~quits => y.user = x.user)
    BY <1>1, ChunkTaken
  <2>3. x.conn.doomed \/ quits => y.conn.doomed
    BY <1>1, ChunkTaken
  <2> HIDE DEF y, io, bd
  <2>4. QED
    BY <2>1, <2>2, <2>3
<1> SUFFICES /\ PipeTypes(y) /\ Carried(y)
             /\ y.conn.at = x.conn.at /\ y.http.parsing = x.http.parsing
             /\ y.http.rcvd = x.http.rcvd
             /\ y.heard.events = x.heard.events
             /\ Len(y.heard.body) = arrived - HeadLen /\ Len(y.http.io) = HeadLen
             /\ y.user = IF quits THEN "quit" ELSE "listens"
    OBVIOUS
<1> HIDE DEF y
<1>3. /\ y.http.io = io /\ y.http.rcvd = x.http.rcvd /\ y.http.parsing = x.http.parsing
      /\ y.heard.body = bd /\ y.heard.events = x.heard.events
  <2> HIDE DEF io, bd
  <2>1. QED
    BY <1>1, <1>2 DEF Shape
<1> DEFINE h == HeadLen
           l == Len(x.http.io)
           g == Len(x.heard.body)
           e == SubSeq(x.http.io, HeadLen + 1, Len(x.http.io))
<1>4. /\ h \in Nat \ {0} /\ l \in Nat /\ g \in Nat /\ l >= h /\ l = arrived - g
      /\ arrived \in Nat /\ l <= arrived
      /\ x.http.io \in Seq(Bytes) /\ x.heard.body \in Seq(Bytes)
    BY ReplyWire DEF PipeTypes, Carried
<1>5. /\ io \in Seq(Bytes) /\ Len(io) = h /\ \A k \in 1..h : io[k] = x.http.io[k]
  <2> DEFINE s == x.http.io
  <2> HIDE DEF s
  <2>1. s \in Seq(Bytes) /\ h \in Nat \ {0} /\ h <= Len(s)
    BY <1>4 DEF s
  <2>2. /\ SubSeq(s, 1, h) \in Seq(Bytes) /\ Len(SubSeq(s, 1, h)) = h
        /\ \A k \in 1..h : SubSeq(s, 1, h)[k] = s[k]
    BY <2>1
  <2>3. QED
    BY <2>2 DEF s
<1>6. /\ e \in Seq(Bytes) /\ Len(e) = l - h /\ \A k \in 1..l - h : e[k] = x.http.io[h + k]
  <2> DEFINE s == x.http.io
  <2> HIDE DEF s
  <2>1. s \in Seq(Bytes) /\ h \in Nat \ {0} /\ h <= Len(s) /\ Len(s) \in Nat
    BY <1>4 DEF s
  <2>2. /\ SubSeq(s, h + 1, Len(s)) \in Seq(Bytes) /\ Len(SubSeq(s, h + 1, Len(s))) = Len(s) - h
        /\ \A k \in 1..Len(s) - h : SubSeq(s, h + 1, Len(s))[k] = s[h + k]
    BY <2>1
  <2>3. QED
    BY <2>2 DEF s
<1>7. /\ bd \in Seq(Bytes) /\ Len(bd) = arrived - h
      /\ \A k \in 1..arrived - h : bd[k] = IF k <= g THEN x.heard.body[k] ELSE e[k - g]
  <2> DEFINE b == x.heard.body
  <2> HIDE DEF b, e
  <2>0. b \in Seq(Bytes) /\ e \in Seq(Bytes)
    BY <1>4, <1>6 DEF b
  <2>1. /\ b \o e \in Seq(Bytes) /\ Len(b \o e) = Len(b) + Len(e)
        /\ \A k \in 1..Len(b) + Len(e) :
              (b \o e)[k] = IF k <= Len(b) THEN b[k] ELSE e[k - Len(b)]
    BY <2>0, ConcatProperties
  <2>2. Len(b) + Len(e) = arrived - h
    BY <1>4, <1>6 DEF b
  <2>3. QED
    BY <2>1, <2>2 DEF b, e
<1>8. \A k \in 1..h : io[k] = Byte(1, k)
  <2>1. ASSUME NEW k \in 1..h PROVE io[k] = Byte(1, k)
    <3>1. k \in 1..l /\ k <= h
        BY <1>4
    <3>2. QED
        BY <1>5, <3>1 DEF Carried
  <2>2. QED
    BY <2>1
<1>9. \A k \in 1..arrived - h : bd[k] = Byte(1, h + k)
  <2>1. ASSUME NEW k \in 1..arrived - h PROVE bd[k] = Byte(1, h + k)
    <3>1. CASE k <= g
      <4>1. k \in 1..g
        BY <1>4, <3>1
      <4>2. QED
        BY <1>7, <3>1, <4>1 DEF Carried
    <3>2. CASE ~(k <= g)
      <4> DEFINE j == k - g
      <4>1. j \in 1..l - h /\ h + j \in 1..l /\ ~(h + j <= h) /\ (h + j) + g = h + k
        BY <1>4, <3>2
      <4> HIDE DEF j
      <4>2. e[j] = x.http.io[h + j]
        BY <1>6, <4>1
      <4>3. x.http.io[h + j] = Byte(1, (h + j) + g)
        BY <4>1 DEF Carried
      <4>4. bd[k] = e[j]
        BY <1>7, <3>2 DEF j
      <4>5. QED
        BY <4>1, <4>2, <4>3, <4>4
    <3>3. QED
        BY <3>1, <3>2
  <2>2. QED
    BY <2>1
<1> HIDE DEF io, bd, e
<1>10. HasHead(io, 1)
    BY <1>5, <1>8 DEF HasHead
<1>11. x.http.rcvd \in 0..arrived /\ x.http.rcvd = arrived /\ x.http.parsing \in BOOLEAN
    BY DEF PipeTypes, Carried
<1>12. Len(io) <= arrived /\ h + Len(bd) <= arrived /\ Len(io) = arrived - Len(bd)
    BY <1>4, <1>5, <1>7
<1>13. PipeTypes(y)
    BY <1>2, <1>3, <1>5, <1>7, <1>10, <1>11, <1>12 DEF PipeTypes
<1>14. Carried(y)
  <2>1. \A k \in 1..Len(io) : io[k] = Byte(1, IF k <= HeadLen THEN k ELSE k + Len(bd))
    BY <1>4, <1>5, <1>8
  <2>2. \A k \in 1..Len(bd) : bd[k] = Byte(1, HeadLen + k)
    BY <1>7, <1>9
  <2>3. QED
    BY <1>3, <1>11, <1>12, <2>1, <2>2 DEF Carried
<1>15. QED
    BY <1>2, <1>3, <1>5, <1>7, <1>13, <1>14

\* The end of a reply that was not told of yet.
LEMMA ReplyEnds ==
    ASSUME NEW x, PipeTypes(x), x.user = "listens", side = "client", NEW m, NEW size
    PROVE  LET y == DeliverMessage(x, m, size)
           IN  /\ PipeTypes(y)
               /\ y.conn.at = x.conn.at /\ y.http = x.http /\ y.user = "told"
               /\ y.heard.events = Append(x.heard.events, "end")
               /\ y.heard.body = x.heard.body
PROOF
<1> DEFINE y == DeliverMessage(x, m, size)
<1>1. Takes(x) /\ Shape(x)
    BY DEF Takes, PipeTypes
<1>2. /\ Shape(y) /\ y.conn.at = x.conn.at /\ y.conn.doomed = TRUE
      /\ y.http = x.http /\ y.user = "told"
      /\ y.heard.events = Append(x.heard.events, "end")
      /\ y.heard.body = x.heard.body
  <2>1. Shape(y) /\ y.conn.at = x.conn.at /\ y.http = x.http
    BY ZenonT(60), <1>1, ReplyTold
  <2>2. y.conn.doomed = TRUE
    BY ZenonT(60), <1>1, ReplyTold
  <2>3. y.user = "told"
    BY ZenonT(60), <1>1, ReplyTold
  <2>4. y.heard.body = x.heard.body
    BY ZenonT(60), <1>1, ReplyTold
  <2>5. y.heard.events = Then(x.heard.events, "end")
    BY <1>1, EndHeard
  <2>6. QED
    BY <2>1, <2>2, <2>3, <2>4, <2>5 DEF Then
<1> HIDE DEF y
<1>3. PipeTypes(y)
    BY <1>2 DEF PipeTypes
<1>4. QED
    BY <1>2, <1>3 DEF y

\* What is removed is all there is, or nothing.
LEMMA ReplyGone ==
    ASSUME Replied, NEW x, PipeTypes(x), Reaches(1, x.http.rcvd)
    PROVE  LET y == MessageDone(x, 1)
           IN  PipeTypes(y) /\ y.conn = x.conn /\ y.user = x.user /\ y.heard = x.heard
PROOF
<1> DEFINE y  == MessageDone(x, 1)
           io == Removed(x.http.io, MessageLen(1))
           n  == x.http.rcvd - MessageLen(1)
<1>1. /\ Shape(y) /\ y.conn = x.conn /\ y.user = x.user /\ y.heard = x.heard
      /\ y.http = [io |-> io, rcvd |-> n, parsing |-> io # <<>>]
    BY MessageGone DEF PipeTypes
<1>2. io = x.http.io \/ io = <<>>
  <2> DEFINE s == x.http.io
             k == MessageLen(1)
  <2>1. s \in Seq(Bytes) /\ Len(s) <= arrived /\ arrived <= k /\ k \in Nat /\ arrived \in Nat
    BY ReplyWire DEF PipeTypes
  <2> HIDE DEF s, k
  <2>2. Len(s) \in Nat
    BY <2>1
  <2>3. CASE k <= Len(s)
    <3>1. k = Len(s)
        BY <2>1, <2>2, <2>3
    <3>2. SubSeq(s, k + 1, Len(s)) = <<>>
        BY <2>1, <2>2, <3>1
    <3>3. QED
        BY <2>3, <3>2 DEF Removed, s, k
  <2>4. CASE ~(k <= Len(s))
    BY <2>4 DEF Removed, s, k
  <2>5. QED
    BY <2>3, <2>4
<1>3. n \in 0..arrived
  <2>1. /\ MessageLen(1) <= x.http.rcvd /\ x.http.rcvd \in 0..arrived
        /\ MessageLen(1) \in Nat /\ arrived \in Nat
    BY ReplyWire DEF PipeTypes, Reaches
  <2>2. QED
    BY <2>1
<1>4. io \in Seq(Bytes) /\ Len(io) <= arrived /\ HasHead(io, 1)
  <2>1. CASE io = x.http.io
    BY <2>1 DEF PipeTypes
  <2>2. CASE io = <<>>
    <3>1. <<>> \in Seq(Bytes) /\ Len(<<>>) = 0 /\ HasHead(<<>>, 1)
        BY DEF HasHead
    <3>2. arrived \in Nat
        BY ReplyWire
    <3> HIDE DEF io
    <3>3. io \in Seq(Bytes) /\ HasHead(io, 1)
        BY <2>2, <3>1
    <3>4. Len(io) = 0
        BY <2>2
    <3>5. QED
        BY <3>2, <3>3, <3>4
  <2>3. QED
    BY <1>2, <2>1, <2>2
<1>5. (io # <<>>) \in BOOLEAN
    OBVIOUS
<1> SUFFICES PipeTypes(y) /\ y.conn = x.conn /\ y.user = x.user /\ y.heard = x.heard
    OBVIOUS
<1> HIDE DEF io, n, y
<1>6. QED
    BY <1>1, <1>3, <1>4, <1>5 DEF PipeTypes

-----------------------------------------------------------------------------
\* What a round of the loop is to a pipe.

\* Some of the body is told of, and the end with the last of it.
Arriving(x, y) ==
    /\ x.user = "listens" /\ x.heard.events = <<"connected">> /\ x.conn.at = "open"
    /\ y.conn.at = "open"
    /\ Len(x.heard.body) <= arrived - HeadLen /\ Len(y.heard.body) = arrived - HeadLen
    /\ \/ y.user = "quit" /\ y.heard.events = <<"connected">>
       \/ /\ y.user = "listens" /\ y.heard.events = <<"connected">>
          /\ ~Reaches(1, arrived)
       \/ /\ y.user = "told" /\ y.heard.events = <<"connected", "end">>
          /\ Reaches(1, arrived)

Untold(x, y) ==
    y.user = x.user /\ y.heard = x.heard /\ y.conn.at = x.conn.at

\* A round of the loop hands a pipe what has come, or the reply with it.
LEMMA RoundOfPipe ==
    ASSUME Replied, OfClient(Current), NEW quits \in BOOLEAN, Again(quits)
    PROVE  \E y : /\ Become(y) /\ PipeTypes(y) /\ y.conn.at = "open" /\ During(y)
                  /\ Untold(Current, y) \/ Arriving(Current, y)
PROOF
<1> DEFINE x == Current
           m == Parsed(http.io)
           n == Len(http.io) - HeadLen
<1>1. x.conn = conn /\ x.http = http /\ x.user = user /\ x.heard = heard
    BY DEF Current
<1>2. http.parsing = TRUE /\ conn.at = "open" /\ PipeTypes(x) /\ During(x) /\ Shape(x)
  <2>1. http.parsing /\ PipeTypes(x) /\ Shape(x) /\ conn \in ConnRecords
    BY <1>1 DEF Again, OfClient, PipeTypes, Shape
  <2>2. http.parsing = TRUE
    BY <1>1, <2>1 DEF PipeTypes
  <2>3. conn.at \in {"resolving", "connecting", "open", "closed"}
    BY <2>1 DEF ConnRecords
  <2>4. conn.at = "open"
    BY <1>1, <2>2, <2>3 DEF OfClient, Before, After
  <2>5. QED
    BY <1>1, <2>1, <2>2, <2>4 DEF OfClient
<1> DEFINE l == Len(http.io)
<1>3. l \in Nat /\ HeadLen \in Nat \ {0} /\ arrived \in Nat /\ http.io \in Seq(Bytes)
    BY <1>1, <1>2, ReplyWire DEF PipeTypes
<1>4. (l < HeadLen => m = 0) /\ (l >= HeadLen => m = 1)
    BY <1>1, <1>2, ParsedIs DEF PipeTypes
<1>5. /\ Shape(Rest) /\ Rest.conn = conn /\ Rest.user = user /\ Rest.heard = heard
      /\ Rest.http = [http EXCEPT !.parsing = FALSE]
    BY <1>2, RestIs
<1>6. /\ Rest.http.io = http.io /\ Rest.http.rcvd = http.rcvd /\ Rest.http.parsing = FALSE
    BY <1>1, <1>2, <1>5 DEF Shape
<1>7. PipeTypes(Rest)
    BY <1>1, <1>2, <1>5, <1>6 DEF PipeTypes
<1>8. Untold(x, Rest)
    BY <1>1, <1>5 DEF Untold
<1>9. CASE l < HeadLen
  <2>1. Become(Rest)
    BY <1>4, <1>9, RoundIs
  <2>2. During(Rest)
    BY <1>1, <1>2, <1>3, <1>5, <1>6, <1>9 DEF During, Carried
  <2>3. QED
    BY <1>2, <1>5, <1>7, <1>8, <2>1, <2>2
<1>10. CASE l >= HeadLen /\ ~Reaches(1, http.rcvd)
  <2> DEFINE y == DeliverChunk(Rest, quits)
  <2>1. Become(y)
    BY <1>4, <1>10, RoundIs
  <2>2. CASE user # "listens"
    <3>1. y = Rest
        BY <1>5, <2>2 DEF DeliverChunk, Takes
    <3>2. During(Rest)
        BY <1>1, <1>2, <1>5, <2>2 DEF During
    <3>3. QED
        BY <1>2, <1>5, <1>7, <1>8, <2>1, <3>1, <3>2
  <2>3. CASE user = "listens"
    <3>1. Carried(x) /\ heard.events = <<"connected">>
        BY <1>1, <1>2, <2>3 DEF During
    <3>2. Carried(Rest)
        BY <1>1, <1>5, <1>6, <3>1 DEF Carried
    <3>3. /\ PipeTypes(y) /\ Carried(y)
          /\ y.conn.at = Rest.conn.at /\ y.http.parsing = Rest.http.parsing
          /\ y.heard.events = Rest.heard.events
          /\ Len(y.heard.body) = arrived - HeadLen /\ Len(y.http.io) = HeadLen
          /\ y.user = IF quits THEN "quit" ELSE "listens"
        BY <1>5, <1>6, <1>7, <1>10, <2>3, <3>2, ChunkCarried
    <3> HIDE DEF y
    <3>4. During(y)
        BY <1>3, <1>5, <1>6, <3>1, <3>3 DEF During
    <3>5. http.rcvd = arrived /\ Len(heard.body) <= arrived - HeadLen
      <4>1. /\ http.rcvd = arrived /\ l = arrived - Len(heard.body)
            /\ Len(heard.body) \in Nat
        BY <1>1, <1>2, <3>1 DEF Carried, PipeTypes
      <4>2. QED
        BY <1>3, <1>10, <4>1
    <3>6. Arriving(x, y)
        BY <1>1, <1>2, <1>5, <1>10, <2>3, <3>1, <3>3, <3>5 DEF Arriving
    <3>7. QED
        BY <1>2, <1>5, <2>1, <3>3, <3>4, <3>6
  <2>4. QED
    BY <2>2, <2>3
<1>11. CASE l >= HeadLen /\ Reaches(1, http.rcvd)
  <2> DEFINE c == DeliverChunk(x, quits)
             d == DeliverMessage(c, m, n)
             y == MessageDone(d, m)
  <2>0. m = 1 /\ side = "client"
    BY <1>4, <1>11 DEF Replied
  <2>1. Become(y)
    BY <1>11, <2>0, RoundIs
  <2>2. CASE user # "listens"
    <3>1. c = x /\ d = x
        BY <1>1, <2>0, <2>2 DEF DeliverChunk, DeliverMessage, Takes
    <3>2. PipeTypes(y) /\ y.conn = x.conn /\ y.user = x.user /\ y.heard = x.heard
        BY <1>1, <1>2, <1>11, <2>0, <3>1, ReplyGone
    <3> HIDE DEF y
    <3>3. During(y)
        BY <1>1, <1>2, <2>2, <3>2 DEF During
    <3>4. QED
        BY <1>1, <1>2, <2>1, <3>2, <3>3 DEF Untold
  <2>3. CASE user = "listens"
    <3>1. Carried(x) /\ heard.events = <<"connected">>
        BY <1>1, <1>2, <2>3 DEF During
    <3>2. http.rcvd = arrived /\ Len(heard.body) <= arrived - HeadLen
      <4>1. /\ http.rcvd = arrived /\ l = arrived - Len(heard.body)
            /\ Len(heard.body) \in Nat
        BY <1>1, <1>2, <3>1 DEF Carried, PipeTypes
      <4>2. QED
        BY <1>3, <1>11, <4>1
    <3>3. /\ PipeTypes(c) /\ c.conn.at = x.conn.at
          /\ c.http.rcvd = x.http.rcvd
          /\ c.heard.events = x.heard.events
          /\ Len(c.heard.body) = arrived - HeadLen
          /\ c.user = IF quits THEN "quit" ELSE "listens"
        BY <1>1, <1>2, <1>11, <2>3, <3>1, ChunkCarried
    <3> HIDE DEF c
    <3>4. /\ PipeTypes(d) /\ d.conn.at = x.conn.at /\ d.http.rcvd = arrived
          /\ Len(d.heard.body) = arrived - HeadLen
          /\ \/ d.user = "quit" /\ d.heard.events = <<"connected">>
             \/ d.user = "told" /\ d.heard.events = <<"connected", "end">>
      <4>1. CASE quits
        <5>1. d = c
            BY <2>0, <3>3, <4>1 DEF DeliverMessage, Takes
        <5>2. QED
            BY <1>1, <3>1, <3>2, <3>3, <4>1, <5>1
      <4>2. CASE ~quits
        <5>1. /\ PipeTypes(d) /\ d.conn.at = c.conn.at /\ d.http = c.http /\ d.user = "told"
              /\ d.heard.events = Append(c.heard.events, "end")
              /\ d.heard.body = c.heard.body
            BY <2>0, <3>3, <4>2, ReplyEnds
        <5> HIDE DEF d
        <5>2. QED
            BY <1>1, <3>1, <3>2, <3>3, <5>1, Appended
      <4>3. QED
        BY <4>1, <4>2
    <3> HIDE DEF d
    <3>5. PipeTypes(y) /\ y.conn = d.conn /\ y.user = d.user /\ y.heard = d.heard
        BY <1>11, <2>0, <3>2, <3>4, ReplyGone
    <3> HIDE DEF y
    <3>6. During(y)
        BY <3>4, <3>5 DEF During
    <3>7. Arriving(x, y)
        BY <1>1, <1>2, <1>11, <2>3, <3>1, <3>2, <3>4, <3>5 DEF Arriving
    <3>8. QED
        BY <1>1, <1>2, <2>1, <3>4, <3>5, <3>6, <3>7
  <2>4. QED
    BY <2>2, <2>3
<1>12. QED
    BY <1>3, <1>9, <1>10, <1>11

-----------------------------------------------------------------------------
\* What the close is to a pipe.

\* What the handler has heard when it is about to be told of the close.
Heard(x) ==
    \/ x.user = "told" /\ x.heard.events = <<"connected", "end">>
    \/ /\ x.user = "listens" /\ arrived < HeadLen
       /\ \/ x.heard.events = <<"connected">>
          \/ x.heard.events = <<>> /\ x.heard.body = <<>>
    \/ /\ x.user = "quit"
       /\ \/ x.heard.events = <<"connected">>
          \/ x.heard.events \in { <<>>, <<"failed">> } /\ x.heard.body = <<>>

\* No more of the body comes with the close; the end of a reply may.
Closing(x, y) ==
    /\ Len(y.heard.body) = Len(x.heard.body)
    /\ x.user = "told" => y.user = "told"
    /\ y.user = "told" /\ x.user # "told" =>
          x.user = "listens" /\ x.conn.at = "open" /\ x.heard.events = <<"connected">>

\* A close that cuts a reply tells it first, with what has come.
LEMMA ToldOfPipe ==
    ASSUME Replied, OfClient(Current), NEW quits \in BOOLEAN, CloseConn(quits)
    PROVE  LET t == Told(Current, quits)
           IN  PipeTypes(t) /\ t.http.parsing = FALSE /\ Heard(t) /\ Closing(Current, t)
PROOF
<1> DEFINE x == Current
           m == Parsed(http.io)
           n == Len(http.io) - HeadLen
           l == Len(http.io)
           c == DeliverChunk(x, quits)
           t == Told(x, quits)
<1>1. x.conn = conn /\ x.http = http /\ x.user = user /\ x.heard = heard
    BY DEF Current
<1>2. PipeTypes(x) /\ conn.at \in {"connecting", "open"} /\ http.parsing = FALSE
    BY <1>1 DEF OfClient, CloseConn, PipeTypes
<1>3. l \in Nat /\ HeadLen \in Nat \ {0} /\ arrived \in Nat /\ http.io \in Seq(Bytes)
      /\ side = "client"
    BY <1>1, <1>2, ReplyWire DEF PipeTypes, Replied
<1>4. (l < HeadLen => m = 0) /\ (l >= HeadLen => m = 1)
    BY <1>1, <1>2, ParsedIs DEF PipeTypes
<1>5. t = IF m > 0 THEN DeliverMessage(c, m, n) ELSE x
    BY <1>1 DEF Told
<1>6. Closing(x, x)
    BY DEF Closing
<1> SUFFICES PipeTypes(t) /\ t.http.parsing = FALSE /\ Heard(t) /\ Closing(x, t)
    OBVIOUS
<1>7. CASE conn.at = "connecting"
  <2>1. Before(x)
    BY <1>1, <1>7 DEF OfClient
  <2>2. l < HeadLen /\ arrived < HeadLen
    BY <1>1, <1>3, <2>1 DEF Before
  <2>3. t = x
    BY <1>4, <1>5, <2>2
  <2> HIDE DEF x, t
  <2>4. Heard(x)
    BY <1>2, <2>1, <2>2 DEF Before, Heard, PipeTypes
  <2>5. QED
    BY <1>1, <1>2, <1>6, <2>3, <2>4
<1>8. CASE conn.at = "open" /\ user # "listens"
  <2>1. During(x)
    BY <1>1, <1>8 DEF OfClient
  <2>2. t = x
    BY <1>1, <1>3, <1>5, <1>8 DEF DeliverChunk, DeliverMessage, Takes
  <2> HIDE DEF x, t
  <2>3. Heard(x)
    BY <1>1, <1>8, <2>1 DEF During, Heard
  <2>4. QED
    BY <1>1, <1>2, <1>6, <2>2, <2>3
<1>9. CASE conn.at = "open" /\ user = "listens"
  <2>1. Carried(x) /\ heard.events = <<"connected">> /\ l <= HeadLen
    BY <1>1, <1>2, <1>9 DEF OfClient, During
  <2> DEFINE g == Len(heard.body)
  <2>2. /\ l = arrived - g /\ g \in Nat /\ (g # 0 => HeadLen + g <= arrived)
    <3>1. heard.body \in Seq(Bytes)
        BY <1>1, <1>2 DEF PipeTypes
    <3>2. QED
        BY <1>1, <2>1, <3>1 DEF Carried
  <2>3. CASE l < HeadLen
    <3>1. t = x
        BY <1>4, <1>5, <2>3
    <3>2. arrived < HeadLen
      <4> HIDE DEF l, g
      <4>1. QED
        BY <1>3, <2>2, <2>3
    <3> HIDE DEF x, t
    <3>3. Heard(x)
        BY <1>1, <1>9, <2>1, <3>2 DEF Heard
    <3>4. QED
        BY <1>1, <1>2, <1>6, <3>1, <3>3
  <2>4. CASE l >= HeadLen
    <3>1. m = 1 /\ t = DeliverMessage(c, m, n)
        BY <1>4, <1>5, <2>4
    <3>2. /\ PipeTypes(c) /\ c.conn.at = x.conn.at /\ c.http.parsing = x.http.parsing
          /\ c.heard.events = x.heard.events
          /\ Len(c.heard.body) = arrived - HeadLen
          /\ c.user = IF quits THEN "quit" ELSE "listens"
        BY <1>1, <1>2, <1>9, <2>1, <2>4, ChunkCarried
    <3>3. arrived - HeadLen = g
      <4> HIDE DEF l, g
      <4>1. l = HeadLen
        BY <1>3, <2>1, <2>4
      <4>2. QED
        BY <1>3, <2>2, <4>1
    <3> HIDE DEF c
    <3>4. CASE quits
      <4>1. t = c /\ c.user = "quit"
        BY <1>3, <3>1, <3>2, <3>4 DEF DeliverMessage, Takes
      <4> HIDE DEF x, t
      <4>2. Heard(c)
        BY <1>1, <2>1, <3>2, <4>1 DEF Heard
      <4>3. Closing(x, c)
        BY <1>1, <1>9, <3>2, <3>3, <4>1 DEF Closing
      <4>4. QED
        BY <1>1, <1>2, <3>2, <4>1, <4>2, <4>3
    <3>5. CASE ~quits
      <4> DEFINE d == DeliverMessage(c, m, n)
      <4>0. PipeTypes(c) /\ c.user = "listens" /\ side = "client" /\ t = d
        BY <1>3, <3>1, <3>2, <3>5
      <4> HIDE DEF x, t, m, n
      <4>d. /\ PipeTypes(d) /\ d.http = c.http /\ d.user = "told"
            /\ d.heard.events = Append(c.heard.events, "end")
            /\ d.heard.body = c.heard.body
        BY <4>0, ReplyEnds
      <4> HIDE DEF d
      <4>1. /\ PipeTypes(t) /\ t.http = c.http /\ t.user = "told"
            /\ t.heard.events = Append(c.heard.events, "end")
            /\ t.heard.body = c.heard.body
        BY <4>0, <4>d
      <4>2. Heard(t)
        BY <1>1, <2>1, <3>2, <4>1, Appended DEF Heard
      <4>3. Closing(x, t)
        BY <1>1, <1>9, <2>1, <3>2, <3>3, <4>1 DEF Closing
      <4>4. QED
        BY <1>1, <1>2, <3>2, <4>1, <4>2, <4>3
    <3>6. QED
        BY <3>4, <3>5
  <2>5. l < HeadLen \/ l >= HeadLen
    BY <1>3
  <2>6. QED
    BY <2>3, <2>4, <2>5
<1>10. QED
    BY <1>2, <1>7, <1>8, <1>9

\* A close ends what a pipe hears.
LEMMA CloseOfPipe ==
    ASSUME Replied, OfClient(Current), NEW quits \in BOOLEAN, CloseConn(quits)
    PROVE  \E y : /\ Become(y) /\ PipeTypes(y) /\ y.conn.at = "closed" /\ After(y)
                  /\ Closing(Current, y)
PROOF
<1> DEFINE t == Told(Current, quits)
           y == Ended(t)
<1>1. PipeTypes(t) /\ t.http.parsing = FALSE /\ Heard(t) /\ Closing(Current, t)
    BY ToldOfPipe
<1>2. Become(y)
    BY CloseIs
<1> HIDE DEF t
<1>3. Shape(t)
    BY <1>1 DEF PipeTypes
<1>4. /\ Shape(y)
      /\ y.conn.at = "closed" /\ y.conn.doomed = TRUE
      /\ y.http.io = t.http.io /\ y.http.rcvd = 0 /\ y.http.parsing = t.http.parsing
      /\ y.heard.body = t.heard.body
    BY <1>3, EndedIs
<1>5. y.user = t.user
    BY <1>3, EndedIs
<1>6. y.heard.events = Append(t.heard.events, "close")
    BY <1>3, CloseHeard DEF Then
<1> HIDE DEF y
<1>7. 0 \in 0..arrived
    BY ReplyWire
<1>8. PipeTypes(y)
    BY <1>1, <1>4, <1>5, <1>7 DEF PipeTypes
<1>9. After(y)
    BY <1>1, <1>4, <1>5, <1>6, Appended DEF Heard, After
<1>10. Closing(Current, y)
    BY <1>1, <1>4, <1>5 DEF Closing
<1>11. QED
    BY <1>2, <1>4, <1>8, <1>9, <1>10

-----------------------------------------------------------------------------
\* What any other step is to a pipe.

\* The parts of the record the functions work on are the variables.
LEMMA CurrentIs ==
    /\ Current.conn = conn /\ Current.http = http /\ Current.user = user
    /\ Current.heard = heard
    /\ Current'.conn = conn' /\ Current'.http = http' /\ Current'.user = user'
    /\ Current'.heard = heard'
    /\ Current = [conn |-> conn, http |-> http, user |-> user, heard |-> heard]
    /\ Current' = [conn |-> conn', http |-> http', user |-> user', heard |-> heard']
PROOF
    BY DEF Current

\* Nothing comes in: what is true of the records is true of them afterwards.
LEMMA Later ==
    ASSUME OfClient(Current'), UNCHANGED <<side, bodies, arrived>>
    PROVE  OfClient(Current)'
PROOF
<1>1. Wire' = Wire /\ Bytes' = Bytes
    BY DEF Wire, Bytes
<1>2. PipeTypes(Current)' <=> PipeTypes(Current')
    BY <1>1 DEF PipeTypes, Shape, HasHead, Byte
<1>3. Before(Current)' <=> Before(Current')
    BY DEF Before
<1>4. During(Current)' <=> During(Current')
    BY DEF During, Carried, Byte
<1>5. After(Current)' <=> After(Current')
    BY DEF After
<1>6. QED
    BY <1>2, <1>3, <1>4, <1>5 DEF OfClient

\* The flags of the connection and the handler's own closing.
LEMMA FlagsOnly ==
    ASSUME OfClient(Current), conn' \in ConnRecords, conn'.at = conn.at,
           UNCHANGED <<side, bodies, arrived, http, heard>>,
           \/ user' = user /\ (user = "listens" \/ conn'.doomed)
           \/ /\ user = "listens" /\ user' = "quit" /\ conn'.doomed /\ conn.at # "closed"
    PROVE  OfClient(Current)'
PROOF
<1> DEFINE x == Current
           y == Current'
<1>1. /\ x.conn = conn /\ x.http = http /\ x.user = user /\ x.heard = heard
      /\ y.conn = conn' /\ y.http = x.http /\ y.user = user' /\ y.heard = x.heard
      /\ y = [conn |-> conn', http |-> x.http, user |-> user', heard |-> x.heard]
    BY CurrentIs
<1>2. PipeTypes(x)
    BY DEF OfClient
<1> SUFFICES OfClient(y)
    BY Later
<1> HIDE DEF x, y
<1>3. Shape(y)
    BY <1>1, <1>2 DEF PipeTypes, Shape
<1>4. PipeTypes(y)
    BY <1>1, <1>2, <1>3 DEF PipeTypes
<1>5. Before(x) => Before(y)
    BY <1>1 DEF Before
<1>6. conn.at = "open" /\ During(x) => During(y)
    BY <1>1 DEF During, Carried
<1>7. conn.at = "closed" /\ After(x) => After(y)
    BY <1>1 DEF After
<1>8. QED
    BY <1>1, <1>4, <1>5, <1>6, <1>7 DEF OfClient, x

\* ConnectDone tells the pipe it is connected, or fails it for good.
LEMMA PipeConnects ==
    ASSUME Replied, OfClient(Current), NEW ok \in BOOLEAN, ConnectDone(ok)
    PROVE  /\ OfClient(Current)' /\ conn.at = "connecting" /\ conn'.at = "open"
           /\ user = "listens" /\ heard.events = <<>> /\ heard'.body = heard.body
           /\ \/ user' = "listens" /\ heard'.events = <<"connected">>
              \/ user' = "quit" /\ heard'.events = <<"failed">>
PROOF
<1> DEFINE x == Current
           y == Current'
           e == IF ok THEN "connected" ELSE "failed"
<1>1. /\ x.conn = conn /\ x.http = http /\ x.user = user /\ x.heard = heard
      /\ y.conn = conn' /\ y.http = http' /\ y.user = user' /\ y.heard = heard'
      /\ y = [conn |-> conn', http |-> http', user |-> user', heard |-> heard']
    BY CurrentIs
<1>2. PipeTypes(x) /\ Before(x) /\ conn.at = "connecting" /\ user = "listens" /\ Shape(x)
    BY <1>1 DEF OfClient, ConnectDone, PipeTypes
<1>3. conn' = [conn EXCEPT !.at = "open", !.doomed = ~ok] /\ http' = http
    BY DEF ConnectDone
<1>4. user' = IF ok THEN "listens" ELSE "quit"
    BY <1>2 DEF ConnectDone
<1>5. heard' = [heard EXCEPT !.events = Append(heard.events, e)]
    BY <1>2 DEF ConnectDone, Hears
<1>6. conn' \in ConnRecords /\ conn'.at = "open" /\ conn'.doomed = ~ok
    BY <1>1, <1>2, <1>3 DEF Shape, ConnRecords
<1>7. /\ heard'.events = Append(heard.events, e) /\ heard'.body = heard.body
      /\ heard' = [events |-> heard'.events, body |-> heard'.body,
                   requests |-> heard'.requests]
  <2> HIDE DEF e
  <2>1. QED
    BY <1>1, <1>2, <1>5 DEF Shape
<1>8. heard.events = <<>> /\ heard.body = <<>>
    BY <1>1, <1>2 DEF Before
<1>9. heard'.events = IF ok THEN <<"connected">> ELSE <<"failed">>
    BY <1>7, <1>8, Appended
<1> HIDE DEF x, y, e
<1>10. Shape(y)
    BY <1>1, <1>2, <1>3, <1>6, <1>7 DEF Shape
<1>11. PipeTypes(y)
    BY <1>1, <1>2, <1>3, <1>4, <1>6, <1>7, <1>10 DEF PipeTypes
<1>12. Carried(y)
  <2>1. /\ y.http.rcvd = 0 /\ arrived = 0 /\ y.http.io = <<>> /\ y.heard.body = <<>>
    BY <1>1, <1>2, <1>3, <1>7, <1>8 DEF Before
  <2>2. Len(y.http.io) = 0 /\ Len(y.heard.body) = 0
    BY <2>1
  <2>3. y.http.rcvd = arrived /\ Len(y.http.io) = arrived - Len(y.heard.body)
    <3>1. y.http.rcvd = arrived /\ arrived = 0
        BY <2>1
    <3> DEFINE a == Len(y.http.io)
               b == Len(y.heard.body)
    <3>2. a = 0 /\ b = 0
        BY <2>2
    <3> HIDE DEF a, b
    <3>3. a = arrived - b
        BY <3>1, <3>2
    <3>4. QED
        BY <3>1, <3>3 DEF a, b
  <2>4. \A k : k \notin 1..0
    OBVIOUS
  <2>5. QED
    BY <2>1, <2>2, <2>3, <2>4 DEF Carried
<1>13. During(y)
  <2>1. Len(y.http.io) <= HeadLen
    BY <1>1, <1>2, <1>3, ConnAssumption DEF Before
  <2>2. CASE ok
    BY <1>1, <1>4, <1>9, <1>12, <2>1, <2>2 DEF During
  <2>3. CASE ~ok
    BY <1>1, <1>4, <1>7, <1>8, <1>9, <2>3 DEF During
  <2>4. QED
    BY <2>2, <2>3
<1>14. OfClient(y)
    BY <1>1, <1>6, <1>11, <1>13 DEF OfClient
<1>15. OfClient(Current)'
    BY <1>14, Later DEF y, ConnectDone
<1>16. QED
    BY <1>2, <1>4, <1>6, <1>7, <1>8, <1>9, <1>15

\* A name that is not found fails the pipe.
LEMMA PipeUnresolved ==
    ASSUME Replied, OfClient(Current), conn.at = "resolving", ResolveFails,
           UNCHANGED <<side, bodies, http, arrived>>
    PROVE  /\ OfClient(Current)' /\ conn'.at = "closed"
           /\ heard'.body = heard.body /\ user' = "quit"
PROOF
<1> DEFINE x == Current
           y == Current'
           e == heard.events \o (IF user = "listens" THEN <<"failed">> ELSE <<>>) \o <<"close">>
<1>1. /\ x.conn = conn /\ x.http = http /\ x.user = user /\ x.heard = heard
      /\ y.conn = conn' /\ y.http = http /\ y.user = user' /\ y.heard = heard'
      /\ y = [conn |-> conn', http |-> http, user |-> user', heard |-> heard']
    BY CurrentIs
<1>2. PipeTypes(x) /\ Before(x) /\ Shape(x) /\ user \in {"listens", "quit"}
    BY <1>1 DEF OfClient, PipeTypes, Before
<1>3. /\ conn' = [conn EXCEPT !.at = "closed", !.doomed = TRUE]
      /\ user' = "quit" /\ heard' = [heard EXCEPT !.events = e]
    BY <1>2 DEF ResolveFails
<1>4. heard.events = <<>> /\ heard.body = <<>>
    BY <1>1, <1>2 DEF Before
<1>5. e \in { <<"close">>, <<"failed", "close">> }
    BY <1>4, Appended
<1> HIDE DEF e
<1>6. conn' \in ConnRecords /\ conn'.at = "closed" /\ conn'.doomed = TRUE
    BY <1>1, <1>2, <1>3 DEF Shape, ConnRecords
<1>7. /\ heard'.events = e /\ heard'.body = heard.body
      /\ heard' = [events |-> heard'.events, body |-> heard'.body,
                   requests |-> heard'.requests]
    BY <1>1, <1>2, <1>3 DEF Shape
<1> HIDE DEF x, y
<1>8. Shape(y)
    BY <1>1, <1>2, <1>6, <1>7 DEF Shape
<1>9. PipeTypes(y)
    BY <1>1, <1>2, <1>3, <1>6, <1>7, <1>8 DEF PipeTypes
<1>10. After(y)
    BY <1>1, <1>2, <1>3, <1>4, <1>5, <1>7 DEF Before, After
<1>11. OfClient(y)
    BY <1>1, <1>6, <1>9, <1>10 DEF OfClient
<1>12. QED
    BY <1>3, <1>6, <1>7, <1>11, Later DEF y

\* n bytes more come in, which follow those in front.
LEMMA PipeReceives ==
    ASSUME Replied, OfClient(Current), NEW n \in 1..MaxIO, Recv(n)
    PROVE  Replied' /\ OfClient(Current)'
PROOF
<1> DEFINE x == Current
           y == Current'
           s == SubSeq(Wire, arrived + 1, arrived + n)
           l == Len(http.io)
           g == Len(heard.body)
           a == arrived
           b == arrived + n
           io == http.io \o s
<1>1. /\ x.conn = conn /\ x.http = http /\ x.user = user /\ x.heard = heard
      /\ y.conn = conn /\ y.http = http' /\ y.user = user /\ y.heard = heard
      /\ y = [conn |-> conn, http |-> http', user |-> user, heard |-> heard]
    BY CurrentIs DEF Recv
<1>2. PipeTypes(x) /\ During(x) /\ conn.at = "open" /\ Shape(x) /\ ~conn.doomed
    BY <1>1 DEF OfClient, Recv, PipeTypes
<1>3. /\ user = "listens" /\ heard.events = <<"connected">> /\ Carried(x)
    BY <1>1, <1>2 DEF During, PipeTypes
<1>4. /\ n \in Nat \ {0} /\ a \in Nat /\ b = a + n /\ b <= Len(Wire) /\ arrived' = b
      /\ Len(Wire) \in Nat /\ Wire \in Seq(Bytes) /\ b \in Nat
    BY ReplyWire, ConnAssumption DEF Recv
<1>5. /\ s \in Seq(Bytes) /\ Len(s) = n /\ \A k \in 1..n : s[k] = Byte(1, a + k)
  <2> DEFINE w == Wire
  <2>1. w \in Seq(Bytes) /\ a \in Nat /\ b \in Nat /\ b = a + n /\ b <= Len(w) /\ n \in Nat \ {0}
        /\ Len(w) \in Nat /\ \A k \in 1..Len(w) : w[k] = Byte(1, k)
    BY <1>4, ReplyWire
  <2> HIDE DEF w, a, b
  <2>2. /\ SubSeq(w, a + 1, b) \in Seq(Bytes) /\ Len(SubSeq(w, a + 1, b)) = n
        /\ \A k \in 1..n : SubSeq(w, a + 1, b)[k] = w[a + k]
    BY <2>1
  <2>3. \A k \in 1..n : a + k \in 1..Len(w)
    BY <2>1
  <2>4. QED
    BY <2>1, <2>2, <2>3 DEF w, a, b
<1>6. l \in Nat /\ g \in Nat /\ http.io \in Seq(Bytes) /\ heard.body \in Seq(Bytes)
    BY <1>1, <1>2 DEF PipeTypes
<1>7. /\ l = a - g /\ (g # 0 => HeadLen + g <= a) /\ HeadLen \in Nat \ {0}
      /\ http.rcvd = a
    BY <1>1, <1>3, <1>6, ConnAssumption DEF Carried
<1>8. /\ io \in Seq(Bytes) /\ Len(io) = l + n
      /\ \A k \in 1..l + n : io[k] = IF k <= l THEN http.io[k] ELSE s[k - l]
  <2> DEFINE f == http.io
  <2> HIDE DEF s, f
  <2>1. f \in Seq(Bytes) /\ s \in Seq(Bytes) /\ Len(s) = n
    BY <1>5, <1>6 DEF f
  <2>2. /\ f \o s \in Seq(Bytes) /\ Len(f \o s) = Len(f) + Len(s)
        /\ \A k \in 1..Len(f) + Len(s) :
              (f \o s)[k] = IF k <= Len(f) THEN f[k] ELSE s[k - Len(f)]
    BY <2>1, ConcatProperties
  <2>3. QED
    BY <2>1, <2>2 DEF f
<1>9. http' = [io |-> io, rcvd |-> http.rcvd + n, parsing |-> TRUE]
    BY DEF Recv
<1>10. http'.io = io /\ http'.rcvd = b /\ http'.parsing = TRUE
    BY <1>4, <1>7, <1>9
<1>11. \A k \in 1..l + n : io[k] = Byte(1, IF k <= HeadLen THEN k ELSE k + g)
  <2>1. ASSUME NEW k \in 1..l + n
        PROVE  io[k] = Byte(1, IF k <= HeadLen THEN k ELSE k + g)
    <3>1. CASE k <= l
      <4>1. k \in 1..l
        BY <1>6, <3>1
      <4>2. http.io[k] = Byte(1, IF k <= HeadLen THEN k ELSE k + g)
        BY <1>1, <1>3, <4>1 DEF Carried
      <4>3. QED
        BY <1>8, <3>1, <4>2
    <3>2. CASE ~(k <= l)
      <4> HIDE DEF l, g, io, s, a, b
      <4>1. k - l \in 1..n /\ a + (k - l) = k + g
        BY <1>4, <1>6, <1>7, <3>2
      <4>2. k <= HeadLen => k + g = k
        BY <1>6, <1>7, <1>4, <3>2
      <4>3. io[k] = Byte(1, k + g)
        <5>1. io[k] = s[k - l]
            BY <1>8, <3>2
        <5>2. s[k - l] = Byte(1, a + (k - l))
            BY <1>5, <4>1
        <5>3. QED
            BY <4>1, <5>1, <5>2
      <4>4. QED
        BY <4>2, <4>3
    <3>3. QED
        BY <3>1, <3>2
  <2>2. QED
    BY <2>1
<1>12. HasHead(io, 1)
    BY <1>8, <1>11 DEF HasHead
<1>13. Len(io) = b - g /\ (g # 0 => HeadLen + g <= b) /\ Len(io) <= b
  <2> HIDE DEF l, g, io, a, b
  <2>1. QED
    BY <1>4, <1>6, <1>7, <1>8
<1>14. /\ side' = side /\ bodies' = bodies /\ Wire' = Wire /\ Bytes' = Bytes
    BY DEF Recv, Wire, Bytes
<1>15. Replied'
  <2>1. arrived' \in 0..Len(Wire)
    BY <1>4
  <2>2. QED
    BY <1>14, <2>1 DEF Replied
<1> HIDE DEF io, s, b
<1>16. Shape(y)
    BY <1>1, <1>2, <1>9, <1>10 DEF Shape
<1>17. PipeTypes(Current)'
  <2>1. /\ y.http.io \in Seq(Bytes) /\ y.http.parsing = TRUE /\ y.http.rcvd \in 0..b
        /\ Len(y.http.io) <= b /\ HasHead(y.http.io, 1)
    BY <1>1, <1>4, <1>8, <1>10, <1>12, <1>13
  <2>2. y.heard.body \in Seq(Bytes) /\ y.user \in {"listens", "quit", "told"}
        /\ (y.user # "listens" => y.conn.doomed)
    BY <1>1, <1>3, <1>6
  <2> HIDE DEF y
  <2>3. QED
    BY <1>4, <1>14, <1>16, <2>1, <2>2 DEF PipeTypes, Shape, HasHead, Byte, y
<1>18. Carried(Current)'
  <2>1. /\ y.http.rcvd = b /\ Len(y.http.io) = b - Len(y.heard.body)
        /\ y.heard.body # <<>> => HeadLen + Len(y.heard.body) <= b
    BY <1>1, <1>6, <1>10, <1>13
  <2>2. \A k \in 1..Len(y.http.io) :
            y.http.io[k] = Byte(1, IF k <= HeadLen THEN k ELSE k + Len(y.heard.body))
    BY <1>1, <1>8, <1>10, <1>11
  <2>3. \A k \in 1..Len(y.heard.body) : y.heard.body[k] = Byte(1, HeadLen + k)
    BY <1>1, <1>3 DEF Carried
  <2> HIDE DEF y
  <2>4. QED
    BY <1>4, <2>1, <2>2, <2>3 DEF Carried, Byte, y
<1>19. During(Current)'
  <2>1. y.user = "listens" /\ y.heard.events = <<"connected">> /\ y.http.parsing = TRUE
    BY <1>1, <1>3, <1>10
  <2>2. QED
    BY <1>18, <2>1 DEF During
<1>20. y.conn.at = "open"
    BY <1>1, <1>2
<1>21. QED
    BY <1>15, <1>17, <1>19, <1>20 DEF OfClient

-----------------------------------------------------------------------------
\* All steps of a pipe's connection.

\* What a step is to the one who listens to the events.
PipeStep(x, y) ==
    \/ y.user = x.user /\ y.heard = x.heard /\ (x.conn.at = "closed" <=> y.conn.at = "closed")
    \/ /\ x.user = "listens" /\ x.heard.events = <<>> /\ x.conn.at = "connecting"
       /\ y.conn.at = "open" /\ y.heard.body = x.heard.body
       /\ \/ y.user = "listens" /\ y.heard.events = <<"connected">>
          \/ y.user = "quit" /\ y.heard.events = <<"failed">>
    \/ /\ x.user = "listens" /\ y.user = "quit" /\ y.heard = x.heard
       /\ x.conn.at # "closed" /\ y.conn.at # "closed"
    \/ Arriving(x, y)
    \/ x.conn.at # "closed" /\ y.conn.at = "closed" /\ Closing(x, y)

\* Again, on the side of a pipe.
LEMMA PipeAgain ==
    ASSUME Replied, OfClient(Current), NEW quits \in BOOLEAN, Again(quits)
    PROVE  Replied' /\ OfClient(Current)' /\ PipeStep(Current, Current')
PROOF
<1>1. PICK y : /\ Become(y) /\ PipeTypes(y) /\ y.conn.at = "open" /\ During(y)
               /\ Untold(Current, y) \/ Arriving(Current, y)
    BY RoundOfPipe
<1>2. Current' = y
    BY <1>1, BecomeIs DEF PipeTypes
<1>3. UNCHANGED <<side, bodies, arrived>>
    BY DEF Again
<1>4. OfClient(y)
    BY <1>1 DEF OfClient
<1>5. OfClient(Current)'
    BY <1>2, <1>3, <1>4, Later
<1>6. PipeStep(Current, y)
    BY <1>1 DEF PipeStep, Untold
<1>7. Replied'
    BY <1>3 DEF Replied, Wire
<1>8. QED
    BY <1>2, <1>5, <1>6, <1>7

\* CloseConn, on the side of a pipe.
LEMMA PipeCloses ==
    ASSUME Replied, OfClient(Current), NEW quits \in BOOLEAN, CloseConn(quits)
    PROVE  Replied' /\ OfClient(Current)' /\ PipeStep(Current, Current')
PROOF
<1>1. PICK y : /\ Become(y) /\ PipeTypes(y) /\ y.conn.at = "closed" /\ After(y)
               /\ Closing(Current, y)
    BY CloseOfPipe
<1>2. Current' = y
    BY <1>1, BecomeIs DEF PipeTypes
<1>3. UNCHANGED <<side, bodies, arrived>> /\ Current.conn.at # "closed"
    BY CurrentIs DEF CloseConn
<1>4. OfClient(y)
    BY <1>1 DEF OfClient
<1>5. OfClient(Current)'
    BY <1>2, <1>3, <1>4, Later
<1>6. PipeStep(Current, y)
    BY <1>1, <1>3 DEF PipeStep
<1>7. Replied'
    BY <1>3 DEF Replied, Wire
<1>8. QED
    BY <1>2, <1>5, <1>6, <1>7

\* The address is there: it connects.
LEMMA PipeResolved ==
    ASSUME Replied, OfClient(Current), conn.at = "resolving",
           conn' = [conn EXCEPT !.at = "connecting"],
           UNCHANGED <<side, bodies, http, arrived, user, heard>>
    PROVE  OfClient(Current)' /\ conn'.at = "connecting"
PROOF
<1> DEFINE x == Current
           y == Current'
<1>1. /\ x.conn = conn /\ x.http = http /\ x.user = user /\ x.heard = heard
      /\ y.conn = conn' /\ y.http = http /\ y.user = user /\ y.heard = heard
      /\ y = [conn |-> conn', http |-> http, user |-> user, heard |-> heard]
    BY CurrentIs
<1>2. PipeTypes(x) /\ Before(x) /\ Shape(x)
    BY <1>1 DEF OfClient, PipeTypes
<1>3. conn' \in ConnRecords /\ conn'.at = "connecting" /\ conn'.doomed = conn.doomed
    BY <1>1, <1>2 DEF Shape, ConnRecords
<1> HIDE DEF x, y
<1>4. Shape(y)
    BY <1>1, <1>2, <1>3 DEF Shape
<1>5. PipeTypes(y)
    BY <1>1, <1>2, <1>3, <1>4 DEF PipeTypes
<1>6. Before(y)
    BY <1>1, <1>2 DEF Before
<1>7. OfClient(y)
    BY <1>1, <1>3, <1>5, <1>6 DEF OfClient
<1>8. QED
    BY <1>3, <1>7, Later DEF y

\* Every step keeps what holds for a pipe and is one a pipe may see.
LEMMA PipeNext ==
    ASSUME Replied, Resolving, OfClient(Current), [Next]_vars
    PROVE  Replied' /\ OfClient(Current)' /\ PipeStep(Current, Current')
PROOF
<1>0. /\ Current.conn = conn /\ Current.http = http /\ Current.user = user
      /\ Current.heard = heard
      /\ Current'.conn = conn' /\ Current'.http = http' /\ Current'.user = user'
      /\ Current'.heard = heard'
      /\ conn \in ConnRecords
  <2>1. Current.conn \in ConnRecords
    BY DEF OfClient, PipeTypes, Shape
  <2>2. QED
    BY <2>1, CurrentIs
<1>1. ASSUME UNCHANGED <<side, bodies, arrived>> PROVE Replied'
    BY <1>1 DEF Replied, Wire
\* Neither the handler nor what it has heard changes.
<1>2. ASSUME UNCHANGED <<side, bodies, arrived, http, heard, user>>, conn' \in ConnRecords,
             conn'.at = conn.at, user = "listens" \/ conn'.doomed
      PROVE  Replied' /\ OfClient(Current)' /\ PipeStep(Current, Current')
  <2>1. OfClient(Current)'
    BY <1>2, FlagsOnly
  <2>2. PipeStep(Current, Current')
    BY <1>0, <1>2 DEF PipeStep
  <2>3. QED
    BY <1>1, <1>2, <2>1, <2>2
<1>3. user # "listens" => conn.doomed
    BY <1>0 DEF OfClient, PipeTypes
\* A look-up fails.
<1>4. ASSUME dns.asked, ResolveFails, UNCHANGED <<side, bodies, http, arrived>>
      PROVE  Replied' /\ OfClient(Current)' /\ PipeStep(Current, Current')
  <2>1. conn.at = "resolving"
    BY <1>4 DEF Resolving
  <2>2. OfClient(Current)' /\ conn'.at = "closed" /\ heard'.body = heard.body /\ user' = "quit"
    BY <1>4, <2>1, PipeUnresolved
  <2>3. user # "told"
    BY <1>0, <2>1 DEF OfClient, Before
  <2>4. Closing(Current, Current')
    BY <1>0, <2>2, <2>3 DEF Closing
  <2>5. QED
    BY <1>0, <1>1, <1>4, <2>1, <2>2, <2>4 DEF PipeStep
<1>5. CASE DnsQuiet \/ DnsDue \/ (\E ok \in BOOLEAN : DnsConnect(ok) \/ DnsSend(ok))
  <2>1. UNCHANGED <<side, bodies, arrived, http, heard, user, conn>>
    BY <1>5 DEF DnsQuiet, DnsDue, DnsConnect, DnsSend
  <2>2. QED
    BY <1>0, <1>2, <1>3, <2>1
<1>6. CASE DnsClose
  <2>1. CASE dns.asked
    BY <1>4, <1>6, <2>1 DEF DnsClose
  <2>2. CASE ~dns.asked
    <3>1. UNCHANGED <<side, bodies, arrived, http, heard, user, conn>>
        BY <1>6, <2>2 DEF DnsClose
    <3>2. QED
        BY <1>0, <1>2, <1>3, <3>1
  <2>3. QED
    BY <2>1, <2>2
<1>7. ASSUME NEW found \in {"address", "other", "nothing"}, DnsRecv(found)
      PROVE  Replied' /\ OfClient(Current)' /\ PipeStep(Current, Current')
  <2>1. UNCHANGED <<side, bodies, http, arrived>> /\ dns.asked
    BY <1>7 DEF DnsRecv, DnsTurn, Resolving, DnsSound
  <2>2. \/ UNCHANGED <<conn, user, heard>>
        \/ conn' = [conn EXCEPT !.at = "connecting"] /\ UNCHANGED <<user, heard>>
        \/ ResolveFails
    BY <1>7 DEF DnsRecv
  <2>3. CASE UNCHANGED <<conn, user, heard>>
    BY <1>0, <1>2, <1>3, <2>1, <2>3
  <2>4. CASE conn' = [conn EXCEPT !.at = "connecting"] /\ UNCHANGED <<user, heard>>
    <3>1. conn.at = "resolving"
        BY <2>1 DEF Resolving
    <3>2. OfClient(Current)' /\ conn'.at = "connecting"
        BY <2>1, <2>4, <3>1, PipeResolved
    <3>3. QED
        BY <1>0, <1>1, <2>1, <2>4, <3>1, <3>2 DEF PipeStep
  <2>5. CASE ResolveFails
    BY <1>4, <2>1, <2>5
  <2>6. QED
    BY <2>2, <2>3, <2>4, <2>5
<1>8. ASSUME NEW ok \in BOOLEAN, ConnectDone(ok)
      PROVE  Replied' /\ OfClient(Current)' /\ PipeStep(Current, Current')
  <2>1. /\ OfClient(Current)' /\ conn.at = "connecting" /\ conn'.at = "open"
        /\ user = "listens" /\ heard.events = <<>> /\ heard'.body = heard.body
        /\ \/ user' = "listens" /\ heard'.events = <<"connected">>
           \/ user' = "quit" /\ heard'.events = <<"failed">>
    BY <1>8, PipeConnects
  <2>2. UNCHANGED <<side, bodies, arrived>>
    BY <1>8 DEF ConnectDone
  <2>3. QED
    BY <1>0, <1>1, <2>1, <2>2 DEF PipeStep
<1>9. ASSUME NEW ok \in BOOLEAN, Send(ok)
      PROVE  Replied' /\ OfClient(Current)' /\ PipeStep(Current, Current')
  <2>1. /\ conn' = [conn EXCEPT !.out = IF ok THEN FALSE ELSE conn.out, !.doomed = ~ok]
        /\ ~conn.doomed /\ UNCHANGED <<side, bodies, http, arrived, user, heard>>
    BY <1>9 DEF Send
  <2>2. conn' \in ConnRecords /\ conn'.at = conn.at
    BY <1>0, <2>1 DEF ConnRecords
  <2>3. QED
    BY <1>2, <1>3, <2>1, <2>2
<1>10. CASE Eof
  <2>1. /\ conn' = [conn EXCEPT !.ending = TRUE]
        /\ ~conn.doomed /\ UNCHANGED <<side, bodies, http, arrived, user, heard>>
    BY <1>10 DEF Eof
  <2>2. conn' \in ConnRecords /\ conn'.at = conn.at
    BY <1>0, <2>1 DEF ConnRecords
  <2>3. QED
    BY <1>2, <1>3, <2>1, <2>2
<1>11. CASE RecvError
  <2>1. /\ conn' = [conn EXCEPT !.doomed = TRUE]
        /\ ~conn.doomed /\ UNCHANGED <<side, bodies, http, arrived, user, heard>>
    BY <1>11 DEF RecvError
  <2>2. conn' \in ConnRecords /\ conn'.at = conn.at
    BY <1>0, <2>1 DEF ConnRecords
  <2>3. QED
    BY <1>2, <1>3, <2>1, <2>2
<1>12. CASE UserCloses
  <2>1. /\ conn' = [conn EXCEPT !.doomed = TRUE] /\ conn.at # "closed" /\ user = "listens"
        /\ UNCHANGED <<side, bodies, http, arrived, heard>> /\ user' = "quit"
    BY <1>12 DEF UserCloses, Replied
  <2>2. conn' \in ConnRecords /\ conn'.at = conn.at /\ conn'.doomed
    BY <1>0, <2>1 DEF ConnRecords
  <2>3. OfClient(Current)'
    BY <2>1, <2>2, FlagsOnly
  <2>4. PipeStep(Current, Current')
    BY <1>0, <2>1, <2>2 DEF PipeStep
  <2>5. QED
    BY <1>1, <2>1, <2>3, <2>4
<1>13. ASSUME NEW n \in 1..MaxIO, Recv(n)
       PROVE  Replied' /\ OfClient(Current)' /\ PipeStep(Current, Current')
  <2>1. UNCHANGED <<conn, user, heard>>
    BY <1>13 DEF Recv
  <2>2. QED
    BY <1>0, <1>13, <2>1, PipeReceives DEF PipeStep
<1>14. ASSUME NEW quits \in BOOLEAN, Again(quits) \/ CloseConn(quits)
       PROVE  Replied' /\ OfClient(Current)' /\ PipeStep(Current, Current')
    BY <1>14, PipeAgain, PipeCloses
<1>15. CASE UNCHANGED vars
  <2>1. UNCHANGED <<side, bodies, arrived, http, heard, user, conn>>
    BY <1>15 DEF vars
  <2>2. QED
    BY <1>0, <1>2, <1>3, <2>1
<1>16. QED
    BY <1>5, <1>6, <1>7, <1>8, <1>9, <1>10, <1>11, <1>12, <1>13, <1>14, <1>15 DEF Next

-----------------------------------------------------------------------------
\* A connection that a client of the server has opened.

\* What has come is that much of the wire.
Served ==
    side = "server" /\ bodies \in Peers /\ arrived \in 0..Len(Wire)

\* In front is message c, as much of it and of what follows it as has come.
Pending(io, c) ==
    /\ c \in 1..Len(bodies) + 1
    /\ Start(c) <= arrived /\ Len(io) = arrived - Start(c)
    /\ \A k \in 1..Len(io) : io[k] = Wire[Start(c) + k]

\* Whatever the buffer holds, it starts with the head of its next message.
LEMMA PendingHead ==
    ASSUME Served, NEW io \in Seq(Bytes), NEW c, Pending(io, c)
    PROVE  HasHead(io, c) /\ (io # <<>> => c \in 1..Len(bodies))
PROOF
<1> DEFINE n == Len(bodies)
           w == Len(Wire)
           l == Len(io)
<1>1. /\ w \in Nat /\ n \in Nat /\ \A m \in 1..n + 1 : Start(m) \in 0..w
      /\ Start(n + 1) = w
      /\ \A m \in 1..n : MessageLen(m) \in Nat /\ MessageLen(m) >= HeadLen
      /\ \A m \in 1..n : \A k \in 1..MessageLen(m) : Wire[Start(m) + k] = Byte(m, k)
    BY StartIs DEF Served
<1>2. arrived \in 0..w /\ HeadLen \in Nat \ {0} /\ l \in Nat
    BY ConnAssumption DEF Served
<1>3. /\ c \in 1..n + 1 /\ Start(c) <= arrived /\ l = arrived - Start(c)
      /\ \A k \in 1..l : io[k] = Wire[Start(c) + k]
    BY DEF Pending
<1>4. l # 0 => c \in 1..n
  <2> HIDE DEF n, w, l
  <2>1. SUFFICES ASSUME c = n + 1 PROVE l = 0
    BY <1>1, <1>3
  <2>2. Start(c) = w
    BY <1>1, <2>1
  <2>3. QED
    BY <1>1, <1>2, <1>3, <2>2
<1>5. io # <<>> <=> l # 0
    BY EmptySeq
<1>6. ASSUME NEW k \in 1..l, k <= HeadLen PROVE io[k] = Byte(c, k)
  <2> HIDE DEF n, w, l
  <2>1. c \in 1..n
    BY <1>2, <1>4
  <2>2. k \in 1..MessageLen(c)
    BY <1>1, <1>2, <1>6, <2>1
  <2>3. QED
    BY <1>1, <1>3, <2>1, <2>2
<1>7. QED
    BY <1>4, <1>5, <1>6 DEF HasHead

\* Once it is removed the next is in front.
LEMMA PendingGone ==
    ASSUME Served, NEW io \in Seq(Bytes), NEW c \in 1..Len(bodies), Pending(io, c),
           MessageLen(c) <= Len(io)
    PROVE  LET r == Removed(io, MessageLen(c))
           IN  r \in Seq(Bytes) /\ Pending(r, c + 1) /\ Len(r) = Len(io) - MessageLen(c)
PROOF
<1> DEFINE n == Len(bodies)
           w == Len(Wire)
           l == Len(io)
           g == MessageLen(c)
           s == Start(c)
           r == Removed(io, g)
<1>1. /\ w \in Nat /\ n \in Nat /\ s \in 0..w /\ Start(c + 1) = s + g
      /\ g \in Nat
  <2>1. c \in 1..Len(bodies) + 1
    BY StartIs DEF Served
  <2>2. QED
    BY <2>1, StartIs DEF Served
<1>2. arrived \in 0..w /\ l \in Nat /\ g <= l
    BY DEF Served
<1>3. /\ s <= arrived /\ l = arrived - s
      /\ \A k \in 1..l : io[k] = Wire[s + k]
    BY DEF Pending
<1>4. r = SubSeq(io, g + 1, l)
    BY <1>2 DEF Removed
<1> HIDE DEF n, w, l, g, s, r
<1>5. g + 1 \in 1..l + 1 /\ l - (g + 1) + 1 = l - g
    BY <1>1, <1>2
<1>6. r \in Seq(Bytes) /\ Len(r) = l - g
  <2>1. /\ SubSeq(io, g + 1, l) \in Seq(Bytes)
        /\ Len(SubSeq(io, g + 1, l)) = IF g + 1 <= l THEN l - (g + 1) + 1 ELSE 0
    BY <1>1, <1>2, <1>5, SubSeqProperties DEF l
  <2>2. QED
    BY <1>1, <1>2, <1>4, <2>1
<1>7. \A k \in 1..l - g : r[k] = Wire[s + g + k]
  <2>1. ASSUME NEW k \in 1..l - g PROVE r[k] = Wire[s + g + k]
    <3>1. k + g \in 1..l /\ s + (k + g) = s + g + k
        BY <1>1, <1>2
    <3>2. r[k] = io[k + g]
        BY <1>1, <1>2, <1>4, <3>1 DEF l
    <3>3. QED
        BY <1>3, <3>1, <3>2
  <2>2. QED
    BY <2>1
<1>8. s + g <= arrived /\ l - g = arrived - (s + g) /\ c + 1 \in 1..n + 1
    BY <1>1, <1>2, <1>3 DEF n
<1>9. Pending(r, c + 1)
    BY <1>1, <1>6, <1>7, <1>8 DEF Pending, n
<1>10. QED
    BY <1>6, <1>9 DEF r, g, l

Requests == [msg : Nat, size : Nat]

\* One more request is told of.
LEMMA RequestAdded ==
    ASSUME NEW requests \in Seq(Requests), NEW m \in Nat, NEW size \in Nat
    PROVE  LET more == Append(requests, Request(m, size))
           IN  /\ more \in Seq(Requests) /\ Len(more) = Len(requests) + 1
               /\ \A i \in 1..Len(requests) : more[i] = requests[i]
               /\ more[Len(more)].msg = m /\ more[Len(more)].size = size
PROOF
<1> DEFINE q == Request(m, size)
<1>1. q \in Requests /\ q.msg = m /\ q.size = size
    BY DEF Request, Requests
<1> HIDE DEF q
<1>2. /\ Append(requests, q) \in Seq(Requests) /\ Len(Append(requests, q)) = Len(requests) + 1
      /\ \A i \in 1..Len(requests) : Append(requests, q)[i] = requests[i]
      /\ Append(requests, q)[Len(requests) + 1] = q
    BY <1>1, AppendProperties
<1>3. QED
    BY <1>1, <1>2 DEF q

\* All before it have been told of whole; between reads it is not complete.
Serving(x, c) ==
    /\ x.http.rcvd = Len(x.http.io) /\ Len(x.heard.requests) = c - 1
    /\ \A i \in 1..Len(x.heard.requests) :
          x.heard.requests[i].msg = i /\ x.heard.requests[i].size >= bodies[i].len
    /\ x.http.parsing = FALSE /\ x.http.io # <<>> => ~Reaches(c, x.http.rcvd)

\* The close may have told of one that was not.
ServedOut(x) ==
    /\ x.http.rcvd = 0 /\ x.http.parsing = FALSE
    /\ \A i \in 1..Len(x.heard.requests) :
          /\ x.heard.requests[i].msg = i
          /\ x.heard.requests[i].size >= bodies[i].len \/ i = Len(x.heard.requests)

ServerTypes(x) ==
    /\ Shape(x) /\ x.user = "listens" /\ x.conn.at \in {"open", "closed"}
    /\ x.http.io \in Seq(Bytes) /\ x.http.parsing \in BOOLEAN
    /\ x.heard.requests \in Seq(Requests)

OfServer(x) ==
    /\ ServerTypes(x)
    /\ x.conn.at = "closed" => ServedOut(x)
    /\ \E c \in 1..Len(bodies) + 1 :
          Pending(x.http.io, c) /\ (x.conn.at = "open" => Serving(x, c))

\* A request that is told of is the next.
LEMMA NextTold ==
    ASSUME Served, NEW x, ServerTypes(x), NEW c \in 1..Len(bodies), Serving(x, c),
           NEW size \in Nat
    PROVE  LET y == DeliverMessage(x, c, size)
           IN  /\ ServerTypes(y) /\ y.conn.at = x.conn.at /\ y.http = x.http
               /\ Len(y.heard.requests) = c
               /\ \A i \in 1..c : y.heard.requests[i].msg = i
               /\ \A i \in 1..c : i # c => y.heard.requests[i].size >= bodies[i].len
               /\ y.heard.requests[c].size = size
PROOF
<1> DEFINE y == DeliverMessage(x, c, size)
           q == x.heard.requests
           r == y.heard.requests
           l == Len(q)
<1>1. Shape(x) /\ side = "server" /\ q \in Seq(Requests) /\ c \in Nat \ {0}
    BY StartIs DEF ServerTypes, Served
<1>2. /\ Shape(y) /\ y.conn.at = x.conn.at /\ y.http = x.http /\ y.user = x.user
    BY <1>1, RequestTold
<1>3. r = Append(q, Request(c, size))
    BY SMTT(30), <1>1, RequestTold
<1>4. l = c - 1 /\ \A i \in 1..l : q[i].msg = i /\ q[i].size >= bodies[i].len
    BY DEF Serving
<1> HIDE DEF y, q, r
<1>5. /\ r \in Seq(Requests) /\ Len(r) = l + 1 /\ \A i \in 1..l : r[i] = q[i]
      /\ r[Len(r)].msg = c /\ r[Len(r)].size = size
    BY <1>1, <1>3, RequestAdded
<1> HIDE DEF l
<1>6. Len(r) = c
    BY <1>1, <1>4, <1>5
<1>7. ASSUME NEW i \in 1..c
      PROVE  r[i].msg = i /\ (i # c => r[i].size >= bodies[i].len)
  <2>1. CASE i = c
    BY <1>5, <1>6, <2>1
  <2>2. CASE i # c
    <3>1. i \in 1..l
        BY <1>1, <1>4, <2>2
    <3>2. QED
        BY <1>4, <1>5, <2>2, <3>1
  <2>3. QED
    BY <2>1, <2>2
<1>8. ServerTypes(y)
    BY <1>2, <1>5 DEF ServerTypes, r
<1>9. QED
    BY <1>2, <1>5, <1>6, <1>7, <1>8 DEF r, y

\* How long a message is.
LEMMA BodyLength ==
    ASSUME Served, NEW m \in 1..Len(bodies)
    PROVE  bodies[m].len \in Nat /\ MessageLen(m) = HeadLen + bodies[m].len
PROOF
<1>1. bodies \in Seq([len : Nat, known : BOOLEAN])
    BY ConnAssumption DEF Served
<1>2. bodies[m] \in [len : Nat, known : BOOLEAN]
    BY <1>1, ElementOfSeq
<1>3. QED
    BY <1>2 DEF MessageLen

\* One round of the loop.
LEMMA RoundOfServer ==
    ASSUME Served, OfServer(Current), NEW quits \in BOOLEAN, Again(quits)
    PROVE  \E y : Become(y) /\ OfServer(y)
PROOF
<1> DEFINE x  == Current
           io == http.io
           l  == Len(io)
           r  == Rest
<1>1. x.conn = conn /\ x.http = http /\ x.user = user /\ x.heard = heard
    BY DEF Current
<1>2. /\ ServerTypes(x) /\ Shape(x) /\ io \in Seq(Bytes) /\ l \in Nat
      /\ HeadLen \in Nat \ {0}
    BY <1>1, ConnAssumption DEF OfServer, ServerTypes
<1>3. http.parsing /\ conn.at = "open"
  <2>1. http.parsing
    BY DEF Again
  <2>2. conn.at # "closed"
    BY <1>1, <2>1 DEF OfServer, ServedOut
  <2>3. QED
    BY <1>1, <1>2, <2>1, <2>2 DEF ServerTypes
<1>4. PICK c \in 1..Len(bodies) + 1 : Pending(io, c) /\ Serving(x, c)
    BY <1>1, <1>3 DEF OfServer
<1>5. HasHead(io, c) /\ (io # <<>> => c \in 1..Len(bodies)) /\ c \in Nat \ {0}
    BY <1>2, <1>4, PendingHead, StartIs DEF Served
<1>6. /\ l < HeadLen => Parsed(io) = 0
      /\ l >= HeadLen => Parsed(io) = c
    BY <1>2, <1>5, ParsedIs
<1>7. ~Takes(x) /\ ~Takes(r)
    BY DEF Takes, Served
<1>8. DeliverChunk(x, quits) = x /\ DeliverChunk(r, quits) = r
    BY <1>7 DEF DeliverChunk
\* The loop stops.
<1>9. ASSUME io # <<>> => ~Reaches(c, http.rcvd) PROVE OfServer(r)
  <2>1. /\ Shape(r) /\ r.conn = x.conn /\ r.user = x.user /\ r.heard = x.heard
        /\ r.http = [x.http EXCEPT !.parsing = FALSE]
    BY <1>1, <1>2, RestIs
  <2>2. r.http.io = x.http.io /\ r.http.rcvd = x.http.rcvd /\ r.http.parsing = FALSE
    BY <1>2, <2>1 DEF Shape
  <2> HIDE DEF r, x
  <2>3. ServerTypes(r)
    BY <1>2, <2>1, <2>2 DEF ServerTypes
  <2>4. Serving(r, c)
    BY <1>1, <1>4, <1>9, <2>1, <2>2 DEF Serving
  <2>5. Pending(r.http.io, c) /\ r.conn.at # "closed"
    BY <1>1, <1>3, <1>4, <2>1, <2>2
  <2>6. QED
    BY <1>4, <2>3, <2>4, <2>5 DEF OfServer
<1>10. CASE l < HeadLen
  <2>1. Become(r)
    BY <1>6, <1>10, RoundIs
  <2>2. ASSUME io # <<>> PROVE ~Reaches(c, http.rcvd)
    <3>1. MessageLen(c) \in Nat /\ MessageLen(c) >= HeadLen
        BY <1>5, <2>2, StartIs DEF Served
    <3>2. http.rcvd = l
        BY <1>1, <1>4 DEF Serving
    <3> HIDE DEF l
    <3>3. ~(MessageLen(c) <= l)
        BY <1>2, <1>10, <3>1
    <3>4. QED
        BY <3>2, <3>3 DEF Reaches
  <2>3. QED
    BY <1>9, <2>1, <2>2
<1>11. CASE l >= HeadLen /\ ~Reaches(c, http.rcvd)
  <2>1. Become(r)
  <3>1. Parsed(io) = c /\ c > 0
        BY <1>5, <1>6, <1>11
  <3>2. Become(DeliverChunk(Rest, quits))
        BY <1>11, <3>1, RoundIs
  <3>3. QED
        BY <1>8, <3>2
  <2>2. QED
    BY <1>9, <1>11, <2>1
\* The message is there whole.
<1>12. CASE l >= HeadLen /\ Reaches(c, http.rcvd)
  <2> DEFINE t == DeliverMessage(x, c, l - HeadLen)
             y == MessageDone(t, c)
             e == Removed(io, MessageLen(c))
  <2>1. Become(y)
    <3>1. Parsed(io) = c /\ c > 0
        BY <1>5, <1>6, <1>12
    <3>2. Become(MessageDone(DeliverMessage(DeliverChunk(Current, quits), Parsed(http.io),
                                            Len(http.io) - HeadLen), Parsed(http.io)))
        BY <1>12, <3>1, RoundIs
    <3>3. QED
        BY <1>8, <3>1, <3>2
  <2>2. c \in 1..Len(bodies)
    <3>1. io # <<>>
        BY <1>2, <1>12
    <3>2. QED
        BY <1>5, <3>1
  <2>3. http.rcvd = l /\ MessageLen(c) <= l /\ l - HeadLen \in Nat
    <3>1. http.rcvd = l
        BY <1>1, <1>4 DEF Serving
    <3>2. QED
        BY <1>2, <1>12, <3>1 DEF Reaches
  <2>4. /\ ServerTypes(t) /\ t.conn.at = x.conn.at /\ t.http = x.http
        /\ Len(t.heard.requests) = c
        /\ \A i \in 1..c : t.heard.requests[i].msg = i
        /\ \A i \in 1..c : i # c => t.heard.requests[i].size >= bodies[i].len
        /\ t.heard.requests[c].size = l - HeadLen
    <3> HIDE DEF x, l
    <3>1. QED
        BY <1>2, <1>4, <2>2, <2>3, NextTold
  <2> HIDE DEF t
  <2>5. /\ Shape(y) /\ y.conn = t.conn /\ y.user = t.user /\ y.heard = t.heard
        /\ y.http = [io |-> Removed(t.http.io, MessageLen(c)),
                     rcvd |-> t.http.rcvd - MessageLen(c),
                     parsing |-> Removed(t.http.io, MessageLen(c)) # <<>>]
    BY <2>4, MessageGone DEF ServerTypes
  <2>6. e \in Seq(Bytes) /\ Pending(e, c + 1) /\ Len(e) = l - MessageLen(c)
    BY <1>2, <1>4, <2>2, <2>3, PendingGone
  <2>7. /\ y.http.io = e /\ y.http.rcvd = Len(e) /\ y.http.parsing = (e # <<>>)
    BY <1>1, <2>3, <2>4, <2>5, <2>6
  <2> HIDE DEF y, e
  <2>8. ServerTypes(y)
    BY <2>4, <2>5, <2>6, <2>7 DEF ServerTypes
  <2>9. t.heard.requests[c].size >= bodies[c].len
    <3>1. bodies[c].len \in Nat /\ MessageLen(c) = HeadLen + bodies[c].len
        BY <2>2, BodyLength
    <3> DEFINE b == bodies[c].len
    <3> HIDE DEF b, l
    <3>2. l - HeadLen >= b
        BY <1>2, <2>3, <3>1 DEF b
    <3>3. QED
        BY <2>4, <3>2 DEF b
  <2>10. Serving(y, c + 1)
    <3>1. Len(y.heard.requests) = c + 1 - 1
        BY <1>5, <2>4, <2>5
    <3>2. \A i \in 1..c : t.heard.requests[i].size >= bodies[i].len
        BY <2>4, <2>9
    <3>3. \A i \in 1..Len(y.heard.requests) :
              y.heard.requests[i].msg = i /\ y.heard.requests[i].size >= bodies[i].len
        BY <2>4, <2>5, <3>2
    <3>4. y.http.parsing = FALSE => y.http.io = <<>>
        BY <2>7
    <3>5. y.http.rcvd = Len(y.http.io)
        BY <2>7
    <3>6. QED
        BY <3>1, <3>3, <3>4, <3>5 DEF Serving
  <2>11. c + 1 \in 1..Len(bodies) + 1 /\ y.conn.at # "closed"
    BY <1>1, <1>3, <2>4, <2>5, <2>6 DEF Pending
  <2>12. OfServer(y)
    BY <2>6, <2>7, <2>8, <2>10, <2>11 DEF OfServer
  <2>13. QED
    BY <2>1, <2>12
<1>13. QED
    BY <1>2, <1>10, <1>11, <1>12

\* The close.
LEMMA CloseOfServer ==
    ASSUME Served, OfServer(Current), NEW quits \in BOOLEAN, CloseConn(quits)
    PROVE  \E y : Become(y) /\ OfServer(y)
PROOF
<1> DEFINE x == Current
           io == http.io
           l  == Len(io)
           t  == Told(x, quits)
           y  == Ended(t)
<1>1. x.conn = conn /\ x.http = http /\ x.user = user /\ x.heard = heard
    BY DEF Current
<1>2. /\ ServerTypes(x) /\ Shape(x) /\ io \in Seq(Bytes) /\ l \in Nat
      /\ HeadLen \in Nat \ {0}
    BY <1>1, ConnAssumption DEF OfServer, ServerTypes
<1>3. http.parsing = FALSE /\ conn.at = "open"
    BY <1>1, <1>2 DEF CloseConn, ServerTypes
<1>4. PICK c \in 1..Len(bodies) + 1 : Pending(io, c) /\ Serving(x, c)
    BY <1>1, <1>3 DEF OfServer
<1>5. HasHead(io, c) /\ (io # <<>> => c \in 1..Len(bodies)) /\ c \in Nat \ {0}
    BY <1>2, <1>4, PendingHead, StartIs DEF Served
<1>6. /\ l < HeadLen => Parsed(io) = 0
      /\ l >= HeadLen => Parsed(io) = c
    BY <1>2, <1>5, ParsedIs
<1>7. DeliverChunk(x, quits) = x
    BY DEF DeliverChunk, Takes, Served
<1>8. /\ ServerTypes(t) /\ t.http = http
      /\ \A i \in 1..Len(t.heard.requests) :
            /\ t.heard.requests[i].msg = i
            /\ t.heard.requests[i].size >= bodies[i].len \/ i = Len(t.heard.requests)
  <2>1. CASE l < HeadLen
    <3>1. t = x
        BY <1>1, <1>6, <2>1 DEF Told
    <3>2. \A i \in 1..Len(x.heard.requests) :
              x.heard.requests[i].msg = i /\ x.heard.requests[i].size >= bodies[i].len
        BY <1>4 DEF Serving
    <3> HIDE DEF x, t
    <3>3. QED
        BY <1>1, <1>2, <3>1, <3>2
  <2>2. CASE l >= HeadLen
    <3>1. t = DeliverMessage(x, c, l - HeadLen)
        BY <1>1, <1>5, <1>6, <1>7, <2>2 DEF Told
    <3>2. c \in 1..Len(bodies) /\ l - HeadLen \in Nat
        BY <1>2, <1>5, <2>2
    <3> HIDE DEF x, t, l
    <3>3. /\ ServerTypes(t) /\ t.http = x.http
          /\ Len(t.heard.requests) = c
          /\ \A i \in 1..c : t.heard.requests[i].msg = i
          /\ \A i \in 1..c : i # c => t.heard.requests[i].size >= bodies[i].len
        BY <1>2, <1>4, <3>1, <3>2, NextTold
    <3>4. QED
        BY <1>1, <3>3
  <2>3. QED
    BY <1>2, <2>1, <2>2
<1>9. Become(y)
    BY CloseIs
<1> HIDE DEF t, x
<1>10. /\ Shape(y) /\ y.conn.at = "closed"
       /\ y.http.io = t.http.io /\ y.http.rcvd = 0 /\ y.http.parsing = t.http.parsing
       /\ y.user = t.user /\ y.heard.requests = t.heard.requests
    BY <1>8, EndedIs DEF ServerTypes
<1> HIDE DEF y
<1>11. ServerTypes(y)
    BY <1>8, <1>10 DEF ServerTypes
<1>12. ServedOut(y)
    BY <1>3, <1>8, <1>10 DEF ServedOut
<1>13. Pending(y.http.io, c)
    BY <1>4, <1>8, <1>10
<1>14. OfServer(y)
    BY <1>4, <1>10, <1>11, <1>12, <1>13 DEF OfServer
<1>15. QED
    BY <1>9, <1>14

\* Nothing comes in: what is true of the records is true of them afterwards.
LEMMA ServedLater ==
    ASSUME Served, OfServer(Current'), UNCHANGED <<side, bodies, arrived>>
    PROVE  Served' /\ OfServer(Current)'
PROOF
<1>1. Wire' = Wire /\ Bytes' = Bytes /\ \A m : Start(m)' = Start(m)
    BY DEF Wire, Bytes, Start, AreStarts, Byte, MessageLen
<1>2. ServerTypes(Current)' <=> ServerTypes(Current')
    BY <1>1 DEF ServerTypes, Shape
<1>3. ServedOut(Current)' <=> ServedOut(Current')
    BY DEF ServedOut
<1>4. ASSUME NEW c
      PROVE  /\ Pending(http.io, c)' <=> Pending(http'.io, c)
             /\ Serving(Current, c)' <=> Serving(Current', c)
    BY <1>1 DEF Pending, Serving, Reaches, MessageLen
<1>5. Current'.http = http'
    BY CurrentIs
<1>6. OfServer(Current)'
    BY <1>2, <1>3, <1>4, <1>5 DEF OfServer
<1>7. Served'
    BY <1>1 DEF Served
<1>8. QED
    BY <1>6, <1>7

\* The flags of the connection.
LEMMA ServerFlags ==
    ASSUME Served, OfServer(Current), conn' \in ConnRecords, conn'.at = conn.at,
           UNCHANGED <<side, bodies, arrived, http, heard, user>>
    PROVE  Served' /\ OfServer(Current)'
PROOF
<1> DEFINE x == Current
           y == Current'
<1>1. /\ x.conn = conn /\ x.http = http /\ x.user = user /\ x.heard = heard
      /\ y.conn = conn' /\ y.http = x.http /\ y.user = x.user /\ y.heard = x.heard
      /\ y = [conn |-> conn', http |-> x.http, user |-> x.user, heard |-> x.heard]
    BY CurrentIs
<1> SUFFICES OfServer(y)
    BY ServedLater
<1> HIDE DEF x, y
<1>2. ServerTypes(x) /\ Shape(x)
    BY DEF OfServer, ServerTypes, x
<1>3. Shape(y)
    BY <1>1, <1>2 DEF Shape
<1>4. ServerTypes(y)
    BY <1>1, <1>2, <1>3 DEF ServerTypes
<1>5. ServedOut(x) <=> ServedOut(y)
    BY <1>1 DEF ServedOut
<1>6. \A c : Serving(x, c) <=> Serving(y, c)
    BY <1>1 DEF Serving
<1>7. QED
    BY <1>1, <1>4, <1>5, <1>6 DEF OfServer, x

\* Recv, on the side of the server.
LEMMA ServerReceives ==
    ASSUME Served, OfServer(Current), NEW n \in 1..MaxIO, Recv(n)
    PROVE  Served' /\ OfServer(Current)'
PROOF
<1> DEFINE x == Current
           y == Current'
           w == Wire
           s == SubSeq(Wire, arrived + 1, arrived + n)
           l == Len(http.io)
           a == arrived
           b == arrived + n
           io == http.io \o s
<1>1. /\ x.conn = conn /\ x.http = http /\ x.user = user /\ x.heard = heard
      /\ y.conn = conn /\ y.http = http' /\ y.user = user /\ y.heard = heard
      /\ y = [conn |-> conn, http |-> http', user |-> user, heard |-> heard]
    BY CurrentIs DEF Recv
<1>2. ServerTypes(x) /\ conn.at = "open" /\ Shape(x)
    BY <1>1 DEF OfServer, Recv, ServerTypes
<1>3. PICK c \in 1..Len(bodies) + 1 : Pending(http.io, c) /\ Serving(x, c)
    BY <1>1, <1>2 DEF OfServer
<1>4. /\ n \in Nat \ {0} /\ a \in Nat /\ b = a + n /\ b <= Len(w) /\ arrived' = b
      /\ Len(w) \in Nat /\ w \in Seq(Bytes) /\ b \in Nat
    BY StartIs, ConnAssumption DEF Recv, Served
<1>5. /\ Start(c) \in Nat /\ Start(c) <= a /\ l = a - Start(c)
      /\ \A k \in 1..l : http.io[k] = w[Start(c) + k]
    BY <1>3, StartIs DEF Pending, Served
<1>6. /\ s \in Seq(Bytes) /\ Len(s) = n /\ \A k \in 1..n : s[k] = w[a + k]
  <2>1. s = SubSeq(w, a + 1, b)
    OBVIOUS
  <2> HIDE DEF w, a, b, s
  <2>2. QED
    BY <1>4, <2>1
<1>7. l \in Nat /\ http.io \in Seq(Bytes) /\ http.rcvd = l
    BY <1>1, <1>2, <1>3 DEF ServerTypes, Serving
<1>8. /\ io \in Seq(Bytes) /\ Len(io) = l + n
      /\ \A k \in 1..l + n : io[k] = IF k <= l THEN http.io[k] ELSE s[k - l]
  <2> DEFINE f == http.io
  <2> HIDE DEF s, f
  <2>1. f \in Seq(Bytes) /\ s \in Seq(Bytes) /\ Len(s) = n
    BY <1>6, <1>7 DEF f
  <2>2. /\ f \o s \in Seq(Bytes) /\ Len(f \o s) = Len(f) + Len(s)
        /\ \A k \in 1..Len(f) + Len(s) :
              (f \o s)[k] = IF k <= Len(f) THEN f[k] ELSE s[k - Len(f)]
    BY <2>1, ConcatProperties
  <2>3. QED
    BY <2>1, <2>2 DEF f
<1>9. http' = [io |-> io, rcvd |-> http.rcvd + n, parsing |-> TRUE]
    BY DEF Recv
<1>10. http'.io = io /\ http'.rcvd = l + n /\ http'.parsing = TRUE
    BY <1>7, <1>9
<1>11. \A k \in 1..l + n : io[k] = w[Start(c) + k]
  <2>1. ASSUME NEW k \in 1..l + n PROVE io[k] = w[Start(c) + k]
    <3>1. CASE k <= l
      <4>1. k \in 1..l
        BY <1>7, <3>1
      <4>2. QED
        BY <1>5, <1>8, <3>1, <4>1
    <3>2. CASE ~(k <= l)
      <4> HIDE DEF l, io, s, a, b, w
      <4>1. k - l \in 1..n /\ a + (k - l) = Start(c) + k
        BY SMTT(30), <1>4, <1>5, <1>7, <3>2
      <4>2. io[k] = s[k - l] /\ s[k - l] = w[a + (k - l)]
        BY <1>6, <1>8, <3>2, <4>1
      <4>3. QED
        BY <4>1, <4>2
    <3>3. QED
        BY <3>1, <3>2
  <2>2. QED
    BY <2>1
<1>12. Start(c) <= b /\ l + n = b - Start(c) /\ b \in 0..Len(w)
  <2> HIDE DEF l, io, a, b, w
  <2>1. QED
    BY <1>4, <1>5, <1>7
<1>13. /\ side' = side /\ bodies' = bodies /\ w' = w /\ Bytes' = Bytes
       /\ Start(c)' = Start(c)
  <2>1. side' = side /\ bodies' = bodies
    BY DEF Recv
  <2>2. QED
    BY <2>1 DEF Wire, Bytes, Start, AreStarts, Byte, MessageLen
<1>14. Served'
  <2>1. side' = side /\ bodies' = bodies /\ Wire' = Wire /\ arrived' \in 0..Len(Wire)
    BY <1>4, <1>12, <1>13
  <2>2. QED
    BY <2>1 DEF Served
<1>15. Pending(http.io, c)'
  <2>1. /\ Len(http'.io) = l + n /\ Start(c) <= arrived' /\ l + n = arrived' - Start(c)
        /\ \A k \in 1..l + n : http'.io[k] = Wire[Start(c) + k]
    BY <1>4, <1>8, <1>10, <1>11, <1>12
  <2>2. Wire' = Wire /\ Start(c)' = Start(c) /\ bodies' = bodies
    BY <1>13
  <2> HIDE DEF l
  <2>3. QED
    BY <1>3, <2>1, <2>2 DEF Pending
<1> HIDE DEF io, s, l
<1>16. Shape(y)
    BY <1>1, <1>2, <1>9, <1>10 DEF Shape
<1>17. ServerTypes(Current)'
  <2>1. /\ y.http.io \in Seq(Bytes) /\ y.http.parsing = TRUE
        /\ y.user = "listens" /\ y.conn.at = "open" /\ y.heard.requests \in Seq(Requests)
    BY <1>1, <1>2, <1>8, <1>10 DEF ServerTypes
  <2> HIDE DEF y
  <2>2. QED
    BY <1>13, <1>16, <2>1 DEF ServerTypes, Shape, y
<1>18. Serving(Current, c)'
  <2>1. /\ y.http.rcvd = Len(y.http.io) /\ Len(y.heard.requests) = c - 1
        /\ y.http.parsing = TRUE
        /\ \A i \in 1..Len(y.heard.requests) :
              y.heard.requests[i].msg = i /\ y.heard.requests[i].size >= bodies[i].len
    BY <1>1, <1>3, <1>8, <1>10 DEF Serving
  <2> HIDE DEF y
  <2>2. QED
    BY <1>13, <2>1 DEF Serving, y
<1>19. OfServer(Current)'
  <2>1. y.conn.at = "open" /\ y.http = http'
    BY <1>1, <1>2
  <2> HIDE DEF y
  <2>2. QED
    BY <1>3, <1>13, <1>15, <1>17, <1>18, <2>1 DEF OfServer, y
<1>20. QED
    BY <1>14, <1>19

\* What a round or the close makes.
LEMMA ServerBecomes ==
    ASSUME Served, NEW y, Become(y), OfServer(y), UNCHANGED <<side, bodies, arrived>>
    PROVE  Served' /\ OfServer(Current)'
PROOF
<1>1. Current' = y
    BY BecomeIs DEF OfServer, ServerTypes
<1>2. QED
    BY <1>1, ServedLater

\* Every step keeps what holds for the server.
LEMMA ServerNext ==
    ASSUME Served, Resolving, OfServer(Current), [Next]_vars
    PROVE  Served' /\ OfServer(Current)'
PROOF
<1>0. conn \in ConnRecords /\ conn.at \in {"open", "closed"} /\ ~dns.asked
    BY DEF Resolving, OfServer, ServerTypes, Current
<1>1. ASSUME UNCHANGED <<side, bodies, arrived, http, heard, user>>, conn' \in ConnRecords,
             conn'.at = conn.at
      PROVE  Served' /\ OfServer(Current)'
    BY <1>1, ServerFlags
<1>2. ASSUME UNCHANGED <<side, bodies, arrived, http, heard, user, conn>>
      PROVE  Served' /\ OfServer(Current)'
    BY <1>0, <1>1, <1>2
<1>3. CASE DnsQuiet \/ DnsDue \/ (\E ok \in BOOLEAN : DnsConnect(ok) \/ DnsSend(ok))
    BY <1>2, <1>3 DEF DnsQuiet, DnsDue, DnsConnect, DnsSend
<1>4. CASE DnsClose
    BY <1>0, <1>2, <1>4 DEF DnsClose
<1>5. ASSUME NEW found \in {"address", "other", "nothing"}, DnsRecv(found)
      PROVE  FALSE
    BY <1>0, <1>5 DEF DnsRecv, DnsTurn, Resolving, DnsSound
<1>6. ASSUME NEW ok \in BOOLEAN, ConnectDone(ok) PROVE FALSE
    BY <1>0, <1>6 DEF ConnectDone
<1>7. ASSUME NEW ok \in BOOLEAN, Send(ok) PROVE Served' /\ OfServer(Current)'
  <2>1. /\ conn' = [conn EXCEPT !.out = IF ok THEN FALSE ELSE conn.out, !.doomed = ~ok]
        /\ UNCHANGED <<side, bodies, http, arrived, user, heard>>
    BY <1>7 DEF Send
  <2>2. conn' \in ConnRecords /\ conn'.at = conn.at
    BY <1>0, <2>1 DEF ConnRecords
  <2>3. QED
    BY <1>1, <2>1, <2>2
<1>8. CASE Eof
  <2>1. /\ conn' = [conn EXCEPT !.ending = TRUE]
        /\ UNCHANGED <<side, bodies, http, arrived, user, heard>>
    BY <1>8 DEF Eof
  <2>2. conn' \in ConnRecords /\ conn'.at = conn.at
    BY <1>0, <2>1 DEF ConnRecords
  <2>3. QED
    BY <1>1, <2>1, <2>2
<1>9. CASE RecvError \/ UserCloses
  <2>1. /\ conn' = [conn EXCEPT !.doomed = TRUE]
        /\ UNCHANGED <<side, bodies, http, arrived, user, heard>>
    BY <1>9 DEF RecvError, UserCloses, Served
  <2>2. conn' \in ConnRecords /\ conn'.at = conn.at
    BY <1>0, <2>1 DEF ConnRecords
  <2>3. QED
    BY <1>1, <2>1, <2>2
<1>10. ASSUME NEW n \in 1..MaxIO, Recv(n) PROVE Served' /\ OfServer(Current)'
    BY <1>10, ServerReceives
<1>11. ASSUME NEW quits \in BOOLEAN, Again(quits) PROVE Served' /\ OfServer(Current)'
  <2>1. UNCHANGED <<side, bodies, arrived>>
    BY <1>11 DEF Again
  <2>2. PICK y : Become(y) /\ OfServer(y)
    BY <1>11, RoundOfServer
  <2>3. QED
    BY <2>1, <2>2, ServerBecomes
<1>12. ASSUME NEW quits \in BOOLEAN, CloseConn(quits) PROVE Served' /\ OfServer(Current)'
  <2>1. UNCHANGED <<side, bodies, arrived>>
    BY <1>12 DEF CloseConn
  <2>2. PICK y : Become(y) /\ OfServer(y)
    BY <1>12, CloseOfServer
  <2>3. QED
    BY <2>1, <2>2, ServerBecomes
<1>13. CASE UNCHANGED vars
    BY <1>2, <1>13 DEF vars
<1>14. QED
    BY <1>3, <1>4, <1>5, <1>6, <1>7, <1>8, <1>9, <1>10, <1>11, <1>12, <1>13 DEF Next

-----------------------------------------------------------------------------
\* The inductive invariant.

Sound ==
    /\ Resolving
    /\ \/ Replied /\ OfClient(Current)
       \/ Served /\ OfServer(Current)

\* The invariant holds at the start.
LEMMA InitSound == Init => Sound
PROOF
<1> SUFFICES ASSUME Init PROVE Sound
    OBVIOUS
<1> DEFINE x == Current
<1>1. /\ x.conn = conn /\ x.http = http /\ x.user = user /\ x.heard = heard
      /\ x = [conn |-> conn, http |-> http, user |-> user, heard |-> heard]
    BY CurrentIs
<1>2. PICK at \in IF side = "client" THEN {"resolving", "connecting"} ELSE {"open"} :
        conn = [at |-> at, doomed |-> FALSE, ending |-> FALSE, out |-> side = "client"]
    BY DEF Init
<1>3. /\ http = [io |-> <<>>, rcvd |-> 0, parsing |-> FALSE]
      /\ heard = [events |-> <<>>, body |-> <<>>, requests |-> <<>>]
      /\ user = "listens" /\ arrived = 0 /\ bodies \in Peers /\ side \in {"client", "server"}
      /\ (side = "client" => Len(bodies) = 1)
    BY ConnAssumption DEF Init
<1>4. http.io = <<>> /\ http.rcvd = 0 /\ http.parsing = FALSE
    BY <1>3
<1>5. heard.events = <<>> /\ heard.body = <<>> /\ heard.requests = <<>>
    BY <1>3
<1>6. /\ conn \in ConnRecords /\ conn.at = at
  <2>1. (side = "client") \in BOOLEAN
    OBVIOUS
  <2>2. at \in {"resolving", "connecting", "open", "closed"}
    BY <1>2
  <2>3. QED
    BY <1>2, <2>1, <2>2 DEF ConnRecords
<1> HIDE DEF x
<1>7. Shape(x)
    BY <1>1, <1>3, <1>6 DEF Shape
<1>8. Len(Wire) \in Nat /\ arrived \in 0..Len(Wire) /\ Len(bodies) \in Nat
    BY <1>3, StartIs
<1>9. Len(<<>>) = 0 /\ (\A S : <<>> \in Seq(S)) /\ (\A k : k \notin 1..0)
    OBVIOUS
<1>10. ASSUME side = "client" PROVE Replied /\ OfClient(x)
  <2>1. Replied
    BY <1>3, <1>8, <1>10 DEF Replied
  <2>2. HasHead(<<>>, 1)
    BY <1>9 DEF HasHead
  <2>3. PipeTypes(x)
    BY <1>1, <1>3, <1>4, <1>5, <1>7, <1>9, <2>2 DEF PipeTypes
  <2>4. Before(x) /\ conn.at \in {"resolving", "connecting"}
    BY <1>1, <1>2, <1>3, <1>4, <1>5, <1>6, <1>10 DEF Before
  <2>5. QED
    BY <1>1, <2>1, <2>3, <2>4 DEF OfClient
<1>11. ASSUME side = "server" PROVE Served /\ OfServer(x)
  <2>1. Served
    BY <1>3, <1>8, <1>11 DEF Served
  <2>2. conn.at = "open"
    BY <1>2, <1>6, <1>11
  <2>3. ServerTypes(x)
    BY <1>1, <1>3, <1>4, <1>5, <1>7, <1>9, <2>2 DEF ServerTypes
  <2>4. 1 \in 1..Len(bodies) + 1 /\ Start(1) = 0
    BY <1>3, <1>8, StartIs
  <2>5. Pending(x.http.io, 1)
    BY <1>1, <1>3, <1>4, <1>9, <2>4 DEF Pending
  <2>6. Serving(x, 1)
    BY <1>1, <1>4, <1>5, <1>9 DEF Serving
  <2>7. QED
    BY <1>1, <2>1, <2>2, <2>3, <2>4, <2>5, <2>6 DEF OfServer
<1>12. QED
    BY <1>3, <1>10, <1>11, InitResolving DEF Sound, x

\* A round leaves the connection where it is.
LEMMA RoundAt ==
    ASSUME Shape(Current), http.io \in Seq(Bytes), NEW quits \in BOOLEAN, Again(quits)
    PROVE  conn'.at = conn.at
PROOF
<1> DEFINE m == Parsed(http.io)
           d == DeliverChunk(Current, quits)
           t == DeliverMessage(d, m, Len(http.io) - HeadLen)
<1>1. Parsed(http.io) \in {-1, 0} \/ Parsed(http.io) > 0
  <2> DEFINE io == http.io
  <2>1. Len(io) >= HeadLen => io[1] \in Bytes
    BY ConnAssumption
  <2>2. Len(io) >= HeadLen => io[1].msg \in Nat /\ io[1].msg > 0
    BY <2>1 DEF Bytes
  <2> HIDE DEF io
  <2>3. Parsed(io) \in {-1, 0} \/ Parsed(io) > 0
    BY <2>2 DEF Parsed
  <2>4. QED
    BY <2>3 DEF io
<1>2. /\ Shape(Rest) /\ Rest.conn = conn /\ Cut.conn = [conn EXCEPT !.doomed = TRUE]
      /\ conn \in ConnRecords /\ Current.conn = conn
    BY RestIs, CurrentIs DEF Shape
<1>3. DeliverChunk(Rest, quits).conn.at = conn.at
    BY <1>2, HandlerShape
<1>4. MessageDone(t, m).conn.at = conn.at
  <2>1. Shape(d) /\ d.conn.at = conn.at
    BY <1>2, HandlerShape
  <2> HIDE DEF d, m
  <2>2. Shape(t) /\ t.conn.at = conn.at
    BY <2>1, HandlerShape
  <2> HIDE DEF t
  <2>3. QED
    BY <2>2, HandlerShape
<1>5. Cut.conn.at = conn.at
    BY <1>2 DEF ConnRecords
<1>6. QED
    BY <1>1, <1>2, <1>3, <1>4, <1>5, RoundIs DEF Become

\* The connection's own steps keep it and the resolver apart.
LEMMA ResolvingNext ==
    ASSUME Resolving, Shape(Current), http.io \in Seq(Bytes), Shape(Current)', [Next]_vars
    PROVE  Resolving'
PROOF
<1>0. conn' \in ConnRecords /\ conn \in ConnRecords
    BY CurrentIs DEF Shape, Resolving
<1>1. CASE DnsQuiet
  <2>1. /\ DnsSound(dns) /\ dns.conn \in {"connecting", "open"} /\ ~dns.doomed
        /\ dns' = Polled(dns) /\ UNCHANGED conn
    BY <1>1 DEF DnsQuiet, DnsTurn, Resolving
  <2>2. DnsSound(Polled(dns)) /\ Polled(dns).asked = dns.asked
    BY <2>1, PolledSound
  <2>3. QED
    BY <2>1, <2>2, DnsOnly
<1>2. CASE DnsDue
    BY <1>2, ResolvingDnsDue
<1>3. CASE DnsClose
    BY <1>3, ResolvingDnsClose
<1>4. ASSUME NEW ok \in BOOLEAN, DnsConnect(ok) \/ DnsSend(ok) PROVE Resolving'
    BY <1>4, ResolvingDnsConnect, ResolvingDnsSend
<1>5. ASSUME NEW found \in {"address", "other", "nothing"}, DnsRecv(found) PROVE Resolving'
    BY <1>5, ResolvingDnsRecv
<1>6. ASSUME NEW ok \in BOOLEAN, ConnectDone(ok) PROVE Resolving'
  <2>1. conn.at = "connecting" /\ conn'.at = "open" /\ UNCHANGED dns
    BY <1>0, <1>6 DEF ConnectDone, ConnRecords
  <2>2. QED
    BY <1>0, <2>1, ConnOnly
<1>7. ASSUME NEW ok \in BOOLEAN, Send(ok) PROVE Resolving'
  <2>1. conn'.at = conn.at /\ UNCHANGED dns
    BY <1>0, <1>7 DEF Send, ConnRecords
  <2>2. QED
    BY <1>0, <2>1, ConnOnly
<1>8. CASE Eof \/ RecvError \/ UserCloses
  <2>1. conn'.at = conn.at /\ UNCHANGED dns
    BY <1>0, <1>8 DEF Eof, RecvError, UserCloses, ConnRecords
  <2>2. QED
    BY <1>0, <2>1, ConnOnly
<1>9. ASSUME NEW n \in 1..MaxIO, Recv(n) PROVE Resolving'
  <2>1. UNCHANGED <<conn, dns>>
    BY <1>9 DEF Recv
  <2>2. QED
    BY <1>0, <2>1, ConnOnly
<1>10. ASSUME NEW quits \in BOOLEAN, Again(quits) PROVE Resolving'
  <2>1. conn'.at = conn.at
    BY <1>10, RoundAt
  <2>2. UNCHANGED dns
    BY <1>10 DEF Again
  <2>3. QED
    BY <1>0, <2>1, <2>2, ConnOnly
<1>11. ASSUME NEW quits \in BOOLEAN, CloseConn(quits) PROVE Resolving'
  <2>1. Become(Ended(Told(Current, quits))) /\ Shape(Told(Current, quits))
    BY <1>11, CloseIs, ToldShape
  <2>2. conn'.at = "closed"
    BY <2>1, EndedIs DEF Become
  <2>3. UNCHANGED dns /\ conn.at # "resolving"
    BY <1>11 DEF CloseConn
  <2>4. QED
    BY <1>0, <2>2, <2>3, ConnOnly
<1>12. CASE UNCHANGED vars
  <2>1. UNCHANGED <<conn, dns>>
    BY <1>12 DEF vars
  <2>2. QED
    BY <1>0, <2>1, ConnOnly
<1>13. QED
    BY <1>1, <1>2, <1>3, <1>4, <1>5, <1>6, <1>7, <1>8, <1>9, <1>10, <1>11, <1>12 DEF Next

\* The invariant is inductive, and the steps of a pipe are classified.
LEMMA SoundNext ==
    ASSUME Sound, [Next]_vars
    PROVE  Sound' /\ (side = "client" => PipeStep(Current, Current'))
PROOF
<1>1. CASE Replied /\ OfClient(Current)
  <2>1. Replied' /\ OfClient(Current)' /\ PipeStep(Current, Current')
    BY <1>1, PipeNext DEF Sound
  <2>2. Shape(Current) /\ http.io \in Seq(Bytes) /\ Shape(Current)'
    BY <1>1, <2>1, CurrentIs DEF OfClient, PipeTypes
  <2>3. QED
    BY <1>1, <2>1, <2>2, ResolvingNext DEF Sound
<1>2. CASE Served /\ OfServer(Current)
  <2>1. Served' /\ OfServer(Current)'
    BY <1>2, ServerNext DEF Sound
  <2>2. Shape(Current) /\ http.io \in Seq(Bytes) /\ Shape(Current)'
    BY <1>2, <2>1, CurrentIs DEF OfServer, ServerTypes
  <2>3. QED
    BY <1>2, <2>1, <2>2, ResolvingNext DEF Sound, Served
<1>3. QED
    BY <1>1, <1>2 DEF Sound

\* The resolver calls back once, frees its request then, and sends no more
\* queries than it may.
LEMMA SoundResolves == Sound => ResolvesOnce
PROOF
<1> SUFFICES ASSUME Sound PROVE ResolvesOnce
    OBVIOUS
<1>1. Resolving
    BY DEF Sound
<1>2. QED
    BY <1>1 DEF Resolving, DnsSound, MaxSent, ResolvesOnce

\* What the invariant says of the types.
LEMMA SoundTypes == Sound => TypeOK
PROOF
<1> SUFFICES ASSUME Sound PROVE TypeOK
    OBVIOUS
<1> DEFINE w == Len(Wire)
           x == Current
<1>1. Resolving
    BY DEF Sound
<1>2. dns \in [conn : {"none", "connecting", "open", "gone"}, doomed : BOOLEAN,
               retries : 0..MaxRetries + 1, due : BOOLEAN, queued : BOOLEAN,
               asked : BOOLEAN, sent : 0..MaxRetries + 1, calls : Nat]
  <2>1. dns \in DnsRecords /\ dns.retries <= MaxRetries + 1 /\ dns.sent <= MaxSent
    BY <1>1 DEF Resolving, DnsSound
  <2>2. MaxSent <= MaxRetries + 1 /\ MaxRetries \in Nat /\ MaxSent \in Nat
    BY ConnAssumption DEF MaxSent
  <2>3. dns.retries \in Nat /\ dns.sent \in Nat
    BY <2>1 DEF DnsRecords
  <2>4. dns.retries \in 0..MaxRetries + 1 /\ dns.sent \in 0..MaxRetries + 1
    BY <2>1, <2>2, <2>3
  <2>5. QED
    BY <2>1, <2>4 DEF DnsRecords
<1>3. x.conn = conn /\ x.http = http /\ x.user = user /\ x.heard = heard
    BY CurrentIs
<1>4. conn \in ConnRecords
    BY <1>1 DEF Resolving
<1>5. ASSUME NEW m \in Nat \ {0}, http.io \in Seq(Bytes), HasHead(http.io, m)
      PROVE  Parsed(http.io) # -1
  <2>1. Len(http.io) \in Nat /\ HeadLen \in Nat
    BY <1>5, ConnAssumption
  <2>2. QED
    BY <1>5, <2>1, ParsedIs
<1>6. CASE Replied /\ OfClient(Current)
  <2>1. PipeTypes(x)
    BY <1>6 DEF OfClient
  <2>2. arrived \in 0..w /\ w \in Nat
    BY <1>6, ReplyWire DEF Replied
  <2>3. http.io \in Seq(Bytes) /\ http.rcvd \in 0..w /\ HasHead(http.io, 1)
    BY <1>3, <2>1, <2>2 DEF PipeTypes
  <2>4. user \in {"listens", "quit", "told"} /\ (user # "listens" => conn.doomed)
    BY <1>3, <2>1 DEF PipeTypes
  <2>5. Parsed(http.io) # -1
    BY <1>5, <2>3
  <2> HIDE DEF x
  <2>6. QED
    BY <1>2, <1>4, <2>2, <2>3, <2>4, <2>5 DEF TypeOK, ConnRecords
<1>7. CASE Served /\ OfServer(Current)
  <2>1. ServerTypes(x)
    BY <1>7 DEF OfServer
  <2>2. arrived \in 0..w /\ w \in Nat /\ Len(bodies) \in Nat
    BY <1>7, StartIs DEF Served
  <2>3. http.io \in Seq(Bytes) /\ user = "listens" /\ conn.at \in {"open", "closed"}
    BY <1>3, <2>1 DEF ServerTypes
  <2>4. PICK c \in 1..Len(bodies) + 1 :
            Pending(http.io, c) /\ (conn.at = "open" => Serving(x, c))
    BY <1>3, <1>7 DEF OfServer
  <2>5. Parsed(http.io) # -1
    <3>1. HasHead(http.io, c) /\ c \in Nat \ {0}
        BY <1>7, <2>2, <2>3, <2>4, PendingHead
    <3>2. QED
        BY <1>5, <2>3, <3>1
  <2>6. http.rcvd \in 0..w
    <3>1. CASE conn.at = "closed"
        BY <1>3, <1>7, <2>2, <3>1 DEF OfServer, ServedOut
    <3>2. CASE conn.at = "open"
      <4>1. http.rcvd = Len(http.io) /\ Len(http.io) \in Nat
        BY <1>3, <2>3, <2>4, <3>2 DEF Serving
      <4>2. Start(c) \in Nat /\ Len(http.io) = arrived - Start(c)
        BY <1>7, <2>4, StartIs DEF Pending, Served
      <4> DEFINE l == Len(http.io)
      <4> HIDE DEF l, w
      <4>3. l \in 0..w
        BY <2>2, <4>1, <4>2 DEF l
      <4>4. QED
        BY <4>1, <4>3 DEF l
    <3>3. QED
        BY <2>3, <3>1, <3>2
  <2> HIDE DEF x
  <2>7. QED
    BY <1>2, <1>4, <2>2, <2>3, <2>5, <2>6 DEF TypeOK, ConnRecords
<1>8. QED
    BY <1>6, <1>7 DEF Sound

\* What the invariant says of the order of requests.
LEMMA SoundOrder == Sound => MessagesInOrder
PROOF
<1> SUFFICES ASSUME Sound PROVE MessagesInOrder
    OBVIOUS
<1> DEFINE x == Current
<1>3. x.conn = conn /\ x.http = http /\ x.user = user /\ x.heard = heard
    BY CurrentIs
<1>4. conn \in ConnRecords
    BY DEF Sound, Resolving
<1>5. /\ "connected" \in ToSet(<<"connected">>)
      /\ "connected" \in ToSet(<<"connected", "end">>)
      /\ "connected" \in ToSet(<<"connected", "close">>)
      /\ "connected" \in ToSet(<<"connected", "end", "close">>)
    BY DEF ToSet
<1>6. CASE Replied /\ OfClient(Current)
  <2>1. HeadLen \in Nat \ {0} /\ arrived \in Nat
    BY <1>6, ReplyWire
  <2>2. conn.at \in {"resolving", "connecting", "open", "closed"}
    BY <1>4 DEF ConnRecords
  <2>3. CASE conn.at \in {"resolving", "connecting"}
    BY <1>3, <1>6, <2>3 DEF OfClient, Before, EventsInOrder, MessagesInOrder, Replied
  <2>4. CASE conn.at = "open"
    BY <1>3, <1>5, <1>6, <2>4 DEF OfClient, During, EventsInOrder, MessagesInOrder, Replied
  <2>5. CASE conn.at = "closed"
    BY <1>3, <1>5, <1>6, <2>1, <2>5 DEF OfClient, After, EventsInOrder, MessagesInOrder,
        Replied
  <2>6. QED
    BY <2>2, <2>3, <2>4, <2>5
<1>7. CASE Served /\ OfServer(Current)
  <2>1. PICK c \in 1..Len(bodies) + 1 : conn.at = "open" => Serving(x, c)
    BY <1>3, <1>7 DEF OfServer
  <2>2. conn.at \in {"open", "closed"} /\ (conn.at = "closed" => ServedOut(x))
    BY <1>3, <1>7 DEF OfServer, ServerTypes
  <2>3. RequestsInOrder
    BY <1>3, <2>1, <2>2 DEF Serving, ServedOut, RequestsInOrder
  <2>4. QED
    BY <1>7, <2>3 DEF MessagesInOrder, Served
<1>8. QED
    BY <1>6, <1>7 DEF Sound

\* What the invariant says of the bytes.
LEMMA SoundBytes == Sound => BytesAccounted
PROOF
<1> SUFFICES ASSUME Sound, ~http.parsing, conn.at = "open", ~conn.doomed
             PROVE  IF side = "client"
                    THEN http.io \o heard.body = SubSeq(Wire, 1, arrived)
                    ELSE /\ http.rcvd = Len(http.io)
                         /\ http.io = SubSeq(Wire, arrived - http.rcvd + 1, arrived)
                         /\ http.io # <<>> =>
                              http.io[1].at = 1 /\ ~Reaches(http.io[1].msg, http.rcvd)
    BY DEF BytesAccounted
<1> DEFINE x == Current
           w == Wire
           io == http.io
           bd == heard.body
           a  == arrived
           l == Len(io)
           g == Len(bd)
<1>1. x.conn = conn /\ x.http = http /\ x.user = user /\ x.heard = heard
    BY CurrentIs
<1>2. CASE Replied /\ OfClient(Current)
  <2>1. PipeTypes(x) /\ During(x)
    BY <1>1, <1>2 DEF OfClient
  <2>2. user = "listens" /\ http.parsing = FALSE
    BY <1>1, <2>1 DEF PipeTypes
  <2>3. /\ Carried(x) /\ l <= HeadLen
    BY <1>1, <2>1, <2>2 DEF During
  <2>4. /\ w \in Seq(Bytes) /\ Len(w) \in Nat /\ a \in Nat /\ a <= Len(w)
        /\ HeadLen \in Nat \ {0} /\ \A k \in 1..Len(w) : w[k] = Byte(1, k)
    BY <1>2, ReplyWire
  <2>5. io \in Seq(Bytes) /\ bd \in Seq(Bytes) /\ l \in Nat /\ g \in Nat
    BY <1>1, <2>1 DEF PipeTypes
  <2>6. /\ l = a - g /\ (bd # <<>> => HeadLen + g <= a)
        /\ \A k \in 1..l : io[k] = Byte(1, IF k <= HeadLen THEN k ELSE k + g)
        /\ \A k \in 1..g : bd[k] = Byte(1, HeadLen + k)
    BY <1>1, <2>3 DEF Carried
  <2>7. g # 0 => l = HeadLen
    <3>1. g # 0 => bd # <<>>
        BY <2>5
    <3> HIDE DEF l, g, a, bd
    <3>2. QED
        BY <2>3, <2>4, <2>5, <2>6, <3>1
  <2> DEFINE s == SubSeq(w, 1, a)
             r == io \o bd
  <2> HIDE DEF w, a, io, bd
  <2>8. s \in Seq(Bytes) /\ Len(s) = a /\ \A k \in 1..a : s[k] = w[k]
    BY <2>4
  <2>9. /\ r \in Seq(Bytes) /\ Len(r) = l + g
        /\ \A k \in 1..l + g : r[k] = IF k <= l THEN io[k] ELSE bd[k - l]
    BY <2>5, ConcatProperties
  <2> HIDE DEF s, r, l, g
  <2>10. ASSUME NEW k \in 1..a PROVE r[k] = s[k]
    <3>1. k \in 1..l + g /\ k \in 1..Len(w)
        BY <2>4, <2>5, <2>6
    <3>2. s[k] = Byte(1, k)
        BY <2>4, <2>8, <3>1
    <3>3. CASE k <= l
      <4>1. k \in 1..l /\ k <= HeadLen
        BY <2>3, <2>4, <2>5, <3>3
      <4>2. QED
        BY <2>6, <2>9, <3>1, <3>2, <3>3, <4>1
    <3>4. CASE ~(k <= l)
      <4>1. k - l \in 1..g /\ g # 0
        BY <2>4, <2>5, <2>6, <3>4
      <4>2. HeadLen + (k - l) = k
        BY <2>4, <2>5, <2>7, <4>1
      <4>3. r[k] = bd[k - l] /\ bd[k - l] = Byte(1, HeadLen + (k - l))
        BY <2>6, <2>9, <3>1, <3>4, <4>1
      <4>4. QED
        BY <3>2, <4>2, <4>3
    <3>5. QED
        BY <3>3, <3>4
  <2>11. Len(r) = Len(s)
    BY <2>4, <2>5, <2>6, <2>8, <2>9
  <2>12. r = s
    BY <2>8, <2>9, <2>10, <2>11, SeqEqual
  <2>13. QED
    BY <1>2, <2>12 DEF r, s, io, bd, w, a, Replied
<1>3. CASE Served /\ OfServer(Current)
  <2>1. ServerTypes(x)
    BY <1>3 DEF OfServer
  <2>2. PICK c \in 1..Len(bodies) + 1 : Pending(io, c) /\ Serving(x, c)
    BY <1>1, <1>3 DEF OfServer
  <2>3. /\ w \in Seq(Bytes) /\ Len(w) \in Nat /\ a \in 0..Len(w) /\ Start(c) \in 0..Len(w)
        /\ HeadLen \in Nat \ {0}
    BY <1>3, <2>2, StartIs, ConnAssumption DEF Served
  <2>4. io \in Seq(Bytes) /\ l \in Nat /\ http.parsing = FALSE
    BY <1>1, <2>1 DEF ServerTypes
  <2>5. /\ Start(c) <= a /\ l = a - Start(c) /\ \A k \in 1..l : io[k] = w[Start(c) + k]
    BY <2>2 DEF Pending
  <2>6. http.rcvd = l /\ (io # <<>> => ~Reaches(c, l))
    BY <1>1, <2>2, <2>4 DEF Serving
  <2>7. ASSUME io # <<>> PROVE io[1].at = 1 /\ io[1].msg = c
    <3>1. HasHead(io, c) /\ 1 \in 1..Len(io) /\ 1 <= HeadLen
        BY <1>3, <2>2, <2>3, <2>4, <2>7, PendingHead
    <3>2. io[1] = Byte(c, 1)
        BY <3>1 DEF HasHead
    <3>3. QED
        BY <3>2 DEF Byte
  <2> DEFINE b == Start(c)
             s == SubSeq(w, b + 1, a)
  <2> HIDE DEF b, w, a, io, l
  <2>8. /\ s \in Seq(Bytes) /\ Len(s) = a - b /\ \A k \in 1..a - b : s[k] = w[b + k]
    <3>1. b \in Nat /\ a \in Nat /\ b <= a /\ a <= Len(w)
        BY <2>3, <2>5 DEF b
    <3>2. QED
        BY <2>3, <3>1
  <2> HIDE DEF s
  <2>9. io = s
    <3>1. Len(io) = Len(s) /\ Len(io) = a - b
        BY <2>4, <2>5, <2>8 DEF b, l
    <3>2. \A k \in 1..Len(io) : io[k] = s[k]
        BY <2>5, <2>8, <3>1 DEF b, l
    <3>3. QED
        BY <2>4, <2>8, <3>1, <3>2, SeqEqual
  <2>10. a - http.rcvd = b
    BY <2>3, <2>4, <2>5, <2>6 DEF b
  <2>11. http.io = SubSeq(Wire, arrived - http.rcvd + 1, arrived)
    BY <2>9, <2>10 DEF s, w, a, io
  <2>12. http.io # <<>> => http.io[1].at = 1 /\ ~Reaches(http.io[1].msg, http.rcvd)
    BY <2>6, <2>7 DEF io
  <2>13. http.rcvd = Len(http.io)
    BY <2>6 DEF l, io
  <2>14. QED
    BY <1>3, <2>11, <2>12, <2>13 DEF Served
<1>4. QED
    BY <1>2, <1>3 DEF Sound

-----------------------------------------------------------------------------
\* What one who listens to the events sees of the connection.

PhaseOf(x) ==
    CASE x.conn.at = "closed" -> "gone"
      [] x.conn.at # "closed" /\ "connected" \in ToSet(x.heard.events) -> "open"
      [] OTHER -> "connecting"
Phase == OfPipe(PhaseOf(Current), "connecting")
Length == OfPipe(IF bodies[1].known THEN bodies[1].len ELSE Len(Wire), 0)
Given == OfPipe(Len(heard.body), 0)
IsTold == OfPipe(user = "told", FALSE)
IsClosing == OfPipe(user # "listens" \/ conn.at = "closed", FALSE)

Seen == <<Phase, Length, Given, IsTold, IsClosing>>

\* The steps of HttpEvents, of what is seen.
SeenStep ==
    \/ UNCHANGED Seen
    \/ /\ Phase = "connecting" /\ ~IsClosing /\ Phase' = "open"
       /\ UNCHANGED <<Length, Given, IsTold, IsClosing>>
    \/ /\ Phase # "gone" /\ IsClosing' = TRUE
       /\ UNCHANGED <<Phase, Length, Given, IsTold>>
    \/ /\ Phase = "open" /\ ~IsClosing
       /\ Given' - Given \in 0..Length - Given /\ Given' = Given + (Given' - Given)
       /\ \/ IsTold' = (Given' = Length) /\ IsClosing' = IsTold'
          \/ IsTold' = FALSE /\ IsClosing' = TRUE
       /\ UNCHANGED <<Phase, Length>>
    \/ /\ Phase # "gone" /\ Phase' = "gone"
       /\ \/ UNCHANGED IsTold
          \/ Phase = "open" /\ ~IsClosing /\ IsTold' = TRUE
       /\ IsClosing' = TRUE
       /\ UNCHANGED <<Length, Given>>

\* Every kind of step a pipe sees is one of HttpEvents, or none.
LEMMA SeenIs ==
    ASSUME SeenStep
    PROVE  [Events!Next]_(Events!vars)
PROOF
<1>0. CASE UNCHANGED Seen
    BY <1>0 DEF Seen, Events!vars, Phase, PhaseOf, Current, Length, Given, IsTold, IsClosing
<1>1. CASE /\ Phase = "connecting" /\ ~IsClosing /\ Phase' = "open"
           /\ UNCHANGED <<Length, Given, IsTold, IsClosing>>
  <2>1. Events!Connected
    BY <1>1 DEF Events!Connected, Phase, PhaseOf, Current, Length, Given, IsTold, IsClosing
  <2>2. QED
    BY <2>1 DEF Events!Next
<1>2. CASE /\ Phase # "gone" /\ IsClosing' = TRUE
           /\ UNCHANGED <<Phase, Length, Given, IsTold>>
  <2>1. Events!Closes
    BY <1>2 DEF Events!Closes, Phase, PhaseOf, Current, Length, Given, IsTold, IsClosing
  <2>2. QED
    BY <2>1 DEF Events!Next
<1>3. CASE /\ Phase = "open" /\ ~IsClosing
           /\ Given' - Given \in 0..Length - Given /\ Given' = Given + (Given' - Given)
           /\ \/ IsTold' = (Given' = Length) /\ IsClosing' = IsTold'
              \/ IsTold' = FALSE /\ IsClosing' = TRUE
           /\ UNCHANGED <<Phase, Length>>
  <2> DEFINE n == Given' - Given
  <2>1. Events!Arrives(n)
    BY <1>3 DEF Events!Arrives, Phase, PhaseOf, Current, Length, Given, IsTold, IsClosing
  <2>2. n \in 0..Length - Given
    BY <1>3
  <2> HIDE DEF n
  <2>3. QED
    BY <2>1, <2>2 DEF Events!Next, Length, Given
<1>4. CASE /\ Phase # "gone" /\ Phase' = "gone"
           /\ \/ UNCHANGED IsTold
              \/ Phase = "open" /\ ~IsClosing /\ IsTold' = TRUE
           /\ IsClosing' = TRUE
           /\ UNCHANGED <<Length, Given>>
  <2>1. Events!Gone
    BY <1>4 DEF Events!Gone, Phase, PhaseOf, Current, Length, Given, IsTold, IsClosing
  <2>2. QED
    BY <2>1 DEF Events!Next
<1>5. QED
    BY <1>0, <1>1, <1>2, <1>3, <1>4 DEF SeenStep

\* When a pipe has heard that it is connected.
LEMMA InToSet ==
    /\ "connected" \notin ToSet(<<>>) /\ "connected" \notin ToSet(<<"failed">>)
    /\ "connected" \in ToSet(<<"connected">>)
PROOF
    BY DEF ToSet

\* HttpConn starts where HttpEvents does.
LEMMA InitSeen == Init => Events!Init
PROOF
<1> SUFFICES ASSUME Init PROVE Events!Init
    OBVIOUS
<1>1. bodies \in Peers /\ user = "listens" /\ heard.events = <<>> /\ heard.body = <<>>
    BY DEF Init
<1>2. conn.at # "closed"
    BY DEF Init
<1>3. Phase = "connecting"
    BY <1>1, <1>2, InToSet DEF Phase, PhaseOf, Current, OfPipe
<1>4. Length \in Nat
  <2>1. Len(Wire) \in Nat
    BY <1>1, StartIs
  <2>2. side = "client" => bodies[1].len \in Nat
    <3>1. bodies \in Seq([len : Nat, known : BOOLEAN])
        BY <1>1, ConnAssumption
    <3>2. ASSUME side = "client" PROVE bodies[1] \in [len : Nat, known : BOOLEAN]
      <4>1. 1 \in 1..Len(bodies)
        BY SMTT(30), <3>2 DEF Init
      <4>2. QED
        BY <3>1, <4>1, ElementOfSeq
    <3>3. QED
        BY <3>2
  <2>3. QED
    BY <2>1, <2>2 DEF Length, OfPipe
<1>5. Given = 0
  <2>1. Len(heard.body) = 0
    BY <1>1
  <2>2. QED
    BY <2>1 DEF Given, OfPipe
<1>6. ~IsTold /\ ~IsClosing
    BY <1>1, <1>2 DEF IsTold, IsClosing, OfPipe
<1>7. IsTold = FALSE /\ IsClosing = FALSE
    BY <1>6 DEF IsTold, IsClosing, OfPipe
<1>8. QED
    BY <1>3, <1>4, <1>5, <1>7 DEF Events!Init, Phase, PhaseOf, Current, Length, Given, IsTold,
        IsClosing

\* What is seen of a pipe's connection.
LEMMA PipeSeen ==
    ASSUME side = "client"
    PROVE  /\ Phase = PhaseOf(Current) /\ Given = Len(heard.body)
           /\ Length = IF bodies[1].known THEN bodies[1].len ELSE Len(Wire)
           /\ IsTold = (user = "told")
           /\ IsClosing = (user # "listens" \/ conn.at = "closed")
PROOF
    BY DEF Phase, Given, Length, IsTold, IsClosing, OfPipe

\* A piece of the body, and the reply with its last one, is one step of
\* HttpEvents.
LEMMA ArrivingSeen ==
    ASSUME Replied, OfClient(Current), Arriving(Current, Current'),
           side' = side, bodies' = bodies
    PROVE  SeenStep
PROOF
<1> DEFINE x == Current
           y == Current'
           g == Len(heard.body)
           h == Len(heard'.body)
<1>1. /\ x.conn = conn /\ x.http = http /\ x.user = user /\ x.heard = heard
      /\ y.conn = conn' /\ y.http = http' /\ y.user = user' /\ y.heard = heard'
    BY CurrentIs
<1>2. /\ user = "listens" /\ heard.events = <<"connected">> /\ conn.at = "open"
      /\ conn'.at = "open" /\ g <= arrived - HeadLen /\ h = arrived - HeadLen
      /\ \/ user' = "quit" /\ heard'.events = <<"connected">>
         \/ user' = "listens" /\ heard'.events = <<"connected">> /\ ~Reaches(1, arrived)
         \/ user' = "told" /\ heard'.events = <<"connected", "end">> /\ Reaches(1, arrived)
    BY <1>1 DEF Arriving
<1>3. PhaseOf(x) = "open" /\ PhaseOf(y) = "open"
  <2>1. "connected" \in ToSet(<<"connected", "end">>)
    BY DEF ToSet
  <2>2. QED
    BY <1>1, <1>2, <2>1, InToSet DEF PhaseOf
<1>4. /\ Phase = "open" /\ Phase' = "open" /\ Given = g /\ Given' = h
      /\ Length' = Length
      /\ Length = IF bodies[1].known THEN bodies[1].len ELSE Len(Wire)
      /\ IsTold = FALSE /\ IsClosing = FALSE
      /\ IsTold' = (user' = "told") /\ IsClosing' = (user' # "listens")
  <2>1. side = "client"
    BY DEF Replied
  <2>2. Phase' = PhaseOf(y)
    BY <2>1 DEF Phase, OfPipe, PhaseOf, Current
  <2>3. Length' = Length
    BY DEF Length, OfPipe, Wire
  <2>4. Phase = PhaseOf(x)
    BY <2>1, PipeSeen
  <2>5. /\ IsTold = FALSE /\ IsClosing = FALSE
        /\ IsTold' = (user' = "told") /\ IsClosing' = (user' # "listens")
    BY <1>2, <2>1 DEF IsTold, IsClosing, OfPipe
  <2>6. Given = g /\ Given' = h
    BY <2>1 DEF Given, OfPipe
  <2>7. QED
    BY <1>3, <2>1, <2>2, <2>3, <2>4, <2>5, <2>6, PipeSeen
<1>5. /\ Len(Wire) \in Nat /\ Len(Wire) = MessageLen(1) /\ HeadLen \in Nat \ {0}
      /\ arrived \in Nat /\ arrived <= Len(Wire)
    BY ReplyWire
<1>6. bodies[1].len \in Nat /\ MessageLen(1) = HeadLen + bodies[1].len
  <2>1. bodies \in Seq([len : Nat, known : BOOLEAN]) /\ 1 \in 1..Len(bodies)
    BY ConnAssumption DEF Replied
  <2>2. bodies[1] \in [len : Nat, known : BOOLEAN]
    BY <2>1, ElementOfSeq
  <2>3. QED
    BY <2>2 DEF MessageLen
<1>7. g \in Nat
    BY <1>1 DEF OfClient, PipeTypes
<1> DEFINE len == bodies[1].len
           l   == Length
           w   == Len(Wire)
<1> HIDE DEF g, h, len, l, w
<1>8. /\ l = IF bodies[1].known THEN len ELSE w
      /\ len \in Nat /\ w = HeadLen + len
      /\ Reaches(1, arrived) <=> bodies[1].known /\ w <= arrived
    BY <1>4, <1>5, <1>6 DEF Reaches, l, w, len
<1>9. h \in Nat /\ h - g \in 0..l - g /\ h = g + (h - g)
    BY <1>2, <1>5, <1>7, <1>8 DEF w
<1>10. Reaches(1, arrived) <=> h = l
    BY <1>2, <1>5, <1>8 DEF w
<1>11. \/ IsTold' = (h = l) /\ IsClosing' = IsTold'
       \/ IsTold' = FALSE /\ IsClosing' = TRUE
  <2>1. CASE user' = "quit"
    BY <1>4, <2>1
  <2>2. CASE user' = "listens" /\ ~Reaches(1, arrived)
    <3>1. IsTold' = FALSE /\ IsClosing' = FALSE /\ h # l
        BY <1>4, <1>10, <2>2
    <3>2. QED
        BY <3>1
  <2>3. CASE user' = "told" /\ Reaches(1, arrived)
    <3>1. IsTold' = TRUE /\ IsClosing' = TRUE /\ h = l
        BY <1>4, <1>10, <2>3
    <3>2. QED
        BY <3>1
  <2>4. QED
    BY <1>2, <2>1, <2>2, <2>3
<1>12. QED
    BY <1>4, <1>9, <1>11 DEF SeenStep, l

\* Every step of a connection is one that HttpEvents allows.
LEMMA StepSeen ==
    ASSUME Sound, Sound', [Next]_vars, side = "client" => PipeStep(Current, Current')
    PROVE  SeenStep
PROOF
<1> DEFINE x == Current
           y == Current'
<1>0. side' = side /\ bodies' = bodies
    BY DEF Next, vars, DnsQuiet, DnsDue, DnsClose, DnsConnect, DnsSend, ConnectDone, Send,
        DnsRecv, Recv, Again, CloseConn, Eof, RecvError, UserCloses
<1>1. CASE side # "client"
  <2>1. UNCHANGED Seen
    BY <1>0, <1>1 DEF Seen, Phase, Length, Given, IsTold, IsClosing, OfPipe
  <2>2. QED
    BY <2>1 DEF SeenStep
<1>2. CASE side = "client"
  <2>1. /\ x.conn = conn /\ x.http = http /\ x.user = user /\ x.heard = heard
        /\ y.conn = conn' /\ y.http = http' /\ y.user = user' /\ y.heard = heard'
    BY CurrentIs
  <2>2. Replied /\ OfClient(Current)
    BY <1>2 DEF Sound, Served
  <2>3. Length' = Length
    BY <1>0 DEF Length, OfPipe, Wire
  <2>4. /\ Phase = PhaseOf(x) /\ Phase' = PhaseOf(y)
        /\ Given = Len(heard.body) /\ Given' = Len(heard'.body)
    BY <1>0, <1>2 DEF Phase, PhaseOf, Current, Given, OfPipe
  <2>5. /\ IsTold = (user = "told") /\ IsTold' = (user' = "told")
        /\ IsClosing = (user # "listens" \/ conn.at = "closed")
        /\ IsClosing' = (user' # "listens" \/ conn'.at = "closed")
    BY <1>0, <1>2 DEF IsTold, IsClosing, OfPipe
  <2>6. (PhaseOf(x) = "gone" <=> conn.at = "closed") /\ (PhaseOf(y) = "gone" <=> conn'.at = "closed")
    BY <2>1 DEF PhaseOf
  <2>7. CASE user' = user /\ heard' = heard /\ (conn.at = "closed" <=> conn'.at = "closed")
    <3>1. PhaseOf(y) = PhaseOf(x)
        BY <2>1, <2>7 DEF PhaseOf
    <3>2. UNCHANGED Seen
        BY <2>3, <2>4, <2>5, <2>7, <3>1 DEF Seen
    <3>3. QED
        BY <3>2 DEF SeenStep
  <2>8. CASE /\ user = "listens" /\ heard.events = <<>> /\ conn.at = "connecting"
             /\ conn'.at = "open" /\ heard'.body = heard.body
             /\ \/ user' = "listens" /\ heard'.events = <<"connected">>
                \/ user' = "quit" /\ heard'.events = <<"failed">>
    <3>1. PhaseOf(x) = "connecting"
        BY <2>1, <2>8, InToSet DEF PhaseOf
    <3>2. CASE user' = "listens" /\ heard'.events = <<"connected">>
      <4>1. PhaseOf(y) = "open"
        BY <2>1, <2>8, <3>2, InToSet DEF PhaseOf
      <4>2. IsTold' = IsTold /\ IsClosing = FALSE /\ IsClosing' = FALSE
        BY <2>5, <2>8, <3>2
      <4>3. QED
        BY <2>3, <2>4, <2>8, <3>1, <4>1, <4>2 DEF SeenStep
    <3>3. CASE user' = "quit" /\ heard'.events = <<"failed">>
      <4>1. PhaseOf(y) = "connecting"
        BY <2>1, <2>8, <3>3, InToSet DEF PhaseOf
      <4>2. IsTold' = IsTold /\ IsClosing' = TRUE
        BY <2>5, <2>8, <3>3
      <4>3. QED
        BY <2>3, <2>4, <2>8, <3>1, <4>1, <4>2 DEF SeenStep
    <3>4. QED
        BY <2>8, <3>2, <3>3
  <2>9. CASE /\ user = "listens" /\ user' = "quit" /\ heard' = heard
             /\ conn.at # "closed" /\ conn'.at # "closed"
    <3>1. PhaseOf(y) = PhaseOf(x)
        BY <2>1, <2>9 DEF PhaseOf
    <3>2. IsTold' = IsTold /\ IsClosing' = TRUE
        BY <2>5, <2>9
    <3>3. QED
        BY <2>3, <2>4, <2>6, <2>9, <3>1, <3>2 DEF SeenStep
  <2>10. CASE Arriving(Current, Current')
    BY <1>0, <2>2, <2>10, ArrivingSeen
  <2>11. CASE conn.at # "closed" /\ conn'.at = "closed" /\ Closing(x, y)
    <3>1. /\ Given' = Given
          /\ user = "told" => user' = "told"
          /\ user' = "told" /\ user # "told" =>
                user = "listens" /\ conn.at = "open" /\ heard.events = <<"connected">>
        BY <2>1, <2>4, <2>11 DEF Closing
    <3>2. IsClosing' = TRUE
        BY <2>5, <2>11
    <3>3. \/ IsTold' = IsTold
          \/ Phase = "open" /\ ~IsClosing /\ IsTold' = TRUE
      <4>1. CASE user' = "told" /\ user # "told"
        <5>1. PhaseOf(x) = "open"
            BY <2>1, <3>1, <4>1, InToSet DEF PhaseOf
        <5>2. IsClosing = FALSE /\ IsTold' = TRUE
            BY <2>5, <2>11, <3>1, <4>1
        <5>3. QED
            BY <2>4, <5>1, <5>2
      <4>2. CASE ~(user' = "told" /\ user # "told")
        BY <2>5, <3>1, <4>2
      <4>3. QED
        BY <4>1, <4>2
    <3>4. QED
        BY <2>3, <2>4, <2>6, <2>11, <3>1, <3>2, <3>3 DEF SeenStep
  <2>12. QED
    BY <1>2, <2>1, <2>7, <2>8, <2>9, <2>10, <2>11 DEF PipeStep
<1>3. QED
    BY <1>1, <1>2

-----------------------------------------------------------------------------
\* The theorems.

\* The inductive invariant, on either side: the bytes in recv_mbuf are those
\* of the wire from where a message starts, less what a pipe has taken away,
\* and what the handler has heard agrees with them.
THEOREM ConnInvariant == Spec => []Sound
PROOF
<1>1. Sound /\ [Next]_vars => Sound'
    BY SoundNext
<1>2. QED
    BY InitSound, <1>1, PTL DEF Spec

\* Every variable has its type, a pipe that has closed has a connection that
\* is about to, and mg_parse_http() never finds itself inside of a message.
THEOREM ConnTypeOK == Spec => []TypeOK
PROOF
    BY ConnInvariant, SoundTypes, PTL

\* Between two reads no byte of the wire is lost or counted twice, whatever
\* the messages are and however they are cut up by reads of MG_TCP_IO_SIZE.
THEOREM NoByteLost == Spec => []BytesAccounted
PROOF
    BY ConnInvariant, SoundBytes, PTL

\* mg_http_handler() tells a pipe of its connection, its reply and its close
\* in that order, and the server of its requests one after another and whole.
THEOREM MessagesAlwaysInOrder == Spec => []MessagesInOrder
PROOF
    BY ConnInvariant, SoundOrder, PTL

\* mg_resolve_async_eh() calls resolve_cb() once, frees its request with the
\* call, and sends no more queries than max_retries, or one.
THEOREM AlwaysResolvesOnce == Spec => []ResolvesOnce
PROOF
    BY ConnInvariant, SoundResolves, PTL

\* A connection of mongoose keeps to what the model of a pipe takes for
\* granted of it, step by step, for every reply.
THEOREM ConnImplementsEvents == Spec => RefinesEvents
PROOF
<1>1. Init => Events!Init
    BY InitSeen
<1>2. Sound /\ Sound' /\ [Next]_vars => [Events!Next]_(Events!vars)
  <2> SUFFICES ASSUME Sound, Sound', [Next]_vars PROVE [Events!Next]_(Events!vars)
    OBVIOUS
  <2>1. side = "client" => PipeStep(Current, Current')
    BY SoundNext
  <2>2. SeenStep
    BY <2>1, StepSeen
  <2>3. QED
    BY <2>2, SeenIs
<1>3. QED
    BY <1>1, <1>2, ConnInvariant, PTL DEF Spec, RefinesEvents, Events!Spec
=============================================================================
