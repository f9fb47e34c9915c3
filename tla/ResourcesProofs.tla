-------------------------- MODULE ResourcesProofs --------------------------
(***************************************************************************)
(* What holds of the list of resources and of a look-up that walks it,     *)
(* whatever the application does to it between the walk's steps.           *)
(***************************************************************************)
EXTENDS Resources, WellFoundedInduction, TLAPS

\* The ids in the list, and those that have been there, were all handed out.
IdsSound ==
    /\ lastId \in Nat
    /\ DOMAIN resources \subseteq 1..lastId /\ gone \subseteq 1..lastId
    /\ DOMAIN resources \cap gone = {}
    /\ resources \in [DOMAIN resources -> [url : Urls, ref : Nat]]

LookRecords ==
    [op : Ops, nc : Clients, id : Ids, at : Nat, result : Results, stale : BOOLEAN,
     could : SUBSET Results]

\* A walk that nothing was taken from stands at a node of the list; it is not
\* past the one it looks for as long as that has been there all the time.
WalkSound ==
    ~look.stale =>
        /\ Truth(look.id, resources) \in look.could
        /\ look.result = "walking" =>
            /\ look.at \in DOMAIN resources \cup {0}
            /\ "missing" \notin look.could => look.at # 0 /\ look.at <= look.id
        /\ look.result = "found" => Listed(look.id)
        /\ look.result = "missing" => "missing" \in look.could

LookSound == look # NoLook => look \in LookRecords /\ WalkSound

\* A set of naturals that is not empty has a least one.
LEMMA Least ==
    ASSUME NEW S, S \subseteq Nat, S # {}
    PROVE  \E x \in S : \A y \in S : x <= y
PROOF
<1> DEFINE R == OpToRel(<, Nat)
<1>1. IsWellFoundedOn(R, Nat)
    BY NatLessThanWellFounded
<1>2. \A x, y \in Nat : x < y => <<x, y>> \in R
    BY DEF OpToRel
<1> HIDE DEF R
<1>3. PICK x \in S : \A y \in S : ~(<<y, x>> \in R)
    BY <1>1, WFMin, Zenon
<1>4. ASSUME NEW y \in S PROVE x <= y
  <2>1. x \in Nat /\ y \in Nat /\ ~(y < x)
    BY <1>2, <1>3
  <2>2. QED
    BY <2>1
<1>5. QED
    BY <1>4

\* The node after one is the next of the list, and none is passed over.
LEMMA NodeAfterIsNext ==
    ASSUME IdsSound, NEW n \in Nat
    PROVE  /\ NodeAfter(n) \in DOMAIN resources \cup {0}
           /\ \A id \in DOMAIN resources : id > n => NodeAfter(n) # 0 /\ NodeAfter(n) <= id
PROOF
<1> DEFINE S == {id \in DOMAIN resources : id > n}
           Next1(id) == id > n /\ \A other \in DOMAIN resources : other > n => id <= other
<1>1. DOMAIN resources \subseteq Nat /\ 0 \notin DOMAIN resources
    BY DEF IdsSound
<1>2. CASE S = {}
    BY <1>2 DEF NodeAfter
<1>3. CASE S # {}
  <2>1. \E id \in S : \A other \in S : id <= other
    BY <1>1, <1>3, Least
  <2>2. \E id \in DOMAIN resources : Next1(id)
    BY <2>1
  <2>3. NodeAfter(n) = CHOOSE id \in DOMAIN resources : Next1(id)
    BY <1>3 DEF NodeAfter
  <2> HIDE DEF Next1
  <2>4. NodeAfter(n) \in DOMAIN resources /\ Next1(NodeAfter(n))
    BY <2>2, <2>3
  <2>5. QED
    BY <1>1, <2>4 DEF Next1
<1>4. QED
    BY <1>2, <1>3

-----------------------------------------------------------------------------

\* What a change of the list must show a look-up that goes on.
LEMMA NoticedKeeps ==
    ASSUME LookSound, NEW res, look' = Noticed(res), resources' = res,
           \/ DOMAIN resources \subseteq DOMAIN res
           \/ \E id : ~Reads(id) /\ DOMAIN res = DOMAIN resources \ {id}
    PROVE  LookSound'
PROOF
<1> SUFFICES ASSUME look # NoLook PROVE look' \in LookRecords /\ WalkSound'
    BY DEF LookSound, Noticed
<1>1. look' = [look EXCEPT !.could = look.could \cup {Truth(look.id, res)}]
    BY DEF Noticed
<1>2. look \in LookRecords /\ WalkSound
    BY DEF LookSound
<1> DEFINE seen == look.could \cup {Truth(look.id, res)}
<1>3. seen \in SUBSET Results
    BY <1>2 DEF LookRecords, Truth, Results
<1> HIDE DEF seen
<1>4. /\ look' \in LookRecords
      /\ look'.could = seen
      /\ look'.id = look.id /\ look'.at = look.at /\ look'.result = look.result
      /\ look'.stale = look.stale
    BY <1>1, <1>2, <1>3 DEF LookRecords, seen
<1>5. Truth(look.id, res) \in seen /\ look.could \subseteq seen
    BY DEF seen
<1>6. ASSUME ~look.stale, look.result \in {"walking", "found"},
             NEW n, n = IF look.result = "walking" THEN look.at ELSE look.id,
             n \in DOMAIN resources
      PROVE  n \in DOMAIN res
    BY <1>6 DEF Reads
<1>7. WalkSound'
  <2> SUFFICES ASSUME ~look.stale
               PROVE  /\ Truth(look.id, res) \in look'.could
                      /\ look.result = "walking" =>
                            /\ look.at \in DOMAIN res \cup {0}
                            /\ "missing" \notin look'.could => look.at # 0 /\ look.at <= look.id
                      /\ look.result = "found" => look.id \in DOMAIN res
                      /\ look.result = "missing" => "missing" \in look'.could
    BY <1>4 DEF WalkSound, Listed, Truth
  <2>1. Truth(look.id, res) \in look'.could
    BY <1>4, <1>5
  <2>2. CASE look.result = "walking"
    <3>1. /\ look.at \in DOMAIN resources \cup {0}
          /\ "missing" \notin look.could => look.at # 0 /\ look.at <= look.id
        BY <1>2, <2>2 DEF WalkSound
    <3>2. look.at \in DOMAIN res \cup {0}
        BY <1>6, <2>2, <3>1
    <3>3. "missing" \notin look'.could => look.at # 0 /\ look.at <= look.id
        BY <1>4, <1>5, <3>1
    <3>4. QED
        BY <2>1, <2>2, <3>2, <3>3
  <2>3. CASE look.result = "found"
    BY <1>2, <1>6, <2>1, <2>3 DEF WalkSound, Listed
  <2>4. CASE look.result = "missing"
    BY <1>2, <1>4, <1>5, <2>1, <2>4 DEF WalkSound
  <2>5. QED
    BY <2>1, <2>2, <2>3, <2>4, <1>2 DEF LookRecords, Results
<1>8. QED
    BY <1>4, <1>7

\* The application's steps.
LEMMA AddKeeps ==
    ASSUME IdsSound, LookSound, NEW u \in Urls, AddResource(u)
    PROVE  IdsSound' /\ LookSound'
PROOF
<1>1. /\ lastId' = lastId + 1 /\ gone' = gone
      /\ resources' = [i \in DOMAIN resources \cup {lastId + 1} |->
                          IF i = lastId + 1 THEN [url |-> u, ref |-> 1] ELSE resources[i]]
      /\ look' = Noticed(resources')
    BY DEF AddResource
<1>2. DOMAIN resources' = DOMAIN resources \cup {lastId + 1}
    BY <1>1
<1>3. IdsSound'
    BY <1>1, <1>2 DEF IdsSound
<1>4. LookSound'
    BY <1>1, <1>2, NoticedKeeps
<1>5. QED
    BY <1>3, <1>4

\* Sharing a resource changes no id and no walk.
LEMMA ShareKeeps ==
    ASSUME IdsSound, LookSound, NEW u, ShareResource(u)
    PROVE  IdsSound' /\ LookSound'
PROOF
<1>1. PICK id \in DOMAIN resources : resources' = [resources EXCEPT ![id].ref = @ + 1]
    BY DEF ShareResource
<1>2. UNCHANGED <<lastId, gone, look>>
    BY DEF ShareResource
<1>3. /\ DOMAIN resources' = DOMAIN resources
      /\ resources' \in [DOMAIN resources -> [url : Urls, ref : Nat]]
    BY <1>1 DEF IdsSound
<1>4. IdsSound'
    BY <1>2, <1>3 DEF IdsSound
<1>5. LookSound'
    BY <1>2, <1>3 DEF LookSound, WalkSound, Listed, Truth
<1>6. QED
    BY <1>4, <1>5

\* A removal takes its node from every walk, or leaves it at a freed one.
LEMMA RemoveKeeps ==
    ASSUME IdsSound, LookSound, NEW id, RemoveResource(id)
    PROVE  IdsSound' /\ LookSound'
PROOF
<1>1. id \in DOMAIN resources /\ lastId' = lastId
    BY DEF RemoveResource
<1>2. CASE resources[id].ref > 1
  <2>1. resources' = [resources EXCEPT ![id].ref = @ - 1] /\ UNCHANGED <<gone, look>>
    BY <1>2 DEF RemoveResource
  <2>2. /\ DOMAIN resources' = DOMAIN resources
        /\ resources' \in [DOMAIN resources -> [url : Urls, ref : Nat]]
    BY <1>1, <1>2, <2>1 DEF IdsSound
  <2>3. IdsSound'
    BY <1>1, <2>1, <2>2 DEF IdsSound
  <2>4. LookSound'
    BY <2>1, <2>2 DEF LookSound, WalkSound, Listed, Truth
  <2>5. QED
    BY <2>3, <2>4
<1>3. CASE ~(resources[id].ref > 1)
  <2> DEFINE res == [i \in DOMAIN resources \ {id} |-> resources[i]]
  <2>1. /\ resources' = res /\ gone' = gone \cup {id}
        /\ look' = IF Reads(id) THEN [Noticed(res) EXCEPT !.stale = TRUE] ELSE Noticed(res)
    BY <1>3 DEF RemoveResource
  <2>2. DOMAIN res = DOMAIN resources \ {id}
    OBVIOUS
  <2>3. IdsSound'
    BY <1>1, <2>1, <2>2 DEF IdsSound
  <2> HIDE DEF res
  <2>4. CASE Reads(id)
    <3>1. /\ look # NoLook /\ look \in LookRecords
          /\ look' = [[look EXCEPT !.could = look.could \cup {Truth(look.id, res)}]
                         EXCEPT !.stale = TRUE]
        BY <2>1, <2>4 DEF Reads, Noticed, LookSound
    <3>2. look' \in LookRecords /\ look'.stale
      <4> DEFINE seen == look.could \cup {Truth(look.id, res)}
      <4>1. seen \in SUBSET Results
        BY <3>1 DEF LookRecords, Truth, Results
      <4>2. look' = [[look EXCEPT !.could = seen] EXCEPT !.stale = TRUE]
        BY <3>1
      <4> HIDE DEF seen
      <4>3. QED
        BY <3>1, <4>1, <4>2 DEF LookRecords
    <3>3. QED
        BY <2>3, <3>2 DEF LookSound, WalkSound
  <2>5. CASE ~Reads(id)
    BY <2>1, <2>2, <2>3, <2>5, NoticedKeeps
  <2>6. QED
    BY <2>4, <2>5
<1>4. QED
    BY <1>2, <1>3

-----------------------------------------------------------------------------

\* The walk's steps.
LEMMA StartKeeps ==
    ASSUME IdsSound, NEW op \in Ops, NEW nc \in Clients, NEW id \in Ids, StartLook(op, nc, id)
    PROVE  IdsSound' /\ LookSound'
PROOF
<1>1. /\ look' = [op |-> op, nc |-> nc, id |-> id, at |-> NodeAfter(0),
                  result |-> "walking", stale |-> FALSE, could |-> {Truth(id, resources)}]
      /\ UNCHANGED <<resources, lastId, gone>>
    BY DEF StartLook
<1>2. IdsSound'
    BY <1>1 DEF IdsSound
<1>3. /\ NodeAfter(0) \in DOMAIN resources \cup {0}
      /\ \A i \in DOMAIN resources : i > 0 => NodeAfter(0) # 0 /\ NodeAfter(0) <= i
      /\ NodeAfter(0) \in Nat /\ \A i \in DOMAIN resources : i > 0
  <2>1. /\ NodeAfter(0) \in DOMAIN resources \cup {0}
        /\ \A i \in DOMAIN resources : i > 0 => NodeAfter(0) # 0 /\ NodeAfter(0) <= i
    BY NodeAfterIsNext
  <2>2. DOMAIN resources \subseteq Nat /\ \A i \in DOMAIN resources : i > 0
    BY DEF IdsSound
  <2>3. QED
    BY <2>1, <2>2
<1>4. Truth(id, resources) \in Results
    BY DEF Truth, Results
<1>5. look' \in LookRecords
    BY <1>1, <1>3, <1>4 DEF LookRecords, Results
<1>6. /\ look'.could = {Truth(id, resources)} /\ look'.id = id /\ look'.at = NodeAfter(0)
      /\ look'.result = "walking" /\ ~look'.stale
    BY <1>1
<1>7. "missing" \notin {Truth(id, resources)} => id \in DOMAIN resources
    BY DEF Truth
<1>8. WalkSound'
    BY <1>1, <1>3, <1>6, <1>7 DEF WalkSound, Truth
<1>9. QED
    BY <1>2, <1>5, <1>8 DEF LookSound

\* A step of the walk keeps it sound, and it goes on or has a result.
LEMMA LookKeeps ==
    ASSUME IdsSound, LookSound, LookOn
    PROVE  IdsSound' /\ LookSound' /\ look' # NoLook
PROOF
<1>1. /\ look # NoLook /\ look.result = "walking"
      /\ look \in LookRecords /\ WalkSound
      /\ UNCHANGED <<resources, lastId, gone>>
    BY DEF LookOn, LookSound
<1>2. IdsSound'
    BY <1>1 DEF IdsSound
<1>3. \A l \in LookRecords : l # NoLook
    BY DEF LookRecords, NoLook, Ops
<1>4. CASE look.stale
  <2>1. PICK r \in {"found", "missing"} : look' = [look EXCEPT !.result = r]
    BY <1>1, <1>4 DEF LookOn
  <2>2. look' \in LookRecords /\ look'.stale
    BY <1>1, <1>4, <2>1 DEF LookRecords, Results
  <2>3. QED
    BY <1>2, <1>3, <2>2 DEF LookSound, WalkSound
<1>5. CASE ~look.stale
  <2>1. look' = Compared(look)
    BY <1>5 DEF LookOn
  <2>2. CASE look.at = 0
    <3>1. look' = [look EXCEPT !.result = "missing"]
        BY <2>1, <2>2 DEF Compared
    <3>2. /\ look' \in LookRecords /\ look'.could = look.could /\ look'.id = look.id
          /\ look'.result = "missing"
        BY <1>1, <3>1 DEF LookRecords, Results
    <3>3. "missing" \in look.could
        BY <1>1, <1>5, <2>2 DEF WalkSound
    <3>4. QED
        BY <1>1, <1>2, <1>3, <1>5, <3>2, <3>3 DEF LookSound, WalkSound, Listed, Truth
  <2>3. CASE look.at # 0 /\ look.at = look.id
    <3>1. look' = [look EXCEPT !.result = "found"]
        BY <2>1, <2>3 DEF Compared
    <3>2. /\ look' \in LookRecords /\ look'.could = look.could /\ look'.id = look.id
          /\ look'.result = "found"
        BY <1>1, <3>1 DEF LookRecords, Results
    <3>3. Listed(look.id) /\ Truth(look.id, resources) \in look.could
        BY <1>1, <1>5, <2>3 DEF WalkSound, Listed
    <3>4. QED
        BY <1>1, <1>2, <1>3, <1>5, <3>2, <3>3 DEF LookSound, WalkSound, Listed, Truth
  <2>4. CASE look.at # 0 /\ look.at # look.id
    <3> DEFINE n == NodeAfter(look.at)
    <3>1. look' = [look EXCEPT !.at = n]
        BY <2>1, <2>4 DEF Compared
    <3>2. look.at \in Nat /\ look.id \in Nat
        BY <1>1, ResourceAssumption DEF LookRecords, Ids
    <3>3. /\ n \in DOMAIN resources \cup {0} /\ n \in Nat
          /\ \A i \in DOMAIN resources : i > look.at => n # 0 /\ n <= i
      <4>1. DOMAIN resources \subseteq Nat
        BY DEF IdsSound
      <4>2. QED
        BY <3>2, <4>1, NodeAfterIsNext
    <3> HIDE DEF n
    <3>4. /\ look' \in LookRecords /\ look'.could = look.could /\ look'.id = look.id
          /\ look'.result = "walking" /\ look'.at = n /\ look'.stale = look.stale
        BY <1>1, <3>1, <3>3 DEF LookRecords
    <3>5. Truth(look.id, resources) \in look.could
        BY <1>1, <1>5 DEF WalkSound
    <3>6. "missing" \notin look.could => n # 0 /\ n <= look.id
      <4> SUFFICES ASSUME "missing" \notin look.could PROVE n # 0 /\ n <= look.id
        OBVIOUS
      <4>1. look.id \in DOMAIN resources
        BY <3>5 DEF Truth
      <4>2. look.at <= look.id
        BY <1>1, <1>5 DEF WalkSound
      <4>3. QED
        BY <2>4, <3>2, <3>3, <4>1, <4>2
    <3>7. WalkSound'
        BY <1>1, <3>3, <3>4, <3>5, <3>6 DEF WalkSound, Truth
    <3>8. QED
        BY <1>2, <1>3, <3>4, <3>7 DEF LookSound
  <2>5. QED
    BY <2>2, <2>3, <2>4
<1>6. QED
    BY <1>4, <1>5, <1>1 DEF LookRecords

\* What a look-up has told is so.
LEMMA SoundIsFresh ==
    ASSUME LookSound PROVE LookupIsFresh
PROOF
<1> SUFFICES ASSUME look # NoLook, look.result # "walking", ~look.stale
             PROVE  look.result \in look.could
    BY DEF LookupIsFresh
<1>1. look \in LookRecords /\ WalkSound
    BY DEF LookSound
<1>2. CASE look.result = "found"
    BY <1>1, <1>2 DEF WalkSound, Listed, Truth
<1>3. CASE look.result = "missing"
    BY <1>1, <1>3 DEF WalkSound
<1>4. QED
    BY <1>1, <1>2, <1>3 DEF LookRecords, Results
=============================================================================
