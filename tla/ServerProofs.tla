---------------------------- MODULE ServerProofs ----------------------------
(***************************************************************************)
(* That sessions, preloaders, tasks and downloads never point at what is   *)
(* gone, and that mongoose's list has the connections of all of them:      *)
(* TypeOK, ReadersMatch, PipesHaveReaders and ConnsMatch of Server, for    *)
(* any number of clients, URLs, preloaders, downloads and resources.       *)
(***************************************************************************)
EXTENDS Server, ResourcesProofs, SequenceTheorems

\* Sessions and preloaders as one map from readers to tasks.
Readers == Clients \cup Preloaders

All(ss, ls) == [r \in Readers |-> IF r \in Clients THEN ss[r] ELSE ls[r]]

\* The readers match, as a relation of the two maps.
Agree(rs, ts) ==
    \A u \in Tasks :
        IF ts[u] = None THEN \A r \in Readers : rs[r] # u
        ELSE ts[u].readers = {r \in Readers : rs[r] = u}

\* The pipes that may call their task have one that is read.
Serve(ps, ts) ==
    \A d \in Downloads : Live(ps[d]) =>
        ts[ps[d].task] # None /\ ts[ps[d].task].readers # {}

TaskMaps == [Tasks -> TaskRecords \cup {None}]
PipeMaps == [Downloads -> [task : Tasks, at : Places]]
ReaderMaps == [Readers -> Tasks \cup {None}]

\* The maps have their types.
MapsOK ==
    /\ sessions \in [Clients -> Tasks \cup {None}]
    /\ preloaders \in [Preloaders -> Tasks \cup {None}]
    /\ tasks \in TaskMaps /\ pipes \in PipeMaps

\* A reader that has gone is no longer a reader.
LEMMA WithoutReaderType ==
    ASSUME NEW ts \in TaskMaps, NEW u \in Tasks, ts[u] # None, NEW r
    PROVE  /\ WithoutReader(ts, u, r) \in TaskMaps
           /\ \A v \in Tasks \ {u} : WithoutReader(ts, u, r)[v] = ts[v]
           /\ WithoutReader(ts, u, r)[u] # None
           /\ WithoutReader(ts, u, r)[u].readers = ts[u].readers \ {r}
PROOF
<1> DEFINE t == [ts[u] EXCEPT !.readers = ts[u].readers \ {r}, !.aged = FALSE]
<1>1. ts[u] \in TaskRecords
    BY DEF TaskMaps
<1>2. t \in TaskRecords /\ t.readers = ts[u].readers \ {r}
    BY <1>1 DEF TaskRecords
<1>3. t # None
    BY <1>2, ServerAssumption
<1>4. WithoutReader(ts, u, r) = [ts EXCEPT ![u] = t]
    BY DEF WithoutReader, TaskMaps
<1> HIDE DEF t
<1>5. QED
    BY <1>2, <1>3, <1>4 DEF TaskMaps

\* One that has come is one.
LEMMA WithReaderType ==
    ASSUME NEW ts \in TaskMaps, NEW u \in Tasks, ts[u] # None,
           NEW r \in Clients \cup Preloaders
    PROVE  /\ WithReader(ts, u, r) \in TaskMaps
           /\ \A v \in Tasks \ {u} : WithReader(ts, u, r)[v] = ts[v]
           /\ WithReader(ts, u, r)[u] # None
           /\ WithReader(ts, u, r)[u].readers = ts[u].readers \cup {r}
PROOF
<1> DEFINE t == [ts[u] EXCEPT !.readers = ts[u].readers \cup {r}, !.aged = FALSE]
<1>1. ts[u] \in TaskRecords
    BY DEF TaskMaps
<1>2. t \in TaskRecords /\ t.readers = ts[u].readers \cup {r}
    BY <1>1 DEF TaskRecords
<1>3. t # None
    BY <1>2, ServerAssumption
<1>4. WithReader(ts, u, r) = [ts EXCEPT ![u] = t]
    BY DEF WithReader, TaskMaps
<1> HIDE DEF t
<1>5. QED
    BY <1>2, <1>3, <1>4 DEF TaskMaps

\* What a task has to close takes no reader with it.
LEMMA FoundType ==
    ASSUME NEW ts \in TaskMaps, NEW u \in Tasks
    PROVE  /\ Found(ts, u) \in TaskMaps
           /\ Found(ts, u)[u] # None
           /\ ts[u] = None => Found(ts, u)[u].readers = {}
           /\ ts[u] # None => Found(ts, u)[u] = ts[u]
           /\ \A v \in Tasks \ {u} :
                \/ Found(ts, u)[v] = ts[v]
                \/ ts[v] # None /\ ts[v].readers = {} /\ Found(ts, u)[v] = None
PROOF
<1>1. NewTask \in TaskRecords /\ NewTask.readers = {} /\ NewTask # None
  <2>1. NewTask \in TaskRecords /\ NewTask.readers = {}
    BY DEF NewTask, TaskRecords
  <2>2. QED
    BY <2>1, ServerAssumption
<1>2. /\ Reaped(ts, FALSE) \in TaskMaps
      /\ \A v \in Tasks :
            \/ Reaped(ts, FALSE)[v] = ts[v]
            \/ ts[v] # None /\ ts[v].readers = {} /\ Reaped(ts, FALSE)[v] = None
    BY DEF Reaped, Idle, TaskMaps
<1>3. QED
    BY <1>1, <1>2 DEF Found, TaskMaps

\* A reader that leaves takes the pipes nobody needs with it.
LEMMA LeaveKeeps ==
    ASSUME NEW rs \in ReaderMaps, NEW ts \in TaskMaps, NEW ps \in PipeMaps,
           Agree(rs, ts), Serve(ps, ts), NEW some,
           NEW r \in Readers, rs[r] \in Tasks
    PROVE  LET u == rs[r]
               ts1 == WithoutReader(ts, u, r)
               ps1 == Kept(ps, ts1, u, some)
           IN  /\ ts1 \in TaskMaps /\ ps1 \in PipeMaps
               /\ Agree([rs EXCEPT ![r] = None], ts1) /\ Serve(ps1, ts1)
PROOF
<1> DEFINE u == rs[r]
           ts1 == WithoutReader(ts, u, r)
           ps1 == Kept(ps, ts1, u, some)
<1>1. ts[u] # None
    BY DEF Agree
<1>2. /\ ts1 \in TaskMaps
      /\ \A v \in Tasks \ {u} : ts1[v] = ts[v]
      /\ ts1[u] # None /\ ts1[u].readers = ts[u].readers \ {r}
    BY <1>1, WithoutReaderType
<1> HIDE DEF ts1
<1>3. Agree([rs EXCEPT ![r] = None], ts1)
    BY <1>1, <1>2, ServerAssumption DEF Agree, ReaderMaps
<1>4. ps1 \in PipeMaps
    BY DEF Kept, PipeMaps, Live, Places
<1>5. \A d \in Downloads : Live(ps1[d]) =>
        ps1[d] = ps[d] /\ Live(ps[d]) /\ ~(ps[d].task = u /\ Idle(ts1[u]))
    BY DEF Kept, PipeMaps, Live, Places
<1> HIDE DEF ps1
<1>6. Serve(ps1, ts1)
    BY <1>2, <1>5 DEF Serve, Idle, PipeMaps
<1>7. QED
    BY <1>2, <1>3, <1>4, <1>6 DEF ts1, ps1

\* One that joins a task finds it, or makes it, and the pipes of the tasks
\* that are reaped on the way no longer call them.
LEMMA JoinKeeps ==
    ASSUME NEW rs \in ReaderMaps, NEW ts \in TaskMaps, NEW ps \in PipeMaps,
           Agree(rs, ts), Serve(ps, ts),
           NEW r \in Readers, rs[r] = None, NEW u \in Tasks, NEW opens,
           MayOpen(PipesOf(ps, WithReader(Found(ts, u), u, r)),
                   WithReader(Found(ts, u), u, r), u, opens)
    PROVE  LET ts1 == WithReader(Found(ts, u), u, r)
               ps1 == Opened(PipesOf(ps, ts1), u, opens)
           IN  /\ ts1 \in TaskMaps /\ ps1 \in PipeMaps
               /\ Agree([rs EXCEPT ![r] = u], ts1) /\ Serve(ps1, ts1)
PROOF
<1> DEFINE fs == Found(ts, u)
           ts1 == WithReader(fs, u, r)
           qs == PipesOf(ps, ts1)
           ps1 == Opened(qs, u, opens)
<1>1. /\ fs \in TaskMaps /\ fs[u] # None
      /\ ts[u] = None => fs[u].readers = {}
      /\ ts[u] # None => fs[u] = ts[u]
      /\ \A v \in Tasks \ {u} :
            \/ fs[v] = ts[v]
            \/ ts[v] # None /\ ts[v].readers = {} /\ fs[v] = None
    BY FoundType
<1> HIDE DEF fs
<1>2. /\ ts1 \in TaskMaps
      /\ \A v \in Tasks \ {u} : ts1[v] = fs[v]
      /\ ts1[u] # None /\ ts1[u].readers = fs[u].readers \cup {r}
    BY <1>1, WithReaderType DEF Readers
<1> HIDE DEF ts1
<1>3. fs[u].readers = {q \in Readers : rs[q] = u}
    BY <1>1 DEF Agree
<1>4. Agree([rs EXCEPT ![r] = u], ts1)
  <2> SUFFICES ASSUME NEW v \in Tasks
               PROVE  IF ts1[v] = None THEN \A q \in Readers : [rs EXCEPT ![r] = u][q] # v
                      ELSE ts1[v].readers = {q \in Readers : [rs EXCEPT ![r] = u][q] = v}
    BY DEF Agree
  <2>1. CASE v = u
    BY <2>1, <1>2, <1>3 DEF ReaderMaps
  <2>2. CASE v # u
    <3>1. {q \in Readers : [rs EXCEPT ![r] = u][q] = v} = {q \in Readers : rs[q] = v}
        BY <2>2, ServerAssumption DEF ReaderMaps
    <3>2. QED
        BY <2>2, <3>1, <1>1, <1>2 DEF Agree, ReaderMaps
  <2>3. QED
    BY <2>1, <2>2
<1>5. qs \in PipeMaps /\ \A d \in Downloads : Live(qs[d]) =>
        qs[d] = ps[d] /\ Live(ps[d]) /\ ts1[ps[d].task] # None
    BY DEF PipesOf, PipeMaps, Live, Places
<1>6. ps1 \in PipeMaps /\ \A d \in Downloads : ps1[d].task = u \/ ps1[d] = qs[d]
    BY <1>5 DEF Opened, PipeMaps, Places
<1> HIDE DEF ps1, qs
<1>7. Serve(ps1, ts1)
  <2> SUFFICES ASSUME NEW d \in Downloads, Live(ps1[d]), ps1[d].task # u
               PROVE  /\ ts1[ps1[d].task] # None /\ ts1[ps1[d].task].readers # {}
    BY <1>2 DEF Serve
  <2>1. ps1[d] = ps[d] /\ Live(ps[d]) /\ ts1[ps[d].task] # None /\ ps[d].task \in Tasks
    BY <1>5, <1>6 DEF PipeMaps
  <2>2. QED
    BY <2>1, <1>1, <1>2 DEF Serve
<1>8. QED
    BY <1>2, <1>4, <1>6, <1>7 DEF ts1, ps1, qs, fs

\* Sessions and preloaders are a map of readers.
LEMMA AllMaps ==
    ASSUME MapsOK
    PROVE  /\ All(sessions, preloaders) \in ReaderMaps
           /\ \A c \in Clients : c \in Readers /\ All(sessions, preloaders)[c] = sessions[c]
           /\ \A l \in Preloaders :
                l \in Readers /\ All(sessions, preloaders)[l] = preloaders[l]
PROOF
    BY ServerAssumption DEF All, ReaderMaps, Readers, MapsOK

\* A change of one session is one of the map.
LEMMA SessionMap ==
    ASSUME MapsOK, NEW c \in Clients, NEW x \in Tasks \cup {None},
           sessions' = [sessions EXCEPT ![c] = x], UNCHANGED preloaders
    PROVE  /\ sessions' \in [Clients -> Tasks \cup {None}]
           /\ All(sessions', preloaders') = [All(sessions, preloaders) EXCEPT ![c] = x]
PROOF
    BY ServerAssumption DEF All, Readers, MapsOK

\* So is one of one preloader.
LEMMA PreloaderMap ==
    ASSUME MapsOK, NEW l \in Preloaders, NEW x \in Tasks \cup {None},
           preloaders' = [preloaders EXCEPT ![l] = x], UNCHANGED sessions
    PROVE  /\ preloaders' \in [Preloaders -> Tasks \cup {None}]
           /\ All(sessions', preloaders') = [All(sessions, preloaders) EXCEPT ![l] = x]
PROOF
    BY ServerAssumption DEF All, Readers, MapsOK

\* Getting rid of pipes leaves the others as they were.
LEMMA KeptKeeps ==
    ASSUME NEW ts \in TaskMaps, NEW ps \in PipeMaps, Serve(ps, ts), NEW u, NEW some
    PROVE  Kept(ps, ts, u, some) \in PipeMaps /\ Serve(Kept(ps, ts, u, some), ts)
PROOF
<1> DEFINE ps1 == Kept(ps, ts, u, some)
<1>1. ps1 \in PipeMaps
    BY DEF Kept, PipeMaps, Live, Places
<1>2. \A d \in Downloads : Live(ps1[d]) => ps1[d] = ps[d] /\ Live(ps[d])
    BY DEF Kept, PipeMaps, Live, Places
<1> HIDE DEF ps1
<1>3. Serve(ps1, ts)
    BY <1>2 DEF Serve
<1>4. QED
    BY <1>1, <1>3 DEF ps1

\* A pipe is opened for a task that is read.
LEMMA OpenedKeeps ==
    ASSUME NEW ts \in TaskMaps, NEW ps \in PipeMaps, Serve(ps, ts),
           NEW u \in Tasks, NEW opens, opens # {} => ts[u] # None /\ ts[u].readers # {}
    PROVE  Opened(ps, u, opens) \in PipeMaps /\ Serve(Opened(ps, u, opens), ts)
PROOF
<1> DEFINE ps1 == Opened(ps, u, opens)
<1>1. ps1 \in PipeMaps
    BY DEF Opened, PipeMaps, Places
<1>2. \A d \in Downloads : ps1[d] = ps[d] \/ (ps1[d].task = u /\ opens # {})
    BY DEF Opened
<1> HIDE DEF ps1
<1>3. Serve(ps1, ts)
    BY <1>2 DEF Serve
<1>4. QED
    BY <1>1, <1>3 DEF ps1

\* So is one that goes on, or ends, as it is the same task's.
LEMMA MovedKeeps ==
    ASSUME NEW ts \in TaskMaps, NEW ps \in PipeMaps, Serve(ps, ts),
           NEW d \in Downloads, NEW p \in [task : Tasks, at : Places],
           Live(p) => Live(ps[d]) /\ p.task = ps[d].task
    PROVE  [ps EXCEPT ![d] = p] \in PipeMaps /\ Serve([ps EXCEPT ![d] = p], ts)
PROOF
    BY DEF PipeMaps, Serve

\* Tasks that are reaped have no readers, and their pipes are told to close.
LEMMA ReapKeeps ==
    ASSUME NEW rs \in ReaderMaps, NEW ts \in TaskMaps, NEW ps \in PipeMaps,
           Agree(rs, ts), Serve(ps, ts)
    PROVE  LET ts1 == Reaped(ts, TRUE)
               ps1 == PipesOf(ps, ts1)
           IN  /\ ts1 \in TaskMaps /\ ps1 \in PipeMaps
               /\ Agree(rs, ts1) /\ Serve(ps1, ts1)
PROOF
<1> DEFINE ts1 == Reaped(ts, TRUE)
           ps1 == PipesOf(ps, ts1)
<1>1. /\ ts1 \in TaskMaps
      /\ \A u \in Tasks :
            \/ ts1[u] = ts[u]
            \/ ts[u] # None /\ ts[u].readers = {} /\ ts1[u] = None
    BY DEF Reaped, Idle, TaskMaps
<1> HIDE DEF ts1
<1>2. Agree(rs, ts1)
    BY <1>1 DEF Agree
<1>3. ps1 \in PipeMaps /\ \A d \in Downloads : Live(ps1[d]) =>
        ps1[d] = ps[d] /\ Live(ps[d]) /\ ts1[ps[d].task] # None
    BY DEF PipesOf, PipeMaps, Live, Places
<1> HIDE DEF ps1
<1>4. Serve(ps1, ts1)
    BY <1>1, <1>3 DEF Serve, PipeMaps
<1>5. QED
    BY <1>1, <1>2, <1>3, <1>4 DEF ts1, ps1

\* Neither depends on anything of a task but who reads it.
LEMMA SameReaders ==
    ASSUME NEW rs \in ReaderMaps, NEW ts \in TaskMaps, NEW ps \in PipeMaps,
           Agree(rs, ts), Serve(ps, ts),
           NEW u \in Tasks, ts[u] # None,
           NEW t \in TaskRecords, t.readers = ts[u].readers
    PROVE  LET ts1 == [ts EXCEPT ![u] = t]
           IN  ts1 \in TaskMaps /\ Agree(rs, ts1) /\ Serve(ps, ts1)
PROOF
<1> DEFINE ts1 == [ts EXCEPT ![u] = t]
<1>1. t # None
    BY ServerAssumption
<1>2. ts1 \in TaskMaps /\ \A v \in Tasks :
        (ts1[v] = None <=> ts[v] = None) /\ (ts[v] # None => ts1[v].readers = ts[v].readers)
    BY <1>1 DEF TaskMaps
<1> HIDE DEF ts1
<1>3. Agree(rs, ts1)
    BY <1>2 DEF Agree
<1>4. Serve(ps, ts1)
    BY <1>2 DEF Serve, PipeMaps
<1>5. QED
    BY <1>2, <1>3, <1>4 DEF ts1

\* The code of a task that has failed is not one of its readers.
LEMMA FailedKeeps ==
    ASSUME NEW rs \in ReaderMaps, NEW ts \in TaskMaps, NEW ps \in PipeMaps,
           Agree(rs, ts), Serve(ps, ts), NEW u \in Tasks, ts[u] # None
    PROVE  /\ FailedTask(ts, u) \in TaskMaps
           /\ Agree(rs, FailedTask(ts, u)) /\ Serve(ps, FailedTask(ts, u))
PROOF
<1> DEFINE t == [ts[u] EXCEPT !.failed = TRUE]
<1>1. ts[u] \in TaskRecords
    BY DEF TaskMaps
<1>2. t \in TaskRecords /\ t.readers = ts[u].readers
    BY <1>1 DEF TaskRecords
<1> HIDE DEF t
<1>3. LET ts1 == [ts EXCEPT ![u] = t]
      IN  ts1 \in TaskMaps /\ Agree(rs, ts1) /\ Serve(ps, ts1)
    BY <1>2, SameReaders
<1>4. QED
    BY <1>3 DEF FailedTask, t

-----------------------------------------------------------------------------

\* What a task agrees with, and what its pipes may count on.
Maps == Agree(All(sessions, preloaders), tasks) /\ Serve(pipes, tasks)
loopMaps == <<sessions, preloaders, tasks, pipes>>

\* A request of connection c leaves the maps sound: the session c had goes,
\* then the new one joins.
LEMMA StreamKeeps ==
    ASSUME MapsOK, Maps, NEW c \in Clients, NEW u \in Tasks, NEW some, NEW opens,
           Stream(c, u, some, opens)
    PROVE  MapsOK' /\ Maps'
PROOF
<1> DEFINE rs == All(sessions, preloaders)
           rs1 == [rs EXCEPT ![c] = u]
<1>1. /\ rs \in ReaderMaps /\ rs[c] = sessions[c] /\ c \in Readers
      /\ sessions[c] \in Tasks \cup {None}
    BY AllMaps DEF MapsOK
<1>2. /\ sessions' \in [Clients -> Tasks \cup {None}] /\ preloaders' = preloaders
      /\ All(sessions', preloaders') = rs1
    BY SessionMap DEF Stream
<1> HIDE DEF rs
<1>3. CASE sessions[c] = None
  <2> DEFINE ts1 == WithReader(Found(tasks, u), u, c)
             ps1 == Opened(PipesOf(pipes, ts1), u, opens)
  <2>1. /\ MayOpen(PipesOf(pipes, ts1), ts1, u, opens)
        /\ tasks' = ts1 /\ pipes' = ps1
    BY <1>3 DEF Stream, Joins
  <2>2. /\ ts1 \in TaskMaps /\ ps1 \in PipeMaps
        /\ Agree(rs1, ts1) /\ Serve(ps1, ts1)
    BY <1>1, <1>3, <2>1, JoinKeeps DEF MapsOK, Maps, rs
  <2> HIDE DEF ts1, ps1
  <2>3. QED
    BY <1>2, <2>1, <2>2 DEF MapsOK, Maps
<1>4. CASE sessions[c] # None
  <2> DEFINE old == sessions[c]
             ts0 == WithoutReader(tasks, old, c)
             ps0 == Kept(pipes, ts0, old, some)
             rs0 == [rs EXCEPT ![c] = None]
             ts1 == WithReader(Found(ts0, u), u, c)
             ps1 == Opened(PipesOf(ps0, ts1), u, opens)
  <2>1. /\ MayOpen(PipesOf(ps0, ts1), ts1, u, opens)
        /\ tasks' = ts1 /\ pipes' = ps1
    BY <1>4 DEF Stream, Joins
  <2>2. /\ ts0 \in TaskMaps /\ ps0 \in PipeMaps
        /\ Agree(rs0, ts0) /\ Serve(ps0, ts0)
    BY <1>1, <1>4, LeaveKeeps DEF MapsOK, Maps, rs
  <2>3. rs0 \in ReaderMaps /\ rs0[c] = None /\ [rs0 EXCEPT ![c] = u] = rs1
    BY <1>1 DEF ReaderMaps
  <2> HIDE DEF ts0, ps0, rs0, rs1
  <2>4. /\ ts1 \in TaskMaps /\ ps1 \in PipeMaps
        /\ Agree([rs0 EXCEPT ![c] = u], ts1) /\ Serve(ps1, ts1)
    BY <1>1, <2>1, <2>2, <2>3, JoinKeeps
  <2> HIDE DEF ts1, ps1
  <2>5. QED
    BY <1>2, <2>1, <2>3, <2>4 DEF MapsOK, Maps
<1>5. QED
    BY <1>3, <1>4

\* A session that ends, with its connection or before.
LEMMA SessionEnds ==
    ASSUME MapsOK, Maps, NEW c \in Clients, NEW some,
           sessions[c] # None, Leaves(c, sessions[c], some),
           sessions' = [sessions EXCEPT ![c] = None], UNCHANGED preloaders
    PROVE  MapsOK' /\ Maps'
PROOF
<1> DEFINE rs == All(sessions, preloaders)
           u == sessions[c]
           ts1 == WithoutReader(tasks, u, c)
           ps1 == Kept(pipes, ts1, u, some)
<1>1. rs \in ReaderMaps /\ rs[c] = u /\ c \in Readers /\ u \in Tasks
    BY AllMaps DEF MapsOK
<1>2. /\ sessions' \in [Clients -> Tasks \cup {None}]
      /\ All(sessions', preloaders') = [rs EXCEPT ![c] = None]
    BY SessionMap
<1>3. tasks' = ts1 /\ pipes' = ps1
    BY DEF Leaves
<1>4. /\ ts1 \in TaskMaps /\ ps1 \in PipeMaps
      /\ Agree([rs EXCEPT ![c] = None], ts1) /\ Serve(ps1, ts1)
    BY <1>1, LeaveKeeps DEF MapsOK, Maps
<1> HIDE DEF rs, ts1, ps1
<1>5. QED
    BY <1>2, <1>3, <1>4 DEF MapsOK, Maps

\* A preloader that joins.
LEMMA PostKeeps ==
    ASSUME MapsOK, Maps, NEW l \in Preloaders, preloaders[l] = None,
           NEW u \in Tasks, NEW opens, Joins(l, u, tasks, pipes, opens),
           preloaders' = [preloaders EXCEPT ![l] = u], UNCHANGED sessions
    PROVE  MapsOK' /\ Maps'
PROOF
<1> DEFINE rs == All(sessions, preloaders)
           ts1 == WithReader(Found(tasks, u), u, l)
           ps1 == Opened(PipesOf(pipes, ts1), u, opens)
<1>1. rs \in ReaderMaps /\ rs[l] = None /\ l \in Readers
    BY AllMaps DEF MapsOK
<1>2. /\ preloaders' \in [Preloaders -> Tasks \cup {None}]
      /\ All(sessions', preloaders') = [rs EXCEPT ![l] = u]
    BY PreloaderMap
<1>3. MayOpen(PipesOf(pipes, ts1), ts1, u, opens) /\ tasks' = ts1 /\ pipes' = ps1
    BY DEF Joins
<1>4. /\ ts1 \in TaskMaps /\ ps1 \in PipeMaps
      /\ Agree([rs EXCEPT ![l] = u], ts1) /\ Serve(ps1, ts1)
    BY <1>1, <1>3, JoinKeeps DEF MapsOK, Maps
<1> HIDE DEF rs, ts1, ps1
<1>5. QED
    BY <1>2, <1>3, <1>4 DEF MapsOK, Maps

\* One that goes.
LEMMA DeleteKeeps ==
    ASSUME MapsOK, Maps, NEW l \in Preloaders, NEW some, preloaders[l] \in Tasks,
           Leaves(l, preloaders[l], some),
           preloaders' = [preloaders EXCEPT ![l] = None], UNCHANGED sessions
    PROVE  MapsOK' /\ Maps'
PROOF
<1> DEFINE rs == All(sessions, preloaders)
           u == preloaders[l]
           ts1 == WithoutReader(tasks, u, l)
           ps1 == Kept(pipes, ts1, u, some)
<1>1. rs \in ReaderMaps /\ rs[l] = u /\ l \in Readers
    BY AllMaps DEF MapsOK
<1>2. /\ preloaders' \in [Preloaders -> Tasks \cup {None}]
      /\ All(sessions', preloaders') = [rs EXCEPT ![l] = None]
    BY PreloaderMap
<1>3. tasks' = ts1 /\ pipes' = ps1
    BY DEF Leaves
<1>4. /\ ts1 \in TaskMaps /\ ps1 \in PipeMaps
      /\ Agree([rs EXCEPT ![l] = None], ts1) /\ Serve(ps1, ts1)
    BY <1>1, LeaveKeeps DEF MapsOK, Maps
<1> HIDE DEF rs, ts1, ps1
<1>5. QED
    BY <1>2, <1>3, <1>4 DEF MapsOK, Maps

\* A task's pipes that open and close.
LEMMA PipesKeep ==
    ASSUME MapsOK, Maps, UNCHANGED <<sessions, preloaders, tasks>>,
           pipes' \in PipeMaps, Serve(pipes', tasks)
    PROVE  MapsOK' /\ Maps'
PROOF
    BY DEF MapsOK, Maps

\* The end of a connection.
LEMMA ClosedKeeps ==
    ASSUME MapsOK, Maps, NEW x, NEW some, NEW opens,
           ClientClosed(x, some) \/ PipeClosed(x, opens)
    PROVE  MapsOK' /\ Maps'
PROOF
<1>1. CASE ClientClosed(x, some)
  <2>1. CASE sessions[x] = None
    BY <1>1, <2>1 DEF ClientClosed, MapsOK, Maps
  <2>2. CASE sessions[x] # None
    BY <1>1, <2>2, SessionEnds DEF ClientClosed
  <2>3. QED
    BY <2>1, <2>2
<1>2. CASE PipeClosed(x, opens)
  <2> DEFINE u == pipes[x].task
             freed == [pipes EXCEPT ![x] = FreePipe]
  <2>1. x \in Downloads /\ UNCHANGED <<sessions, preloaders>> /\ u \in Tasks
    BY <1>2 DEF PipeClosed, MapsOK, PipeMaps
  <2>2. FreePipe \in [task : Tasks, at : Places] /\ ~Live(FreePipe)
    BY DEF FreePipe, Places, Live, Tasks
  <2>3. freed \in PipeMaps /\ Serve(freed, tasks)
    BY <2>1, <2>2, MovedKeeps DEF MapsOK, Maps
  <2> HIDE DEF freed
  <2>4. CASE pipes' = freed /\ UNCHANGED tasks
    BY <2>1, <2>3, <2>4, PipesKeep
  <2>5. CASE pipes[x].at = "redirecting" /\ pipes' = Opened(pipes, u, opens) /\ UNCHANGED tasks
    <3>1. tasks[u] # None /\ tasks[u].readers # {}
        BY <2>1, <2>5 DEF Maps, Serve, Live
    <3>2. pipes' \in PipeMaps /\ Serve(pipes', tasks)
        BY <2>1, <2>5, <3>1, OpenedKeeps DEF MapsOK, Maps
    <3>3. QED
        BY <2>1, <2>5, <3>2, PipesKeep
  <2>6. CASE /\ MayOpen(pipes, tasks, u, opens)
             /\ pipes' = Opened(freed, u, opens) /\ UNCHANGED tasks
    <3>1. opens # {} => tasks[u] # None /\ tasks[u].readers # {}
        BY <2>6 DEF MayOpen
    <3>2. pipes' \in PipeMaps /\ Serve(pipes', tasks)
        BY <2>1, <2>3, <2>6, <3>1, OpenedKeeps DEF MapsOK
    <3>3. QED
        BY <2>1, <2>6, <3>2, PipesKeep
  <2>7. CASE pipes[x].at = "connecting" /\ pipes' = freed /\ tasks' = FailedTask(tasks, u)
    <3>1. tasks[u] # None
        BY <2>1, <2>7 DEF Maps, Serve, Live
    <3>2. /\ tasks' \in TaskMaps
          /\ Agree(All(sessions, preloaders), tasks') /\ Serve(pipes', tasks')
        BY <2>1, <2>3, <2>7, <3>1, AllMaps, FailedKeeps DEF MapsOK, Maps
    <3>3. QED
        BY <2>1, <2>3, <2>7, <3>2 DEF MapsOK, Maps
  <2>8. QED
    BY <1>2, <2>4, <2>5, <2>6, <2>7 DEF PipeClosed, freed
<1>3. QED
    BY <1>1, <1>2

\* Only the loop looks resources up.
LookInLoop == look # NoLook => pc \in {"loop", "last"}

Sound == MapsOK /\ Maps /\ IdsSound /\ LookSound /\ LookInLoop

\* A look-up that has found something has found the URL of a task.
LEMMA FoundUrl ==
    ASSUME IdsSound, LookSound, look # NoLook, look.result = "found",
           NEW u \in UrlsFound
    PROVE  u \in Tasks
PROOF
<1>1. CASE look.stale
    BY <1>1 DEF UrlsFound, Tasks
<1>2. CASE ~look.stale
  <2>1. look.id \in DOMAIN resources
    BY <1>2 DEF LookSound, WalkSound, Listed
  <2>2. u = resources[look.id].url
    BY <1>2 DEF UrlsFound
  <2>3. QED
    BY <2>1, <2>2 DEF IdsSound, Tasks
<1>3. QED
    BY <1>1, <1>2

\* The list of resources stays sound as long as nobody touches it.
LEMMA ResourcesKept ==
    ASSUME IdsSound, LookSound, UNCHANGED resourceVars
    PROVE  IdsSound' /\ LookSound'
PROOF
    BY DEF IdsSound, LookSound, WalkSound, Truth, Listed, resourceVars

\* Nor does the end of a look-up.
LEMMA LookEnds ==
    ASSUME IdsSound, look' = NoLook, UNCHANGED <<resources, lastId, gone>>
    PROVE  IdsSound' /\ LookSound' /\ LookInLoop'
PROOF
    BY DEF IdsSound, LookSound, LookInLoop

\* Nothing at all moves.
LEMMA MapsKept ==
    ASSUME MapsOK, Maps, UNCHANGED loopMaps
    PROVE  MapsOK' /\ Maps'
PROOF
    BY DEF MapsOK, Maps, loopMaps

\* Empty maps are sound.
LEMMA EmptySound ==
    ASSUME sessions = [c \in Clients |-> None], preloaders = [l \in Preloaders |-> None],
           tasks = [u \in Tasks |-> None], pipes = [d \in Downloads |-> FreePipe]
    PROVE  MapsOK /\ Maps
PROOF
<1>1. MapsOK
    BY DEF MapsOK, TaskMaps, PipeMaps, FreePipe, Places, Tasks
<1>2. \A r \in Readers : All(sessions, preloaders)[r] = None
    BY DEF All, Readers
<1>3. Agree(All(sessions, preloaders), tasks)
    BY <1>2, ServerAssumption DEF Agree
<1>4. Serve(pipes, tasks)
    BY DEF Serve, FreePipe, Live
<1>5. QED
    BY <1>1, <1>3, <1>4 DEF Maps

\* The invariant holds at the start.
LEMMA InitSound == Init => Sound
PROOF
<1> SUFFICES ASSUME Init PROVE Sound
    OBVIOUS
<1>1. MapsOK /\ Maps
    BY EmptySound DEF Init
<1>2. IdsSound /\ LookSound /\ LookInLoop
  <2>1. DOMAIN resources = {} /\ lastId = 0 /\ gone = {} /\ look = NoLook
    BY DEF Init, ResourceInit
  <2>2. resources \in [DOMAIN resources -> [url : Urls, ref : Nat]]
    BY DEF Init, ResourceInit
  <2>3. QED
    BY <2>1, <2>2 DEF IdsSound, LookSound, LookInLoop
<1>3. QED
    BY <1>1, <1>2 DEF Sound

-----------------------------------------------------------------------------

\* The steps of the server's thread that change the maps.
LEMMA MapSteps ==
    ASSUME Sound, Next PROVE MapsOK' /\ Maps'
PROOF
<1>0. MapsOK /\ Maps /\ IdsSound /\ LookSound
    BY DEF Sound
<1>1. CASE AsyncStart \/ Stop \/ EnterLoop \/ BeginFree \/ EndServer \/ Application
           \/ LookStep \/ ReadNull
    BY <1>0, <1>1, MapsKept DEF AsyncStart, Stop, EnterLoop, BeginFree, EndServer, Application,
        LookStep, ReadNull, loopVars, loopMaps
<1>2. CASE StartServer
  <2>1. /\ sessions' = [c \in Clients |-> None] /\ preloaders' = [l \in Preloaders |-> None]
        /\ tasks' = [u \in Tasks |-> None] /\ pipes' = [d \in Downloads |-> FreePipe]
    BY <1>2 DEF StartServer
  <2>2. MapsOK'
    BY <2>1 DEF MapsOK, TaskMaps, PipeMaps, FreePipe, Places, Tasks
  <2>3. \A r \in Readers : All(sessions', preloaders')[r] = None
    BY <2>1 DEF All, Readers
  <2>4. Agree(All(sessions', preloaders'), tasks')
    BY <2>1, <2>3, ServerAssumption DEF Agree
  <2>5. Serve(pipes', tasks')
    BY <2>1 DEF Serve, FreePipe, Live
  <2>6. QED
    BY <2>2, <2>4, <2>5 DEF Maps
<1>3. CASE LeaveLoop
  <2> DEFINE ts1 == Reaped(tasks, TRUE)
             ps1 == PipesOf(pipes, ts1)
  <2>1. tasks' = ts1 /\ pipes' = ps1 /\ UNCHANGED <<sessions, preloaders>>
    BY <1>3 DEF LeaveLoop
  <2>2. /\ ts1 \in TaskMaps /\ ps1 \in PipeMaps
        /\ Agree(All(sessions, preloaders), ts1) /\ Serve(ps1, ts1)
    BY <1>0, AllMaps, ReapKeeps DEF MapsOK, Maps
  <2> HIDE DEF ts1, ps1
  <2>3. QED
    BY <1>0, <2>1, <2>2 DEF MapsOK, Maps
<1>4. ASSUME NEW u \in Tasks, Age(u) PROVE MapsOK' /\ Maps'
  <2> DEFINE t == [tasks[u] EXCEPT !.aged = TRUE]
  <2>1. /\ tasks[u] # None /\ tasks' = [tasks EXCEPT ![u] = t]
        /\ UNCHANGED <<sessions, preloaders, pipes>>
    BY <1>4 DEF Age, Idle
  <2>2. tasks[u] \in TaskRecords
    BY <1>0, <2>1 DEF MapsOK, TaskMaps
  <2>3. t \in TaskRecords /\ t.readers = tasks[u].readers
    BY <2>2 DEF TaskRecords
  <2> HIDE DEF t
  <2>4. LET ts1 == [tasks EXCEPT ![u] = t]
        IN  /\ ts1 \in TaskMaps /\ Agree(All(sessions, preloaders), ts1)
            /\ Serve(pipes, ts1)
    BY <1>0, <2>1, <2>3, AllMaps, SameReaders DEF MapsOK, Maps
  <2>5. QED
    BY <1>0, <2>1, <2>4 DEF MapsOK, Maps
<1>5. ASSUME NEW c \in Clients, NEW op, NEW id, Accept(c) \/ AskResource(c, op, id)
      PROVE  MapsOK' /\ Maps'
    BY <1>0, <1>5, MapsKept DEF Accept, AskResource, loopVars, loopMaps
<1>6. ASSUME NEW c \in Clients, NEW u \in Urls, NEW some \in Some, NEW opens \in Opens,
             AskUrl(c, u, some, opens)
      PROVE  MapsOK' /\ Maps'
    BY <1>0, <1>6, StreamKeeps DEF AskUrl, Tasks
<1>7. ASSUME NEW some \in Some, NEW opens \in Opens, StreamAnswer(some, opens)
      PROVE  MapsOK' /\ Maps'
  <2>1. look.nc \in Clients
    BY <1>0, <1>7 DEF StreamAnswer, Answers, LookSound, LookRecords
  <2>2. CASE look # NoLook /\ look.result = "found"
    <3>1. PICK u \in UrlsFound : Stream(look.nc, u, some, opens)
        BY <1>7, <2>2 DEF StreamAnswer, Answers
    <3>2. QED
        BY <1>0, <2>1, <2>2, <3>1, FoundUrl, StreamKeeps
  <2>3. CASE Stream(look.nc, NoUrl, some, opens)
    BY <1>0, <2>1, <2>3, StreamKeeps DEF Tasks
  <2>4. QED
    BY <1>7, <2>2, <2>3 DEF StreamAnswer, Answers
<1>8. ASSUME NEW l \in Preloaders, NEW opens \in Opens, PostAnswer(l, opens)
      PROVE  MapsOK' /\ Maps'
  <2>1. /\ look # NoLook /\ look.result = "found" /\ preloaders[l] = None
        /\ UNCHANGED sessions
    BY <1>8 DEF PostAnswer, Answers
  <2>2. PICK u \in UrlsFound :
            Joins(l, u, tasks, pipes, opens) /\ preloaders' = [preloaders EXCEPT ![l] = u]
    BY <1>8 DEF PostAnswer
  <2>3. u \in Tasks
    BY <1>0, <2>1, FoundUrl
  <2>4. QED
    BY <1>0, <2>1, <2>2, <2>3, PostKeeps
<1>9. ASSUME NEW some \in Some, DeleteAnswer(some) PROVE MapsOK' /\ Maps'
  <2>1. look # NoLook /\ look.result = "found" /\ UNCHANGED sessions
    BY <1>9 DEF DeleteAnswer, Answers
  <2>2. PICK u \in UrlsFound :
        \/ \E l \in Preloaders :
            /\ preloaders[l] = u /\ Leaves(l, u, some)
            /\ preloaders' = [preloaders EXCEPT ![l] = None]
        \/ UNCHANGED <<preloaders, tasks, pipes>>
    BY <1>9 DEF DeleteAnswer
  <2>3. u \in Tasks
    BY <1>0, <2>1, FoundUrl
  <2>4. ASSUME NEW l \in Preloaders, preloaders[l] = u, Leaves(l, u, some),
               preloaders' = [preloaders EXCEPT ![l] = None]
        PROVE  MapsOK' /\ Maps'
    BY <1>0, <2>1, <2>3, <2>4, DeleteKeeps
  <2>5. QED
    BY <1>0, <2>1, <2>2, <2>4, MapsKept DEF loopMaps
<1>10. ASSUME NEW c \in Clients, NEW some \in Some, SessionDone(c, some)
       PROVE  MapsOK' /\ Maps'
    BY <1>0, <1>10, SessionEnds DEF SessionDone
<1>11. ASSUME NEW u \in Tasks, NEW some \in Some, NEW opens \in Opens, Dispatch(u, some, opens)
       PROVE  MapsOK' /\ Maps'
  <2> DEFINE ps == Kept(pipes, tasks, u, some)
  <2>1. /\ MayOpen(ps, tasks, u, opens) /\ pipes' = Opened(ps, u, opens)
        /\ UNCHANGED <<sessions, preloaders, tasks>>
    BY <1>11 DEF Dispatch
  <2>2. ps \in PipeMaps /\ Serve(ps, tasks)
    BY <1>0, KeptKeeps DEF MapsOK, Maps
  <2> HIDE DEF ps
  <2>3. opens # {} => tasks[u] # None /\ tasks[u].readers # {}
    BY <2>1 DEF MayOpen
  <2>4. pipes' \in PipeMaps /\ Serve(pipes', tasks)
    BY <1>0, <2>1, <2>2, <2>3, OpenedKeeps DEF MapsOK
  <2>5. QED
    BY <1>0, <2>1, <2>4, PipesKeep
<1>12. ASSUME NEW d \in Downloads, NEW to \in {"replying", "redirecting"}, PipeMoves(d, to)
       PROVE  MapsOK' /\ Maps'
  <2> DEFINE p == [pipes[d] EXCEPT !.at = to]
  <2>1. /\ Live(pipes[d]) /\ pipes' = [pipes EXCEPT ![d] = p]
        /\ UNCHANGED <<sessions, preloaders, tasks>>
    BY <1>12 DEF PipeMoves, Live
  <2>2. p \in [task : Tasks, at : Places] /\ p.task = pipes[d].task
    BY <1>0 DEF MapsOK, PipeMaps, Places
  <2> HIDE DEF p
  <2>3. pipes' \in PipeMaps /\ Serve(pipes', tasks)
    BY <1>0, <2>1, <2>2, MovedKeeps DEF MapsOK, Maps
  <2>4. QED
    BY <1>0, <2>1, <2>3, PipesKeep
<1>13. ASSUME NEW d \in Downloads PROVE
         LET ps == [pipes EXCEPT ![d].at = "closing"]
         IN  ps \in PipeMaps /\ Serve(ps, tasks)
  <2> DEFINE p == [pipes[d] EXCEPT !.at = "closing"]
  <2>1. p \in [task : Tasks, at : Places] /\ ~Live(p)
    BY <1>0 DEF MapsOK, PipeMaps, Places, Live
  <2> HIDE DEF p
  <2>2. [pipes EXCEPT ![d] = p] \in PipeMaps /\ Serve([pipes EXCEPT ![d] = p], tasks)
    BY <1>0, <2>1, MovedKeeps DEF MapsOK, Maps
  <2>3. QED
    BY <2>2 DEF p
<1>14. ASSUME NEW d \in Downloads, NEW opens \in Opens, PipeCompletes(d, opens)
       PROVE  MapsOK' /\ Maps'
  <2> DEFINE ps == [pipes EXCEPT ![d].at = "closing"]
             u == pipes[d].task
  <2>1. /\ MayOpen(ps, tasks, u, opens) /\ pipes' = Opened(ps, u, opens)
        /\ UNCHANGED <<sessions, preloaders, tasks>>
    BY <1>14 DEF PipeCompletes
  <2>2. ps \in PipeMaps /\ Serve(ps, tasks) /\ u \in Tasks
    BY <1>0, <1>13 DEF MapsOK, PipeMaps
  <2> HIDE DEF ps, u
  <2>3. opens # {} => tasks[u] # None /\ tasks[u].readers # {}
    BY <2>1 DEF MayOpen
  <2>4. pipes' \in PipeMaps /\ Serve(pipes', tasks)
    BY <1>0, <2>1, <2>2, <2>3, OpenedKeeps DEF MapsOK
  <2>5. QED
    BY <1>0, <2>1, <2>4, PipesKeep
<1>15. ASSUME NEW d \in Downloads, PipeFails(d) PROVE MapsOK' /\ Maps'
  <2> DEFINE ps == [pipes EXCEPT ![d].at = "closing"]
             u == pipes[d].task
  <2>1. /\ tasks' = FailedTask(tasks, u) /\ pipes' = ps
        /\ UNCHANGED <<sessions, preloaders>>
    BY <1>15 DEF PipeFails
  <2>2. ps \in PipeMaps /\ Serve(ps, tasks) /\ u \in Tasks
    BY <1>0, <1>13 DEF MapsOK, PipeMaps
  <2>3. tasks[u] # None
    BY <1>0, <1>15 DEF PipeFails, Maps, Serve, Live
  <2> HIDE DEF ps, u
  <2>4. /\ tasks' \in TaskMaps
        /\ Agree(All(sessions, preloaders), tasks') /\ Serve(pipes', tasks')
    BY <1>0, <2>1, <2>2, <2>3, AllMaps, FailedKeeps DEF MapsOK, Maps
  <2>5. QED
    BY <1>0, <2>1, <2>2, <2>4 DEF MapsOK, Maps
<1>16. ASSUME NEW x \in Clients \cup Downloads, NEW some \in Some, NEW opens \in Opens,
              Gone(x, some, opens)
       PROVE  MapsOK' /\ Maps'
    BY <1>0, <1>16, ClosedKeeps DEF Gone
<1>17. ASSUME NEW some \in Some, NEW opens \in Opens, CloseNext(some, opens)
       PROVE  MapsOK' /\ Maps'
    BY <1>0, <1>17, ClosedKeeps DEF CloseNext
<1>18. QED
    BY <1>1, <1>2, <1>3, <1>4, <1>5, <1>6, <1>7, <1>8, <1>9, <1>10, <1>11, <1>12, <1>14,
       <1>15, <1>16, <1>17 DEF Next

\* The list of resources and the look-up in it.
LEMMA ResourceSteps ==
    ASSUME Sound, Next PROVE IdsSound' /\ LookSound' /\ LookInLoop'
PROOF
<1>0. IdsSound /\ LookSound /\ LookInLoop
    BY DEF Sound
<1>1. ASSUME UNCHANGED resourceVars, look = NoLook \/ pc' = pc
      PROVE  IdsSound' /\ LookSound' /\ LookInLoop'
    BY <1>0, <1>1, ResourcesKept DEF LookInLoop, resourceVars
<1>2. CASE AsyncStart \/ Stop \/ EnterLoop \/ LeaveLoop \/ BeginFree \/ EndServer
    BY <1>0, <1>1, <1>2 DEF AsyncStart, Stop, EnterLoop, LeaveLoop, BeginFree, EndServer,
        LookInLoop
<1>3. CASE StartServer
  <2>1. look = NoLook /\ look' = NoLook
    BY <1>0, <1>3 DEF StartServer, LookInLoop
  <2>2. /\ DOMAIN resources' = {} /\ resources' \in [DOMAIN resources' -> [url : Urls, ref : Nat]]
        /\ gone' = gone \cup DOMAIN resources /\ lastId' = lastId
    BY <1>3 DEF StartServer
  <2>3. IdsSound'
    BY <1>0, <2>2 DEF IdsSound
  <2>4. QED
    BY <2>1, <2>3 DEF LookSound, LookInLoop
<1>4. CASE Application
  <2>1. IdsSound' /\ LookSound' /\ pc' = pc
    BY <1>0, <1>4, AddKeeps, ShareKeeps, RemoveKeeps DEF Application, lifeVars
  <2>2. look = NoLook => look' = NoLook
    BY <1>4 DEF Application, AddResource, ShareResource, RemoveResource, Noticed, Reads
  <2>3. QED
    BY <1>0, <2>1, <2>2 DEF LookInLoop
<1>5. CASE LookStep
    BY <1>0, <1>5, LookKeeps DEF LookStep, LookOn, LookInLoop, lifeVars
<1>6. ASSUME NEW c \in Clients, NEW op \in Ops, NEW id \in Ids, AskResource(c, op, id)
      PROVE  IdsSound' /\ LookSound' /\ LookInLoop'
  <2>1. StartLook(op, c, id) /\ pc \in {"loop", "last"} /\ pc' = pc
    BY <1>6 DEF AskResource, Served, InLoop, lifeVars
  <2>2. QED
    BY <1>0, <2>1, StartKeeps DEF LookInLoop
<1>7. ASSUME NEW l, NEW some, NEW opens,
             ReadNull \/ StreamAnswer(some, opens) \/ PostAnswer(l, opens) \/ DeleteAnswer(some)
      PROVE  IdsSound' /\ LookSound' /\ LookInLoop'
  <2>1. look' = NoLook /\ UNCHANGED <<resources, lastId, gone>>
    BY <1>7 DEF ReadNull, StreamAnswer, PostAnswer, DeleteAnswer, Answers
  <2>2. QED
    BY <1>0, <2>1, LookEnds
<1>8. ASSUME NEW u, Age(u) PROVE IdsSound' /\ LookSound' /\ LookInLoop'
    BY <1>1, <1>8 DEF Age, lifeVars
<1>9. ASSUME NEW c, NEW u, NEW some, NEW opens,
             Accept(c) \/ AskUrl(c, u, some, opens) \/ SessionDone(c, some)
      PROVE  IdsSound' /\ LookSound' /\ LookInLoop'
    BY <1>1, <1>9 DEF Accept, AskUrl, SessionDone, lifeVars
<1>10. ASSUME NEW d, NEW u, NEW to, NEW some, NEW opens,
              \/ Dispatch(u, some, opens) \/ PipeMoves(d, to) \/ PipeCompletes(d, opens)
              \/ PipeFails(d)
       PROVE  IdsSound' /\ LookSound' /\ LookInLoop'
    BY <1>1, <1>10 DEF Dispatch, PipeMoves, PipeCompletes, PipeFails, lifeVars
<1>11. ASSUME NEW x, NEW some, NEW opens, Gone(x, some, opens) \/ CloseNext(some, opens)
       PROVE  IdsSound' /\ LookSound' /\ LookInLoop'
    BY <1>1, <1>11 DEF Gone, CloseNext, lifeVars
<1>12. QED
    BY <1>2, <1>3, <1>4, <1>5, <1>6, <1>7, <1>8, <1>9, <1>10, <1>11 DEF Next

\* Every step of Server keeps the invariant.
LEMMA StepSound == Sound /\ [Next]_vars => Sound'
PROOF
<1> SUFFICES ASSUME Sound, [Next]_vars PROVE Sound'
    OBVIOUS
<1>1. CASE Next
    BY <1>1, MapSteps, ResourceSteps DEF Sound
<1>2. CASE UNCHANGED vars
  <2>1. UNCHANGED <<loopMaps, resourceVars, pc>>
    BY <1>2 DEF vars, loopVars, loopMaps, lifeVars
  <2>2. MapsOK' /\ Maps'
    BY <2>1, MapsKept DEF Sound
  <2>3. QED
    BY <2>1, <2>2, ResourcesKept DEF Sound, LookInLoop, resourceVars
<1>3. QED
    BY <1>1, <1>2

\* The invariant holds in every behaviour.
LEMMA SpecSound == Spec => []Sound
PROOF
    BY InitSound, StepSound, PTL DEF Spec

-----------------------------------------------------------------------------

\* A session or a preloader and its task always know one another, whatever
\* requests, closings and reapings there were.
THEOREM ReadersAlwaysMatch == Spec => []ReadersMatch
PROOF
<1>1. Sound => ReadersMatch
  <2> SUFFICES ASSUME Sound, NEW u \in Tasks
               PROVE  IF tasks[u] = None THEN Pointing(u) = {}
                      ELSE tasks[u].readers = Pointing(u)
    BY DEF ReadersMatch
  <2>1. Pointing(u) = {r \in Readers : All(sessions, preloaders)[r] = u}
    BY AllMaps DEF Sound, Pointing, Readers
  <2>2. QED
    BY <2>1 DEF Sound, Maps, Agree
<1>2. QED
    BY <1>1, SpecSound, PTL

\* A download that may still call its task finds it there, and read.
THEOREM PipesAlwaysHaveReaders == Spec => []PipesHaveReaders
PROOF
<1>1. Sound => PipesHaveReaders
    BY DEF Sound, Maps, Serve, PipesHaveReaders
<1>2. QED
    BY <1>1, SpecSound, PTL

\* A look-up is right, whatever the application does to the list meanwhile.
THEOREM LookupAlwaysFresh == Spec => []LookupIsFresh
PROOF
<1>1. Sound => LookupIsFresh
    BY SoundIsFresh DEF Sound
<1>2. QED
    BY <1>1, SpecSound, PTL

\* No id is used twice, over any number of starts and stops.
THEOREM IdsAlwaysOnce == Spec => []IdsOnce
PROOF
<1>1. Sound => IdsOnce
    BY DEF Sound, IdsSound, IdsOnce
<1>2. QED
    BY <1>1, SpecSound, PTL

-----------------------------------------------------------------------------
\* The connections: that mongoose's list and the maps know of the same ones.

In(x, cs) == \E i \in 1..Len(cs) : cs[i] = x
Distinct(cs) == \A i, j \in 1..Len(cs) : cs[i] = cs[j] => i = j
Conns == Clients \cup Downloads

\* A connection that is put in front of a list it was not in.
LEMMA PutFirst ==
    ASSUME NEW S, NEW cs \in Seq(S), NEW x \in S, Distinct(cs), ~In(x, cs)
    PROVE  /\ <<x>> \o cs \in Seq(S) /\ Distinct(<<x>> \o cs)
           /\ \A y : In(y, <<x>> \o cs) <=> y = x \/ In(y, cs)
PROOF
<1> DEFINE ds == <<x>> \o cs
<1>1. ds \in Seq(S) /\ Len(ds) = Len(cs) + 1 /\ Len(cs) \in Nat
    OBVIOUS
<1>2. ds[1] = x /\ \A i \in 1..Len(cs) : ds[i + 1] = cs[i]
    OBVIOUS
<1>3. \A i \in 1..Len(ds) : i = 1 \/ (i - 1 \in 1..Len(cs) /\ ds[i] = cs[i - 1])
    BY <1>1, <1>2
<1> HIDE DEF ds
<1>4. Distinct(ds)
  <2> SUFFICES ASSUME NEW i \in 1..Len(ds), NEW j \in 1..Len(ds), ds[i] = ds[j]
               PROVE  i = j
    BY DEF Distinct
  <2>1. CASE i = 1 /\ j # 1
    BY <1>2, <1>3, <2>1 DEF In
  <2>2. CASE i # 1 /\ j = 1
    BY <1>2, <1>3, <2>2 DEF In
  <2>3. CASE i # 1 /\ j # 1
    <3>1. /\ i - 1 \in 1..Len(cs) /\ j - 1 \in 1..Len(cs)
          /\ cs[i - 1] = cs[j - 1]
        BY <1>3, <2>3
    <3>2. i - 1 = j - 1
        BY <3>1 DEF Distinct
    <3>3. QED
        BY <3>2, <1>1
  <2>4. QED
    BY <2>1, <2>2, <2>3
<1>5. ASSUME NEW y PROVE In(y, ds) <=> y = x \/ In(y, cs)
  <2>1. ASSUME In(y, ds) PROVE y = x \/ In(y, cs)
    BY <1>2, <1>3, <2>1 DEF In
  <2>2. ASSUME y = x PROVE In(y, ds)
    <3>1. 1 \in 1..Len(ds)
        BY <1>1
    <3>2. QED
        BY <1>2, <2>2, <3>1 DEF In
  <2>3. ASSUME In(y, cs) PROVE In(y, ds)
    <3>1. PICK i \in 1..Len(cs) : cs[i] = y
        BY <2>3 DEF In
    <3>2. i + 1 \in 1..Len(ds) /\ ds[i + 1] = y
        BY <1>1, <1>2, <3>1
    <3>3. QED
        BY <3>2 DEF In
  <2>4. QED
    BY <2>1, <2>2, <2>3
<1>6. QED
    BY <1>1, <1>4, <1>5 DEF ds

\* One that is taken out.
LEMMA DropOne ==
    ASSUME NEW S, NEW cs \in Seq(S), NEW x, Distinct(cs), In(x, cs)
    PROVE  /\ DropConn(cs, x) \in Seq(S) /\ Distinct(DropConn(cs, x))
           /\ \A y : In(y, DropConn(cs, x)) <=> y # x /\ In(y, cs)
PROOF
<1> DEFINE n == Len(cs)
           k == CHOOSE i \in 1..Len(cs) : cs[i] = x
           front == SubSeq(cs, 1, k - 1)
           back == SubSeq(cs, k + 1, n)
           ds == front \o back
<1>1. k \in 1..n /\ cs[k] = x /\ n \in Nat
    BY DEF In
<1> HIDE DEF k
<1>2. /\ front \in Seq(S) /\ Len(front) = k - 1
      /\ \A i \in 1..(k - 1) : front[i] = cs[i]
    BY <1>1
<1>3. /\ back \in Seq(S) /\ Len(back) = n - k
      /\ \A i \in 1..(n - k) : back[i] = cs[k + i]
    BY <1>1
<1> HIDE DEF front, back
<1> HIDE DEF n
<1>4. ds \in Seq(S) /\ Len(ds) = n - 1
  <2>1. ds \in Seq(S) /\ Len(ds) = Len(front) + Len(back)
    BY <1>2, <1>3, ConcatProperties
  <2>2. QED
    BY <1>1, <1>2, <1>3, <2>1
<1>5. /\ \A i \in 1..(k - 1) : ds[i] = cs[i]
      /\ \A i \in k..(n - 1) : ds[i] = cs[i + 1]
  <2>1. \A i \in 1..(Len(front) + Len(back)) :
            ds[i] = IF i <= Len(front) THEN front[i] ELSE back[i - Len(front)]
    BY <1>2, <1>3, ConcatProperties
  <2>2. ASSUME NEW i \in 1..(k - 1) PROVE ds[i] = cs[i]
    <3>1. i \in 1..(Len(front) + Len(back)) /\ i <= Len(front)
        BY <1>1, <1>2, <1>3
    <3>2. QED
        BY <1>2, <2>1, <3>1
  <2>3. ASSUME NEW i \in k..(n - 1) PROVE ds[i] = cs[i + 1]
    <3>1. /\ i \in 1..(Len(front) + Len(back)) /\ ~(i <= Len(front))
          /\ i - Len(front) \in 1..(n - k) /\ k + (i - Len(front)) = i + 1
        BY <1>1, <1>2, <1>3
    <3>2. QED
        BY <1>3, <2>1, <3>1
  <2>4. QED
    BY <2>2, <2>3
<1> HIDE DEF ds
<1> DEFINE At(i) == IF i < k THEN i ELSE i + 1
<1>6. \A i \in 1..(n - 1) : At(i) \in 1..n /\ At(i) # k /\ ds[i] = cs[At(i)]
    BY <1>1, <1>5
<1>7. \A i, j \in 1..(n - 1) : At(i) = At(j) => i = j
    BY <1>1
<1>8. \A m \in 1..n : m # k => \E i \in 1..(n - 1) : At(i) = m
  <2> SUFFICES ASSUME NEW m \in 1..n, m # k PROVE \E i \in 1..(n - 1) : At(i) = m
    OBVIOUS
  <2>1. CASE m < k
    BY <1>1, <2>1
  <2>2. CASE m > k
    <3>1. m - 1 \in 1..(n - 1) /\ At(m - 1) = m
        BY <1>1, <2>2
    <3>2. QED
        BY <3>1
  <2>3. QED
    BY <1>1, <2>1, <2>2
<1> HIDE DEF At, n
<1>9. Distinct(ds)
  <2> SUFFICES ASSUME NEW i \in 1..(n - 1), NEW j \in 1..(n - 1), ds[i] = ds[j]
               PROVE  i = j
    BY <1>4 DEF Distinct
  <2>1. At(i) = At(j)
    BY <1>6 DEF Distinct, n
  <2>2. QED
    BY <1>7, <2>1
<1>10. ASSUME NEW y PROVE In(y, ds) <=> y # x /\ In(y, cs)
  <2>1. ASSUME In(y, ds) PROVE y # x /\ In(y, cs)
    <3>1. PICK i \in 1..(n - 1) : ds[i] = y
        BY <1>4, <2>1 DEF In
    <3>2. At(i) \in 1..n /\ At(i) # k /\ cs[At(i)] = y
        BY <1>6, <3>1
    <3>3. y # x
        BY <1>1, <3>2 DEF Distinct, n
    <3>4. QED
        BY <3>2, <3>3 DEF In, n
  <2>2. ASSUME y # x, In(y, cs) PROVE In(y, ds)
    <3>1. PICK m \in 1..n : cs[m] = y
        BY <2>2 DEF In, n
    <3>2. m # k
        BY <1>1, <2>2, <3>1
    <3>3. PICK i \in 1..(n - 1) : At(i) = m
        BY <1>8, <3>2
    <3>4. ds[i] = y
        BY <1>6, <3>1, <3>3
    <3>5. QED
        BY <1>4, <3>4 DEF In
  <2>3. QED
    BY <2>1, <2>2
<1>11. QED
    BY <1>4, <1>9, <1>10 DEF ds, front, back, k, n, DropConn

\* The rest of a list.
LEMMA RestIs ==
    ASSUME NEW S, NEW cs \in Seq(S), cs # << >>, Distinct(cs)
    PROVE  /\ Tail(cs) \in Seq(S) /\ Distinct(Tail(cs)) /\ In(Head(cs), cs)
           /\ Head(cs) \in S
           /\ \A y : In(y, Tail(cs)) <=> y # Head(cs) /\ In(y, cs)
PROOF
<1> DEFINE ds == Tail(cs)
           n == Len(cs)
<1>1. ds \in Seq(S) /\ Len(ds) = n - 1 /\ n \in Nat /\ n > 0
    OBVIOUS
<1>2. Head(cs) = cs[1] /\ cs[1] \in S /\ \A i \in 1..(n - 1) : ds[i] = cs[i + 1]
    OBVIOUS
<1> HIDE DEF ds
<1>3. Distinct(ds)
  <2> SUFFICES ASSUME NEW i \in 1..(n - 1), NEW j \in 1..(n - 1), ds[i] = ds[j]
               PROVE  i = j
    BY <1>1 DEF Distinct
  <2>1. i + 1 \in 1..n /\ j + 1 \in 1..n /\ cs[i + 1] = cs[j + 1]
    BY <1>1, <1>2
  <2>2. i + 1 = j + 1
    BY <2>1 DEF Distinct
  <2>3. QED
    BY <1>1, <2>2
<1>4. ASSUME NEW y PROVE In(y, ds) <=> y # Head(cs) /\ In(y, cs)
  <2>1. ASSUME In(y, ds) PROVE y # Head(cs) /\ In(y, cs)
    <3>1. PICK i \in 1..(n - 1) : ds[i] = y
        BY <1>1, <2>1 DEF In
    <3>2. i + 1 \in 1..n /\ i + 1 # 1 /\ cs[i + 1] = y /\ 1 \in 1..n
        BY <1>1, <1>2, <3>1
    <3>3. QED
        BY <1>2, <3>2 DEF In, Distinct
  <2>2. ASSUME y # Head(cs), In(y, cs) PROVE In(y, ds)
    <3>1. PICK m \in 1..n : cs[m] = y
        BY <2>2 DEF In
    <3>2. m - 1 \in 1..(n - 1) /\ (m - 1) + 1 = m
        BY <1>1, <1>2, <2>2, <3>1
    <3>3. ds[m - 1] = y
        BY <1>2, <3>1, <3>2
    <3>4. QED
        BY <1>1, <3>2, <3>3 DEF In
  <2>3. QED
    BY <2>1, <2>2
<1>5. In(Head(cs), cs)
    BY <1>1, <1>2 DEF In
<1>6. QED
    BY <1>1, <1>2, <1>3, <1>4, <1>5 DEF ds

-----------------------------------------------------------------------------

\* The list has each connection once, and those of the pipes in use.
ListSound(cs, ps) ==
    /\ cs \in Seq(Conns) /\ Distinct(cs)
    /\ \A d \in Downloads : In(d, cs) <=> ps[d].at # "free"

\* It has those of the sessions.
Has(cs, ss) == \A c \in Clients : ss[c] # None => In(c, cs)

\* What mg_mgr_free() has still to close is in the list, and has every session.
Closing ==
    /\ Distinct(toClose) /\ Has(toClose, sessions)
    /\ \A x : In(x, toClose) => In(x, conns)

ConnSound ==
    /\ ListSound(conns, pipes) /\ Has(conns, sessions) /\ toClose \in Seq(Conns)
    /\ look # NoLook => In(look.nc, conns)
    /\ status = "idle" => pc = "none" /\ \A c \in Clients : sessions[c] = None
    /\ pc = "closing" => Closing

\* The same pipes are in use.
SameUse(ps, qs) == \A d \in Downloads : ps[d].at = "free" <=> qs[d].at = "free"

\* A task that gets rid of its pipes closes their connections later.
LEMMA KeptUses ==
    ASSUME NEW ps \in PipeMaps, NEW ts, NEW u, NEW some
    PROVE  /\ Kept(ps, ts, u, some) \in PipeMaps
           /\ SameUse(Kept(ps, ts, u, some), ps)
PROOF
    BY DEF Kept, PipeMaps, Live, Places, SameUse

\* The pipes of tasks that are gone are in use until they have closed.
LEMMA PipesOfUses ==
    ASSUME NEW ps \in PipeMaps, NEW ts
    PROVE  PipesOf(ps, ts) \in PipeMaps /\ SameUse(PipesOf(ps, ts), ps)
PROOF
    BY DEF PipesOf, PipeMaps, Live, Places, SameUse

\* A list is as sound for other pipes in use.
LEMMA SameSound ==
    ASSUME NEW cs, NEW ps, NEW qs, ListSound(cs, ps), SameUse(qs, ps)
    PROVE  ListSound(cs, qs)
PROOF
    BY DEF ListSound, SameUse

\* A pipe that is opened has its connection put in the list, and nothing of
\* the list goes.
LEMMA OpenedSound ==
    ASSUME NEW cs, NEW ps \in PipeMaps, NEW u, NEW opens, ListSound(cs, ps),
           opens \subseteq {d \in Downloads : ps[d].at = "free"},
           \A d, e \in opens : d = e
    PROVE  /\ ListSound(AddConns(cs, opens), Opened(ps, u, opens))
           /\ \A x : In(x, cs) => In(x, AddConns(cs, opens))
PROOF
<1>1. CASE opens = {}
  <2>1. AddConns(cs, opens) = cs /\ SameUse(Opened(ps, u, opens), ps)
    BY <1>1 DEF AddConns, Opened, SameUse
  <2>2. QED
    BY <2>1, SameSound
<1>2. CASE opens # {}
  <2> DEFINE e == CHOOSE x \in opens : TRUE
             ds == <<e>> \o cs
  <2>1. e \in Downloads /\ ps[e].at = "free" /\ opens = {e}
    BY <1>2
  <2>2. AddConns(cs, opens) = ds
    BY <1>2 DEF AddConns
  <2> HIDE DEF e
  <2>3. e \in Conns /\ ~In(e, cs)
    BY <2>1 DEF ListSound, Conns
  <2>4. /\ ds \in Seq(Conns) /\ Distinct(ds)
        /\ \A y : In(y, ds) <=> y = e \/ In(y, cs)
    BY <2>3, PutFirst DEF ListSound
  <2> HIDE DEF ds
  <2>5. \A d \in Downloads : Opened(ps, u, opens)[d].at = IF d = e THEN "connecting" ELSE ps[d].at
    BY <2>1 DEF Opened
  <2>6. \A d \in Downloads : In(d, ds) <=> Opened(ps, u, opens)[d].at # "free"
    BY <2>1, <2>4, <2>5 DEF ListSound
  <2>7. QED
    BY <2>2, <2>4, <2>6 DEF ListSound
<1>3. QED
    BY <1>1, <1>2

\* New pipes bring their connections to the list.
LEMMA MayOpenSound ==
    ASSUME NEW cs, NEW ps \in PipeMaps, NEW ts, NEW u, NEW opens, ListSound(cs, ps),
           MayOpen(ps, ts, u, opens)
    PROVE  /\ ListSound(AddConns(cs, opens), Opened(ps, u, opens))
           /\ \A x : In(x, cs) => In(x, AddConns(cs, opens))
PROOF
    BY OpenedSound DEF MayOpen

\* A reader that joins: nothing goes from the list.
LEMMA JoinSound ==
    ASSUME NEW ps \in PipeMaps, NEW ts, NEW r, NEW u, NEW opens,
           ListSound(conns, ps), Joins(r, u, ts, ps, opens)
    PROVE  ListSound(conns', pipes') /\ \A x : In(x, conns) => In(x, conns')
PROOF
<1> DEFINE ts1 == WithReader(Found(ts, u), u, r)
           qs == PipesOf(ps, ts1)
<1>1. /\ MayOpen(qs, ts1, u, opens)
      /\ pipes' = Opened(qs, u, opens) /\ conns' = AddConns(conns, opens)
    BY DEF Joins
<1>2. qs \in PipeMaps /\ ListSound(conns, qs)
    BY PipesOfUses, SameSound
<1> HIDE DEF ts1, qs
<1>3. QED
    BY <1>1, <1>2, MayOpenSound

\* A session that begins has a connection that is open.
LEMMA StreamSound ==
    ASSUME MapsOK, ConnSound, NEW c \in Clients, NEW u, NEW some, NEW opens,
           In(c, conns), Stream(c, u, some, opens)
    PROVE  /\ ListSound(conns', pipes') /\ Has(conns', sessions')
           /\ \A x : In(x, conns) => In(x, conns')
PROOF
<1>0. pipes \in PipeMaps /\ ListSound(conns, pipes) /\ Has(conns, sessions)
    BY DEF MapsOK, ConnSound
<1>1. ListSound(conns', pipes') /\ \A x : In(x, conns) => In(x, conns')
  <2>1. CASE sessions[c] = None
    BY <1>0, <2>1, JoinSound DEF Stream
  <2>2. CASE sessions[c] # None
    <3> DEFINE ts == WithoutReader(tasks, sessions[c], c)
               ps == Kept(pipes, ts, sessions[c], some)
    <3>1. Joins(c, u, ts, ps, opens)
        BY <2>2 DEF Stream
    <3>2. ps \in PipeMaps /\ ListSound(conns, ps)
        BY <1>0, KeptUses, SameSound
    <3> HIDE DEF ts, ps
    <3>3. QED
        BY <3>1, <3>2, JoinSound
  <2>3. QED
    BY <2>1, <2>2
<1>2. \A x \in Clients : sessions'[x] # None => x = c \/ sessions[x] # None
    BY DEF Stream, MapsOK
<1>3. Has(conns', sessions')
    BY <1>0, <1>1, <1>2 DEF Has
<1>4. QED
    BY <1>1, <1>3

\* A step of the loop.
LEMMA LoopSound ==
    ASSUME ConnSound, pc \in {"loop", "last"}, UNCHANGED <<lifeVars, toClose>>,
           ListSound(conns', pipes'), Has(conns', sessions'),
           look' = NoLook \/ In(look'.nc, conns')
    PROVE  ConnSound'
PROOF
    BY DEF ConnSound, lifeVars

\* Connection x is closed, and maybe one opened: the rest of the list stays.
LEMMA ClosedSound ==
    ASSUME MapsOK, ConnSound, NEW x, NEW some, NEW opens, In(x, conns),
           (ClientClosed(x, some) /\ opens = {}) \/ PipeClosed(x, opens)
    PROVE  /\ ListSound(conns', pipes')
           /\ \A y : y # x /\ In(y, conns) => In(y, conns')
           /\ \A c \in Clients : sessions'[c] # None => c # x /\ sessions[c] # None
PROOF
<1> DEFINE cs == DropConn(conns, x)
<1>0. /\ pipes \in PipeMaps /\ conns \in Seq(Conns) /\ Distinct(conns)
      /\ \A d \in Downloads : In(d, conns) <=> pipes[d].at # "free"
    BY DEF MapsOK, ConnSound, ListSound
<1>1. /\ cs \in Seq(Conns) /\ Distinct(cs)
      /\ \A y : In(y, cs) <=> y # x /\ In(y, conns)
    BY <1>0, DropOne
<1> HIDE DEF cs
<1>2. CASE ClientClosed(x, some)
  <2>1. x \in Clients /\ conns' = cs
    BY <1>2 DEF ClientClosed, cs
  <2>2. SameUse(pipes', pipes)
    <3>1. CASE UNCHANGED pipes
        BY <3>1 DEF SameUse
    <3>2. CASE Leaves(x, sessions[x], some)
        BY <1>0, <3>2, KeptUses DEF Leaves
    <3>3. QED
        BY <1>2, <3>1, <3>2 DEF ClientClosed
  <2>3. \A d \in Downloads : In(d, cs) <=> pipes[d].at # "free"
    BY <1>0, <1>1, <2>1, ServerAssumption
  <2>4. ListSound(conns', pipes')
    BY <1>1, <2>1, <2>2, <2>3 DEF ListSound, SameUse
  <2>5. \A c \in Clients : sessions'[c] # None => c # x /\ sessions[c] # None
    BY <1>2 DEF ClientClosed, MapsOK
  <2>6. QED
    BY <1>1, <2>1, <2>4, <2>5
<1>3. CASE PipeClosed(x, opens)
  <2> DEFINE u == pipes[x].task
             freed == [pipes EXCEPT ![x] = FreePipe]
  <2>1. /\ x \in Downloads /\ conns' = AddConns(cs, opens)
        /\ UNCHANGED sessions /\ u \in Tasks
    BY <1>0, <1>3 DEF PipeClosed, cs, PipeMaps
  <2>2. freed \in PipeMaps /\ freed[x].at = "free" /\ \A d \in Downloads \ {x} : freed[d] = pipes[d]
    BY <1>0, <2>1 DEF FreePipe, PipeMaps, Places, Tasks
  <2>3. ListSound(cs, freed)
    BY <1>0, <1>1, <2>2 DEF ListSound
  <2>4. ASSUME NEW qs, qs = Opened(freed, u, opens),
               opens \subseteq {d \in Downloads : freed[d].at = "free"},
               \A d, e \in opens : d = e
        PROVE  ListSound(conns', qs) /\ \A y : In(y, cs) => In(y, conns')
    BY <2>1, <2>2, <2>3, <2>4, OpenedSound
  <2>5. CASE opens = {} /\ pipes' = freed
    <3>1. conns' = cs
        BY <2>1, <2>5 DEF AddConns
    <3>2. QED
        BY <1>1, <2>1, <2>3, <2>5, <3>1, ServerAssumption
  <2>6. CASE opens = {x} /\ pipes' = Opened(pipes, u, opens)
    <3>1. Opened(freed, u, opens) = Opened(pipes, u, opens)
        BY <2>2, <2>6 DEF Opened
    <3>2. QED
        BY <1>1, <2>1, <2>2, <2>4, <2>6, <3>1, ServerAssumption
  <2>7. CASE MayOpen(pipes, tasks, u, opens) /\ pipes' = Opened(freed, u, opens)
    <3>1. opens \subseteq {d \in Downloads : freed[d].at = "free"}
        BY <2>2, <2>7 DEF MayOpen
    <3>2. QED
        BY <1>1, <2>1, <2>4, <2>7, <3>1, ServerAssumption DEF MayOpen
  <2> HIDE DEF freed, u
  <2>8. QED
    BY <1>3, <2>5, <2>6, <2>7 DEF PipeClosed, freed, u
<1>4. QED
    BY <1>2, <1>3

\* The application does not change who asks.
LEMMA SameAsker ==
    ASSUME LookSound,
           \/ \E u \in Urls : AddResource(u) \/ ShareResource(u)
           \/ \E id \in Ids : RemoveResource(id)
    PROVE  look' # NoLook => look # NoLook /\ look'.nc = look.nc
PROOF
<1>1. ASSUME NEW res
      PROVE  \/ look = NoLook /\ Noticed(res) = NoLook
             \/ /\ look # NoLook /\ look \in LookRecords
                /\ Noticed(res) = [look EXCEPT !.could = look.could \cup {Truth(look.id, res)}]
    BY DEF Noticed, LookSound
<1>2. ASSUME NEW res, look # NoLook, look \in LookRecords,
             Noticed(res) = [look EXCEPT !.could = look.could \cup {Truth(look.id, res)}]
      PROVE  Noticed(res).nc = look.nc /\ [Noticed(res) EXCEPT !.stale = TRUE].nc = look.nc
    BY <1>2 DEF LookRecords
<1>3. CASE \E u \in Urls : AddResource(u)
  <2>1. PICK res : look' = Noticed(res)
    BY <1>3 DEF AddResource
  <2>2. QED
    BY <1>1, <1>2, <2>1
<1>4. CASE \E u \in Urls : ShareResource(u)
    BY <1>4 DEF ShareResource
<1>5. CASE \E id \in Ids : RemoveResource(id)
  <2>1. \/ UNCHANGED look
        \/ \E res : look' = Noticed(res)
        \/ look # NoLook /\ \E res : look' = [Noticed(res) EXCEPT !.stale = TRUE]
    BY <1>5 DEF RemoveResource, Reads
  <2>2. ASSUME NEW res, look' = Noticed(res)
        PROVE  look' # NoLook => look # NoLook /\ look'.nc = look.nc
    BY <1>1, <1>2, <2>2
  <2>3. ASSUME NEW res, look # NoLook, look' = [Noticed(res) EXCEPT !.stale = TRUE]
        PROVE  look'.nc = look.nc
    BY <1>1, <1>2, <2>3
  <2>4. QED
    BY <2>1, <2>2, <2>3
<1>6. QED
    BY <1>3, <1>4, <1>5

\* Every step keeps the list and the maps together.
LEMMA ConnSteps ==
    ASSUME Sound, ConnSound, Next PROVE ConnSound'
PROOF
<1>0. /\ MapsOK /\ LookSound /\ LookInLoop
      /\ pipes \in PipeMaps /\ ListSound(conns, pipes) /\ Has(conns, sessions)
    BY DEF Sound, MapsOK, ConnSound
<1>1. CASE AsyncStart \/ Stop \/ EnterLoop \/ Application \/ LookStep \/ ReadNull
  <2>1. UNCHANGED <<conns, toClose, sessions, pipes>>
    BY <1>1 DEF AsyncStart, Stop, EnterLoop, Application, LookStep, ReadNull, loopVars
  <2>2. look' # NoLook => look # NoLook /\ look'.nc = look.nc
    <3>1. CASE AsyncStart \/ Stop \/ EnterLoop
        BY <3>1 DEF AsyncStart, Stop, EnterLoop, resourceVars
    <3>2. CASE Application
        BY <1>0, <3>2, SameAsker DEF Application
    <3>3. CASE LookStep
      <4>1. /\ look # NoLook /\ look \in LookRecords
            /\ \/ look' = Compared(look)
               \/ \E r \in {"found", "missing"} : look' = [look EXCEPT !.result = r]
        BY <1>0, <3>3 DEF LookStep, LookOn, LookSound
      <4>2. look'.nc = look.nc
        BY <4>1 DEF Compared, LookRecords
      <4>3. QED
        BY <4>1, <4>2
    <3>4. CASE ReadNull
        BY <3>4 DEF ReadNull, Answers
    <3>5. QED
        BY <1>1, <3>1, <3>2, <3>3, <3>4
  <2>3. /\ status' = "idle" => status = "idle" /\ pc' = pc
        /\ pc' = "closing" => pc = "closing"
    BY <1>0, <1>1 DEF AsyncStart, Stop, EnterLoop, Application, LookStep, ReadNull, Answers,
        LookInLoop, lifeVars, ConnSound
  <2>4. QED
    BY <2>1, <2>2, <2>3 DEF ConnSound, ListSound, Has, Closing
<1>2. CASE StartServer
  <2>1. /\ conns' = << >> /\ toClose' = << >> /\ status' = status /\ look' = look
        /\ sessions' = [c \in Clients |-> None] /\ pipes' = [d \in Downloads |-> FreePipe]
        /\ pc = "start" /\ pc' \in {"bound", "none"}
    BY <1>2 DEF StartServer
  <2>2. << >> \in Seq(Conns)
    OBVIOUS
  <2>3. Distinct(<< >>) /\ \A x : ~In(x, << >>)
    BY DEF Distinct, In
  <2>4. QED
    BY <1>0, <2>1, <2>2, <2>3 DEF ConnSound, ListSound, Has, FreePipe, LookInLoop
<1>3. CASE LeaveLoop
  <2> DEFINE ps1 == PipesOf(pipes, tasks')
  <2>1. /\ pipes' = ps1 /\ toClose' = conns /\ pc = "loop" /\ pc' = "last"
        /\ look = NoLook /\ UNCHANGED <<status, conns, sessions, look>>
    BY <1>3 DEF LeaveLoop, resourceVars
  <2>2. ListSound(conns, ps1)
    BY <1>0, PipesOfUses, SameSound
  <2> HIDE DEF ps1
  <2>3. QED
    BY <2>1, <2>2 DEF ConnSound, ListSound
<1>4. CASE BeginFree
    BY <1>4 DEF BeginFree, ConnSound, ListSound, Has, Closing, resourceVars
<1>5. CASE EndServer
  <2>1. \A x : ~In(x, << >>)
    BY DEF In
  <2>2. \A c \in Clients : sessions[c] = None
    BY <1>5, <2>1 DEF EndServer, ConnSound, Closing, Has
  <2>3. QED
    BY <1>5, <2>2 DEF EndServer, ConnSound, loopVars, resourceVars
<1>6. ASSUME NEW u \in Tasks, Age(u) PROVE ConnSound'
    BY <1>6 DEF Age, ConnSound, ListSound, Has, Closing, lifeVars, resourceVars
<1>7. ASSUME NEW c \in Clients, Accept(c) PROVE ConnSound'
  <2> DEFINE ds == <<c>> \o conns
  <2>1. /\ conns' = ds /\ UNCHANGED <<sessions, pipes, look, lifeVars, toClose>>
        /\ pc \in {"loop", "last"} /\ look = NoLook
    BY <1>7 DEF Accept, InLoop, resourceVars
  <2>2. c \in Conns /\ conns \in Seq(Conns) /\ Distinct(conns) /\ ~In(c, conns)
    BY <1>0, <1>7 DEF Accept, Open, In, Conns, ListSound
  <2>3. /\ ds \in Seq(Conns) /\ Distinct(ds)
        /\ \A y : In(y, ds) <=> y = c \/ In(y, conns)
    BY <2>2, PutFirst
  <2> HIDE DEF ds
  <2>4. ListSound(conns', pipes') /\ Has(conns', sessions')
    BY <1>0, <2>1, <2>3, ServerAssumption DEF ListSound, Has
  <2>5. QED
    BY <2>1, <2>4, LoopSound
<1>8. ASSUME NEW c \in Clients, NEW op \in Ops, NEW id \in Ids, AskResource(c, op, id)
      PROVE  ConnSound'
  <2>1. /\ Open(c) /\ pc \in {"loop", "last"} /\ UNCHANGED <<lifeVars, loopVars>>
        /\ look'.nc = c
    BY <1>8 DEF AskResource, Served, InLoop, StartLook
  <2>2. In(look'.nc, conns)
    BY <2>1 DEF Open, In
  <2>3. QED
    BY <1>0, <2>1, <2>2, LoopSound DEF loopVars
<1>9. ASSUME NEW c \in Clients, NEW u, NEW some, NEW opens, In(c, conns),
             Stream(c, u, some, opens), pc \in {"loop", "last"}, look' = NoLook,
             UNCHANGED lifeVars
      PROVE  ConnSound'
  <2>1. UNCHANGED toClose
    BY <1>9 DEF Stream
  <2>2. QED
    BY <1>0, <1>9, <2>1, StreamSound, LoopSound
<1>10. ASSUME NEW c \in Clients, NEW u \in Urls, NEW some \in Some, NEW opens \in Opens,
              AskUrl(c, u, some, opens)
       PROVE  ConnSound'
  <2>1. /\ In(c, conns) /\ pc \in {"loop", "last"} /\ look' = NoLook /\ UNCHANGED lifeVars
        /\ Stream(c, u, some, opens)
    BY <1>10 DEF AskUrl, Served, InLoop, Open, In, resourceVars
  <2>2. QED
    BY <1>9, <2>1
<1>11. ASSUME NEW some \in Some, NEW opens \in Opens, StreamAnswer(some, opens)
       PROVE  ConnSound'
  <2>1. /\ look # NoLook /\ look' = NoLook /\ UNCHANGED lifeVars
        /\ \E u : Stream(look.nc, u, some, opens)
    BY <1>11 DEF StreamAnswer, Answers
  <2>2. look.nc \in Clients /\ In(look.nc, conns) /\ pc \in {"loop", "last"}
    BY <1>0, <2>1 DEF LookSound, LookRecords, ConnSound, LookInLoop
  <2>3. QED
    BY <1>9, <2>1, <2>2
<1>12. ASSUME NEW l \in Preloaders, NEW opens \in Opens, PostAnswer(l, opens)
       PROVE  ConnSound'
  <2>1. /\ look # NoLook /\ look' = NoLook /\ UNCHANGED <<lifeVars, toClose, sessions>>
        /\ \E u : Joins(l, u, tasks, pipes, opens)
    BY <1>12 DEF PostAnswer, Answers
  <2>2. ListSound(conns', pipes') /\ \A x : In(x, conns) => In(x, conns')
    BY <1>0, <2>1, JoinSound
  <2>3. Has(conns', sessions') /\ pc \in {"loop", "last"}
    BY <1>0, <2>1, <2>2 DEF Has, LookInLoop
  <2>4. QED
    BY <2>1, <2>2, <2>3, LoopSound
<1>13. ASSUME NEW some \in Some, DeleteAnswer(some) PROVE ConnSound'
  <2>1. /\ look # NoLook /\ look' = NoLook /\ UNCHANGED <<lifeVars, conns, toClose, sessions>>
        /\ (\E l, u : Leaves(l, u, some)) \/ UNCHANGED pipes
    BY <1>13 DEF DeleteAnswer, Answers
  <2>2. ListSound(conns', pipes')
    BY <1>0, <2>1, KeptUses, SameSound DEF Leaves
  <2>3. Has(conns', sessions') /\ pc \in {"loop", "last"}
    BY <1>0, <2>1 DEF Has, LookInLoop
  <2>4. QED
    BY <2>1, <2>2, <2>3, LoopSound
<1>14. ASSUME NEW c \in Clients, NEW some \in Some, SessionDone(c, some)
       PROVE  ConnSound'
  <2>1. /\ look' = NoLook /\ pc \in {"loop", "last"} /\ UNCHANGED <<lifeVars, conns, toClose>>
        /\ Leaves(c, sessions[c], some) /\ sessions' = [sessions EXCEPT ![c] = None]
    BY <1>14 DEF SessionDone, Served, InLoop, resourceVars
  <2>2. ListSound(conns', pipes')
    BY <1>0, <2>1, KeptUses, SameSound DEF Leaves
  <2>3. Has(conns', sessions')
    BY <1>0, <2>1 DEF Has, MapsOK
  <2>4. QED
    BY <2>1, <2>2, <2>3, LoopSound
<1>15. ASSUME NEW ps \in PipeMaps, NEW u, NEW opens, MayOpen(ps, tasks, u, opens),
              ListSound(conns, ps), pipes' = Opened(ps, u, opens),
              conns' = AddConns(conns, opens), look' = NoLook, pc \in {"loop", "last"},
              UNCHANGED <<lifeVars, toClose, sessions>>
       PROVE  ConnSound'
  <2>1. ListSound(conns', pipes') /\ \A x : In(x, conns) => In(x, conns')
    BY <1>15, MayOpenSound
  <2>2. Has(conns', sessions')
    BY <1>0, <1>15, <2>1 DEF Has
  <2>3. QED
    BY <1>15, <2>1, <2>2, LoopSound
<1>16. ASSUME NEW u \in Tasks, NEW some \in Some, NEW opens \in Opens, Dispatch(u, some, opens)
       PROVE  ConnSound'
  <2> DEFINE ps == Kept(pipes, tasks, u, some)
  <2>1. /\ MayOpen(ps, tasks, u, opens) /\ pipes' = Opened(ps, u, opens)
        /\ conns' = AddConns(conns, opens) /\ look' = NoLook /\ pc \in {"loop", "last"}
        /\ UNCHANGED <<lifeVars, toClose, sessions>>
    BY <1>16 DEF Dispatch, Served, InLoop, resourceVars
  <2>2. ps \in PipeMaps /\ ListSound(conns, ps)
    BY <1>0, KeptUses, SameSound
  <2> HIDE DEF ps
  <2>3. QED
    BY <1>15, <2>1, <2>2
<1>17. ASSUME NEW d \in Downloads, NEW to \in Places \ {"free"}, pipes[d].at # "free"
       PROVE  LET ps == [pipes EXCEPT ![d].at = to]
              IN  ps \in PipeMaps /\ ListSound(conns, ps)
  <2> DEFINE ps == [pipes EXCEPT ![d].at = to]
  <2>1. ps \in PipeMaps /\ SameUse(ps, pipes)
    BY <1>0, <1>17 DEF PipeMaps, SameUse
  <2> HIDE DEF ps
  <2>2. ListSound(conns, ps)
    BY <1>0, <2>1, SameSound
  <2>3. QED
    BY <2>1, <2>2 DEF ps
<1>18. ASSUME NEW d \in Downloads, NEW to \in {"replying", "redirecting"},
              PipeMoves(d, to) \/ PipeFails(d)
       PROVE  ConnSound'
  <2>1. /\ look' = NoLook /\ pc \in {"loop", "last"}
        /\ UNCHANGED <<lifeVars, conns, toClose, sessions>>
    BY <1>18 DEF PipeMoves, PipeFails, Served, InLoop, resourceVars
  <2>2. /\ pipes[d].at # "free"
        /\ \E at \in Places \ {"free"} : pipes' = [pipes EXCEPT ![d].at = at]
    BY <1>18 DEF PipeMoves, PipeFails, Places
  <2>3. ListSound(conns', pipes') /\ Has(conns', sessions')
    BY <1>0, <1>17, <2>1, <2>2 DEF Has
  <2>4. QED
    BY <2>1, <2>3, LoopSound
<1>19. ASSUME NEW d \in Downloads, NEW opens \in Opens, PipeCompletes(d, opens)
       PROVE  ConnSound'
  <2> DEFINE ps == [pipes EXCEPT ![d].at = "closing"]
             u == pipes[d].task
  <2>1. /\ MayOpen(ps, tasks, u, opens) /\ pipes' = Opened(ps, u, opens)
        /\ conns' = AddConns(conns, opens) /\ look' = NoLook /\ pc \in {"loop", "last"}
        /\ UNCHANGED <<lifeVars, toClose, sessions>> /\ pipes[d].at # "free"
    BY <1>19 DEF PipeCompletes, Served, InLoop, resourceVars
  <2>2. ps \in PipeMaps /\ ListSound(conns, ps)
    BY <1>17, <2>1 DEF Places
  <2> HIDE DEF ps, u
  <2>3. QED
    BY <1>15, <2>1, <2>2
<1>20. ASSUME NEW x \in Clients \cup Downloads, NEW some \in Some, NEW opens \in Opens,
              Gone(x, some, opens)
       PROVE  ConnSound'
  <2>1. /\ look' = NoLook /\ pc \in {"loop", "last"} /\ UNCHANGED <<lifeVars, toClose>>
        /\ In(x, conns)
        /\ (ClientClosed(x, some) /\ opens = {}) \/ PipeClosed(x, opens)
    BY <1>20 DEF Gone, Served, InLoop, Open, In, resourceVars
  <2>2. /\ ListSound(conns', pipes')
        /\ \A y : y # x /\ In(y, conns) => In(y, conns')
        /\ \A c \in Clients : sessions'[c] # None => c # x /\ sessions[c] # None
    BY <1>0, <2>1, ClosedSound
  <2>3. Has(conns', sessions')
    BY <1>0, <2>2 DEF Has
  <2>4. QED
    BY <2>1, <2>2, <2>3, LoopSound
<1>21. ASSUME NEW some \in Some, NEW opens \in Opens, CloseNext(some, opens)
       PROVE  ConnSound'
  <2> DEFINE x == Head(toClose)
             rest == Tail(toClose)
  <2>1. /\ pc = "closing" /\ toClose # << >> /\ toClose' = rest /\ look' = look
        /\ UNCHANGED <<status, pc>>
        /\ (ClientClosed(x, some) /\ opens = {}) \/ PipeClosed(x, opens)
    BY <1>21 DEF CloseNext, lifeVars, resourceVars
  <2>2. Closing /\ look' = NoLook /\ toClose \in Seq(Conns)
    BY <1>0, <2>1 DEF ConnSound, LookInLoop
  <2>3. /\ rest \in Seq(Conns) /\ Distinct(rest) /\ In(x, toClose)
        /\ \A y : In(y, rest) <=> y # x /\ In(y, toClose)
    BY <2>1, <2>2, RestIs DEF Closing
  <2>4. In(x, conns)
    BY <2>2, <2>3 DEF Closing
  <2> HIDE DEF x, rest
  <2>5. /\ ListSound(conns', pipes')
        /\ \A y : y # x /\ In(y, conns) => In(y, conns')
        /\ \A c \in Clients : sessions'[c] # None => c # x /\ sessions[c] # None
    BY <1>0, <2>1, <2>4, ClosedSound
  <2>6. Has(conns', sessions')
    BY <1>0, <2>5 DEF Has
  <2>7. Closing'
    BY <2>1, <2>2, <2>3, <2>5 DEF Closing, Has
  <2>8. status' # "idle"
    BY <2>1 DEF ConnSound
  <2>9. QED
    BY <2>1, <2>2, <2>3, <2>5, <2>6, <2>7, <2>8 DEF ConnSound
<1>22. QED
    BY <1>1, <1>2, <1>3, <1>4, <1>5, <1>6, <1>7, <1>8, <1>10, <1>11, <1>12, <1>13, <1>14,
       <1>16, <1>18, <1>19, <1>20, <1>21 DEF Next

\* At the start there is no connection and no pipe.
LEMMA ConnInit == Init => ConnSound
PROOF
<1> SUFFICES ASSUME Init PROVE ConnSound
    OBVIOUS
<1>1. /\ conns = << >> /\ toClose = << >> /\ pc = "none" /\ look = NoLook
      /\ sessions = [c \in Clients |-> None] /\ pipes = [d \in Downloads |-> FreePipe]
    BY DEF Init, ResourceInit
<1>2. << >> \in Seq(Conns)
    OBVIOUS
<1>3. Distinct(<< >>) /\ \A x : ~In(x, << >>)
    BY DEF Distinct, In
<1>4. QED
    BY <1>1, <1>2, <1>3 DEF ConnSound, ListSound, Has, FreePipe

\* Mongoose's list has the connection of every session and of every pipe in
\* use, each once, and no session is left when the server has ended.
THEOREM ConnsAlwaysMatch == Spec => []ConnsMatch
PROOF
<1>1. Sound /\ ConnSound /\ [Next]_vars => ConnSound'
  <2> SUFFICES ASSUME Sound, ConnSound, [Next]_vars PROVE ConnSound'
    OBVIOUS
  <2>1. CASE UNCHANGED vars
    BY <2>1 DEF ConnSound, ListSound, Has, Closing, vars, lifeVars, loopVars, resourceVars
  <2>2. QED
    BY <2>1, ConnSteps
<1>2. ConnSound => ConnsMatch
    BY DEF ConnSound, ListSound, Has, Distinct, In, ConnsMatch, Open
<1>3. QED
    BY <1>1, <1>2, ConnInit, SpecSound, PTL DEF Spec

-----------------------------------------------------------------------------
\* Only tasks nobody reads grow old.

Young(ts) == \A u \in Tasks : ts[u] # None /\ ts[u].aged => ts[u].readers = {}

\* A task that is not there, or is not old, is young.
LEMMA OneYoung ==
    ASSUME NEW ts \in TaskMaps, NEW u \in Tasks, NEW t, Young(ts),
           t # None => ~t.aged \/ t.readers = {}
    PROVE  Young([ts EXCEPT ![u] = t])
PROOF
    BY DEF Young, TaskMaps

\* A task that loses a reader is not made old by it.
LEMMA WithoutYoung ==
    ASSUME NEW ts \in TaskMaps, NEW u \in Tasks, ts[u] # None, NEW r, Young(ts)
    PROVE  Young(WithoutReader(ts, u, r)) /\ WithoutReader(ts, u, r) \in TaskMaps
PROOF
<1> DEFINE t == [ts[u] EXCEPT !.readers = ts[u].readers \ {r}, !.aged = FALSE]
<1>1. ts[u] \in TaskRecords
    BY DEF TaskMaps
<1>2. ~t.aged
    BY <1>1 DEF TaskRecords
<1> HIDE DEF t
<1>3. Young([ts EXCEPT ![u] = t])
    BY <1>2, OneYoung
<1>4. QED
    BY <1>3, WithoutReaderType DEF WithoutReader, t

\* A task that gets a reader is young again.
LEMMA JoinYoung ==
    ASSUME NEW ts \in TaskMaps, NEW u \in Tasks, NEW r, Young(ts)
    PROVE  Young(WithReader(Found(ts, u), u, r))
PROOF
<1> DEFINE fs == Found(ts, u)
           t == [fs[u] EXCEPT !.readers = fs[u].readers \cup {r}, !.aged = FALSE]
<1>1. fs \in TaskMaps /\ fs[u] # None
    BY FoundType
<1>2. Young(fs)
  <2>1. ~NewTask.aged
    BY DEF NewTask
  <2>2. Young(Reaped(ts, FALSE)) /\ Reaped(ts, FALSE) \in TaskMaps
    BY DEF Young, Reaped, Idle, TaskMaps
  <2>3. QED
    BY <2>1, <2>2, OneYoung DEF Found
<1> HIDE DEF fs
<1>3. fs[u] \in TaskRecords
    BY <1>1 DEF TaskMaps
<1>4. ~t.aged
    BY <1>3 DEF TaskRecords
<1> HIDE DEF t
<1>5. Young([fs EXCEPT ![u] = t])
    BY <1>1, <1>2, <1>4, OneYoung
<1>6. QED
    BY <1>5 DEF WithReader, t, fs

\* A task that fails keeps its readers and its age.
LEMMA FailedYoung ==
    ASSUME NEW ts \in TaskMaps, NEW u \in Tasks, ts[u] # None, Young(ts)
    PROVE  Young(FailedTask(ts, u))
PROOF
<1> DEFINE t == [ts[u] EXCEPT !.failed = TRUE]
<1>1. ts[u] \in TaskRecords
    BY DEF TaskMaps
<1>2. t.readers = ts[u].readers /\ t.aged = ts[u].aged
    BY <1>1 DEF TaskRecords
<1>3. t.aged => t.readers = {}
    BY <1>2 DEF Young
<1> HIDE DEF t
<1>4. Young([ts EXCEPT ![u] = t])
    BY <1>3, OneYoung
<1>5. QED
    BY <1>4 DEF FailedTask, t

\* A task that is pointed at is there.
LEMMA PointedAt ==
    ASSUME MapsOK, Maps
    PROVE  /\ \A c \in Clients : sessions[c] # None =>
                sessions[c] \in Tasks /\ tasks[sessions[c]] # None
           /\ \A l \in Preloaders : preloaders[l] # None =>
                preloaders[l] \in Tasks /\ tasks[preloaders[l]] # None
PROOF
<1>1. /\ \A c \in Clients : sessions[c] \in Tasks \cup {None}
      /\ \A l \in Preloaders : preloaders[l] \in Tasks \cup {None}
    BY DEF MapsOK
<1>2. Agree(All(sessions, preloaders), tasks)
    BY DEF Maps
<1>3. QED
    BY <1>1, <1>2, AllMaps DEF Agree

\* Stream leaves only tasks nobody reads old.
LEMMA StreamYoung ==
    ASSUME MapsOK, Maps, Young(tasks), NEW c \in Clients, NEW u \in Tasks, NEW some, NEW opens,
           Stream(c, u, some, opens)
    PROVE  Young(tasks')
PROOF
<1>1. tasks \in TaskMaps
    BY DEF MapsOK
<1>2. CASE sessions[c] = None
    BY <1>1, <1>2, JoinYoung DEF Stream, Joins
<1>3. CASE sessions[c] # None
  <2> DEFINE ts == WithoutReader(tasks, sessions[c], c)
  <2>1. tasks' = WithReader(Found(ts, u), u, c)
    BY <1>3 DEF Stream, Joins
  <2>2. ts \in TaskMaps /\ Young(ts)
    BY <1>1, <1>3, PointedAt, WithoutYoung
  <2> HIDE DEF ts
  <2>3. QED
    BY <2>1, <2>2, JoinYoung
<1>4. QED
    BY <1>2, <1>3

\* So does a closed connection.
LEMMA ClosedYoung ==
    ASSUME MapsOK, Maps, Young(tasks), NEW x, NEW some, NEW opens,
           ClientClosed(x, some) \/ PipeClosed(x, opens)
    PROVE  Young(tasks')
PROOF
<1>1. tasks \in TaskMaps
    BY DEF MapsOK
<1>2. CASE ClientClosed(x, some)
    BY <1>1, <1>2, PointedAt, WithoutYoung DEF ClientClosed, Leaves
<1>3. CASE PipeClosed(x, opens)
  <2>1. CASE UNCHANGED tasks
    BY <2>1
  <2>2. CASE pipes[x].at = "connecting" /\ tasks' = FailedTask(tasks, pipes[x].task)
    <3>1. pipes[x].task \in Tasks /\ tasks[pipes[x].task] # None
        BY <1>3, <2>2 DEF PipeClosed, Maps, Serve, Live, MapsOK, PipeMaps
    <3>2. QED
        BY <1>1, <2>2, <3>1, FailedYoung
  <2>3. QED
    BY <1>3, <2>1, <2>2 DEF PipeClosed
<1>4. QED
    BY <1>2, <1>3

\* So does every step.
LEMMA YoungSteps ==
    ASSUME Sound, Young(tasks), Next PROVE Young(tasks')
PROOF
<1>0. MapsOK /\ Maps /\ IdsSound /\ LookSound /\ tasks \in TaskMaps
    BY DEF Sound, MapsOK
<1>1. CASE AsyncStart \/ Stop \/ EnterLoop \/ BeginFree \/ EndServer \/ Application
           \/ LookStep \/ ReadNull
    BY <1>1 DEF AsyncStart, Stop, EnterLoop, BeginFree, EndServer, Application,
        LookStep, ReadNull, loopVars
<1>2. CASE StartServer
    BY <1>2 DEF StartServer, Young
<1>3. CASE LeaveLoop
  <2>1. tasks' = Reaped(tasks, TRUE)
    BY <1>3 DEF LeaveLoop
  <2>2. QED
    BY <1>0, <2>1 DEF Young, Reaped, Idle
<1>4. ASSUME NEW u \in Tasks, Age(u) PROVE Young(tasks')
  <2> DEFINE t == [tasks[u] EXCEPT !.aged = TRUE]
  <2>1. /\ tasks[u] # None /\ tasks[u].readers = {}
        /\ tasks' = [tasks EXCEPT ![u] = t]
    BY <1>4 DEF Age, Idle
  <2>2. tasks[u] \in TaskRecords
    BY <1>0, <2>1 DEF TaskMaps
  <2>3. t.readers = {}
    BY <2>1, <2>2 DEF TaskRecords
  <2> HIDE DEF t
  <2>4. QED
    BY <1>0, <2>1, <2>3, OneYoung
<1>5. ASSUME NEW c, NEW op, NEW id, NEW d, NEW u, NEW some, NEW opens, NEW to,
             \/ Accept(c) \/ AskResource(c, op, id) \/ Dispatch(u, some, opens)
             \/ PipeMoves(d, to) \/ PipeCompletes(d, opens)
      PROVE  Young(tasks')
    BY <1>5 DEF Accept, AskResource, Dispatch, PipeMoves, PipeCompletes, loopVars
<1>6. ASSUME NEW c \in Clients, NEW u \in Urls, NEW some \in Some, NEW opens \in Opens,
             AskUrl(c, u, some, opens)
      PROVE  Young(tasks')
    BY <1>0, <1>6, StreamYoung DEF AskUrl, Tasks
<1>7. ASSUME NEW some \in Some, NEW opens \in Opens, StreamAnswer(some, opens)
      PROVE  Young(tasks')
  <2>1. look.nc \in Clients
    BY <1>0, <1>7 DEF StreamAnswer, Answers, LookSound, LookRecords
  <2>2. CASE look # NoLook /\ look.result = "found"
    <3>1. PICK u \in UrlsFound \cup {NoUrl} : Stream(look.nc, u, some, opens)
        BY <1>7, <2>2 DEF StreamAnswer, Answers
    <3>2. u \in Tasks
        BY <1>0, <2>2, <3>1, FoundUrl DEF Tasks
    <3>3. QED
        BY <1>0, <2>1, <3>1, <3>2, StreamYoung
  <2>3. CASE Stream(look.nc, NoUrl, some, opens)
    BY <1>0, <2>1, <2>3, StreamYoung DEF Tasks
  <2>4. QED
    BY <1>7, <2>2, <2>3 DEF StreamAnswer, Answers
<1>8. ASSUME NEW l \in Preloaders, NEW opens \in Opens, PostAnswer(l, opens)
      PROVE  Young(tasks')
  <2>1. look # NoLook /\ look.result = "found"
    BY <1>8 DEF PostAnswer, Answers
  <2>2. PICK u \in UrlsFound : Joins(l, u, tasks, pipes, opens)
    BY <1>8 DEF PostAnswer
  <2>3. u \in Tasks
    BY <1>0, <2>1, FoundUrl
  <2>4. QED
    BY <1>0, <2>2, <2>3, JoinYoung DEF Joins
<1>9. ASSUME NEW some \in Some, DeleteAnswer(some) PROVE Young(tasks')
  <2>1. look # NoLook /\ look.result = "found"
    BY <1>9 DEF DeleteAnswer, Answers
  <2>2. PICK u \in UrlsFound :
            \/ \E l \in Preloaders : preloaders[l] = u /\ Leaves(l, u, some)
            \/ UNCHANGED tasks
    BY <1>9 DEF DeleteAnswer
  <2>3. u \in Tasks /\ u # None
    BY <1>0, <2>1, FoundUrl, ServerAssumption
  <2>4. ASSUME NEW l \in Preloaders, preloaders[l] = u, Leaves(l, u, some)
        PROVE  Young(tasks')
    BY <1>0, <2>3, <2>4, PointedAt, WithoutYoung DEF Leaves
  <2>5. QED
    BY <2>2, <2>4
<1>10. ASSUME NEW c \in Clients, NEW some \in Some, SessionDone(c, some)
       PROVE  Young(tasks')
    BY <1>0, <1>10, PointedAt, WithoutYoung DEF SessionDone, Leaves
<1>11. ASSUME NEW d \in Downloads, PipeFails(d) PROVE Young(tasks')
  <2>1. pipes[d].task \in Tasks /\ tasks[pipes[d].task] # None
    BY <1>0, <1>11 DEF PipeFails, Maps, Serve, Live, MapsOK, PipeMaps
  <2>2. QED
    BY <1>0, <1>11, <2>1, FailedYoung DEF PipeFails
<1>12. ASSUME NEW x \in Clients \cup Downloads, NEW some \in Some, NEW opens \in Opens,
              Gone(x, some, opens)
       PROVE  Young(tasks')
    BY <1>0, <1>12, ClosedYoung DEF Gone
<1>13. ASSUME NEW some \in Some, NEW opens \in Opens, CloseNext(some, opens)
       PROVE  Young(tasks')
    BY <1>0, <1>13, ClosedYoung DEF CloseNext
<1>14. QED
    BY <1>1, <1>2, <1>3, <1>4, <1>5, <1>6, <1>7, <1>8, <1>9, <1>10, <1>11, <1>12,
       <1>13 DEF Next

\* Where the server and its thread are.
LifeOK ==
    /\ status \in {"idle", "starting", "running"} /\ exitFlag \in BOOLEAN
    /\ pc \in {"none", "start", "bound", "loop", "last", "closing", "crashed"}

\* Every step keeps the types of the life cycle.
LEMMA LifeSteps == ASSUME LifeOK, Next PROVE LifeOK'
PROOF
<1>1. CASE \/ AsyncStart \/ Stop \/ StartServer \/ EnterLoop \/ LeaveLoop \/ BeginFree
           \/ EndServer \/ ReadNull
    BY <1>1 DEF LifeOK, AsyncStart, Stop, StartServer, EnterLoop, LeaveLoop, BeginFree,
        EndServer, ReadNull
<1>2. CASE UNCHANGED lifeVars
    BY <1>2 DEF LifeOK, lifeVars
<1>3. \/ UNCHANGED lifeVars
      \/ AsyncStart \/ Stop \/ StartServer \/ EnterLoop \/ LeaveLoop \/ BeginFree
      \/ EndServer \/ ReadNull
    BY DEF Next, Application, Age, LookStep, Accept, AskResource, AskUrl, StreamAnswer,
        CloseNext, PostAnswer, DeleteAnswer, SessionDone, Dispatch, PipeMoves,
        PipeCompletes, PipeFails, Gone
<1>4. QED
    BY <1>1, <1>2, <1>3

\* Every variable has its type, and no task that is read counts as idle.
THEOREM TypesAlwaysOK == Spec => []TypeOK
PROOF
<1>1. Init => LifeOK /\ Young(tasks)
    BY DEF Init, LifeOK, Young
<1>2. Sound /\ LifeOK /\ Young(tasks) /\ [Next]_vars => LifeOK' /\ Young(tasks')
  <2> SUFFICES ASSUME Sound, LifeOK, Young(tasks), [Next]_vars
               PROVE  LifeOK' /\ Young(tasks')
    OBVIOUS
  <2>1. CASE UNCHANGED vars
    BY <2>1 DEF LifeOK, vars, lifeVars, loopVars
  <2>2. QED
    BY <2>1, LifeSteps, YoungSteps
<1>3. Sound /\ LifeOK /\ Young(tasks) => TypeOK
    BY DEF Sound, LifeOK, Young, MapsOK, TaskMaps, PipeMaps, TypeOK
<1> DEFINE I == LifeOK /\ Young(tasks)
<1>4. Init => I
    BY <1>1
<1>5. Sound /\ I /\ [Next]_vars => I'
    BY <1>2
<1>6. Sound /\ I => TypeOK
    BY <1>3
<1> HIDE DEF I
<1>7. QED
    BY <1>4, <1>5, <1>6, SpecSound, PTL DEF Spec
=============================================================================
