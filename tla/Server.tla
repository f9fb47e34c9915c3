------------------------------- MODULE Server -------------------------------
(***************************************************************************)
(* The server as a whole: its life cycle (ms_asnyc_start, ms_start,        *)
(* ms_stop), the requests of its clients (server_handler and what it       *)
(* calls), the lists of sessions, tasks and preloaders that point at one   *)
(* another, and the connections of all of them in mongoose's list, which   *)
(* mg_mgr_free() closes at the end.                                        *)
(*                                                                         *)
(* Two threads: the application's, which starts, stops and keeps the       *)
(* resources (Resources), and the server's, which does all the rest; pc is *)
(* where the latter is.  Handlers are atomic but for the look-up of a      *)
(* resource.  A session is known by its connection and a task by its URL.  *)
(* What downloads a task opens and closes depends on data that is not here *)
(* (Task has it): it may open one when it is read from or one ends, and    *)
(* may close one when a reader goes or data comes.                         *)
(***************************************************************************)
EXTENDS Resources, Sequences

CONSTANTS
    Downloads,   \* bound: pipes, each with the connection it has
    Preloaders,  \* bound: preloaders
    None

Tasks == Urls \cup {NoUrl}

TaskRecords == [readers : SUBSET (Clients \cup Preloaders), failed : BOOLEAN, aged : BOOLEAN]

ASSUME ServerAssumption ==
    /\ None \notin TaskRecords
    /\ None \notin Tasks \cup Clients \cup Downloads \cup Preloaders
    /\ Clients \cap Downloads = {} /\ Clients \cap Preloaders = {}
    /\ Downloads \cap Preloaders = {}

VARIABLES
    status,      \* s_server_status
    exitFlag,    \* s_exit_flag
    pc,          \* the server's thread
    conns,       \* mgr.active_connections but the listener, newest first
    toClose,     \* what mg_mgr_free() polls, then has still to close
    sessions,    \* connection -> the task of its session
    preloaders,  \* preloader -> its task
    tasks,       \* URL -> its task: readers, code, whether idle for 5 s
    pipes        \* download -> the task it is for and where it is

lifeVars == <<status, exitFlag, pc>>
loopVars == <<conns, toClose, sessions, preloaders, tasks, pipes>>
vars == <<resourceVars, lifeVars, loopVars>>

NewTask == [readers |-> {}, failed |-> FALSE, aged |-> FALSE]
FreePipe == [task |-> NoUrl, at |-> "free"]

Places == {"free", "connecting", "replying", "redirecting", "closing"}
Live(p) == p.at \in {"connecting", "replying", "redirecting"}

Init ==
    /\ ResourceInit
    /\ status = "idle" /\ exitFlag = FALSE /\ pc = "none"
    /\ conns = << >> /\ toClose = << >>
    /\ sessions = [c \in Clients |-> None]
    /\ preloaders = [l \in Preloaders |-> None]
    /\ tasks = [u \in Tasks |-> None]
    /\ pipes = [d \in Downloads |-> FreePipe]

-----------------------------------------------------------------------------
\* Tasks and their downloads, as functions of the two maps.

Idle(t) == t # None /\ t.readers = {}

\* remove_reader() of src/src/ms_task.c: close_ts is set by the last one.
WithoutReader(ts, u, r) ==
    [ts EXCEPT ![u] = [ts[u] EXCEPT !.readers = ts[u].readers \ {r}, !.aged = FALSE]]

\* Mutant: a task that has lost its last reader keeps its pipes.
KeptWhenIdle(ps, ts, u, some) ==
    [d \in Downloads |->
        IF Live(ps[d]) /\ ps[d].task = u /\ d \in some
        THEN [ps[d] EXCEPT !.at = "closing"] ELSE ps[d]]

\* The pipes left when task u has got rid of those in some, and of all when
\* nobody reads it any more: dispatch_pipe() of each of them.
Kept(ps, ts, u, some) ==
    [d \in Downloads |->
        IF Live(ps[d]) /\ ps[d].task = u /\ (Idle(ts[u]) \/ d \in some)
        THEN [ps[d] EXCEPT !.at = "closing"] ELSE ps[d]]

\* ms_remove_task_if_need(): tasks that may go are closed, with task_close().
Reaped(ts, any) ==
    [u \in Tasks |-> IF Idle(ts[u]) /\ (any \/ ts[u].aged) THEN None ELSE ts[u]]

PipesOf(ps, ts) ==
    [d \in Downloads |-> IF Live(ps[d]) /\ ts[ps[d].task] = None
                         THEN [ps[d] EXCEPT !.at = "closing"] ELSE ps[d]]

\* ms_find_or_create_task()
Found(ts, u) ==
    IF ts[u] # None THEN ts ELSE [Reaped(ts, FALSE) EXCEPT ![u] = NewTask]

\* Mutant: a reader joins a task that is still counted as idle.
JoinedIdle(ts, u, r) ==
    [ts EXCEPT ![u] = [ts[u] EXCEPT !.readers = ts[u].readers \cup {r}]]

\* add_reader(); the age of a task counts only while nobody reads it.
WithReader(ts, u, r) ==
    [ts EXCEPT ![u] = [ts[u] EXCEPT !.readers = ts[u].readers \cup {r}, !.aged = FALSE]]

\* on_close() of src/src/ms_task.c: the code stays with the task.
FailedTask(ts, u) == [ts EXCEPT ![u] = [ts[u] EXCEPT !.failed = TRUE]]

\* create_pipe_for(): opens is one download that is free, or nothing.
MayOpen(ps, ts, u, opens) ==
    /\ opens \subseteq {d \in Downloads : ps[d].at = "free"}
    /\ \A d, e \in opens : d = e
    /\ opens # {} => ts[u] # None /\ ts[u].readers # {} /\ ~ts[u].failed

Opened(ps, u, opens) ==
    [d \in Downloads |-> IF d \in opens THEN [task |-> u, at |-> "connecting"] ELSE ps[d]]

\* mg_add_conn(): at the head of the list.
AddConns(cs, new) == IF new = {} THEN cs ELSE <<CHOOSE x \in new : TRUE>> \o cs

\* mg_remove_conn()
DropConn(cs, x) ==
    LET i == CHOOSE i \in 1..Len(cs) : cs[i] = x
    IN  SubSeq(cs, 1, i - 1) \o SubSeq(cs, i + 1, Len(cs))
Open(x) == \E i \in 1..Len(conns) : conns[i] = x

-----------------------------------------------------------------------------
\* Handlers of the server's thread.

InLoop == pc \in {"loop", "last"} /\ look = NoLook

\* A poll serves the connections it found when it began; of the one in
\* mg_mgr_free() these are in toClose.
Served(x) ==
    /\ InLoop /\ Open(x)
    /\ pc = "last" => \E i \in 1..Len(toClose) : toClose[i] = x

\* mg_accept_conn()
Accept(c) ==
    /\ InLoop /\ ~Open(c)
    /\ conns' = <<c>> \o conns
    /\ UNCHANGED <<resourceVars, lifeVars, toClose, sessions, preloaders, tasks, pipes>>

\* A request that names a resource: /stream/<id>/..., POST and DELETE of
\* /api/tasks.
AskResource(c, op, id) ==
    /\ Served(c)
    /\ op = "post" => \E l \in Preloaders : preloaders[l] = None
    /\ StartLook(op, c, id)
    /\ UNCHANGED <<lifeVars, loopVars>>

LookStep == LookOn /\ UNCHANGED <<lifeVars, loopVars>>

\* The task of u gets reader r; olds are the tasks before.
Joins(r, u, olds, oldps, opens) ==
    LET ts == WithReader(Found(olds, u), u, r)
        ps == PipesOf(oldps, ts)
    IN  /\ MayOpen(ps, ts, u, opens)
        /\ tasks' = ts /\ pipes' = Opened(ps, u, opens)
        /\ conns' = AddConns(conns, opens)

\* Mutant: the session before is replaced but stays a reader of its task.
StreamForgetting(c, u, some, opens) ==
    /\ Joins(c, u, tasks, pipes, opens)
    /\ sessions' = [sessions EXCEPT ![c] = u]
    /\ UNCHANGED <<toClose, preloaders>>

\* ms_stream_handler()
Stream(c, u, some, opens) ==
    /\ IF sessions[c] = None
       THEN Joins(c, u, tasks, pipes, opens)
       ELSE LET ts == WithoutReader(tasks, sessions[c], c)
            IN  Joins(c, u, ts, Kept(pipes, ts, sessions[c], some), opens)
    /\ sessions' = [sessions EXCEPT ![c] = u]
    /\ UNCHANGED <<toClose, preloaders>>

\* A stream request with its URL in the query.
AskUrl(c, u, some, opens) ==
    /\ Served(c)
    /\ Stream(c, u, some, opens)
    /\ UNCHANGED <<resourceVars, lifeVars>>

Answers(op, result) ==
    /\ look # NoLook /\ look.op = op /\ look.result = result
    /\ look' = NoLook /\ UNCHANGED <<resources, lastId, gone>>

\* The stream handler goes on: nothing found, nothing named.
StreamAnswer(some, opens) ==
    /\ \/ Answers("stream", "found") /\ \E u \in UrlsFound : Stream(look.nc, u, some, opens)
       \/ Answers("stream", "missing") /\ Stream(look.nc, NoUrl, some, opens)
    /\ UNCHANGED lifeVars

\* POST: a preloader joins the task.
PostAnswer(l, opens) ==
    /\ Answers("post", "found") /\ preloaders[l] = None
    /\ \E u \in UrlsFound :
        Joins(l, u, tasks, pipes, opens) /\ preloaders' = [preloaders EXCEPT ![l] = u]
    /\ UNCHANGED <<lifeVars, toClose, sessions>>

\* Reader r of task u goes.
Leaves(r, u, some) ==
    LET ts == WithoutReader(tasks, u, r)
    IN  tasks' = ts /\ pipes' = Kept(pipes, ts, u, some)

\* DELETE: one preloader of the task goes, if there is one.
DeleteAnswer(some) ==
    /\ Answers("delete", "found")
    /\ \E u \in UrlsFound :
        \/ \E l \in Preloaders :
            /\ preloaders[l] = u /\ Leaves(l, u, some)
            /\ preloaders' = [preloaders EXCEPT ![l] = None]
        \/ /\ \A l \in Preloaders : preloaders[l] # u
           /\ UNCHANGED <<preloaders, tasks, pipes>>
    /\ UNCHANGED <<lifeVars, conns, toClose, sessions>>

\* POST and DELETE read the URL of the resource they did not find, the
\* latter only if there are preloaders to compare it with.
ReadNull ==
    /\ \/ Answers("post", "missing") /\ pc' = "crashed"
       \/ /\ Answers("delete", "missing")
          /\ pc' = IF \E l \in Preloaders : preloaders[l] # None THEN "crashed" ELSE pc
    /\ UNCHANGED <<status, exitFlag, loopVars>>

\* on_send() of a session that has sent all it was asked for.
SessionDone(c, some) ==
    /\ Served(c) /\ sessions[c] # None
    /\ Leaves(c, sessions[c], some)
    /\ sessions' = [sessions EXCEPT ![c] = None]
    /\ UNCHANGED <<resourceVars, lifeVars, conns, toClose, preloaders>>

\* Data comes to a task or is read from it: pipes open and close.
Dispatch(u, some, opens) ==
    /\ \/ \E c \in Clients : Served(c) /\ sessions[c] = u
       \/ \E d \in Downloads : Served(d) /\ pipes[d].at = "replying" /\ pipes[d].task = u
    /\ LET ps == Kept(pipes, tasks, u, some)
       IN  MayOpen(ps, tasks, u, opens) /\ pipes' = Opened(ps, u, opens)
    /\ conns' = AddConns(conns, opens)
    /\ UNCHANGED <<resourceVars, lifeVars, toClose, sessions, preloaders, tasks>>

\* A pipe's connection: it gets a reply, or is sent elsewhere.
PipeMoves(d, to) ==
    /\ Served(d) /\ pipes[d].at = "connecting"
    /\ pipes' = [pipes EXCEPT ![d].at = to]
    /\ UNCHANGED <<resourceVars, lifeVars, conns, toClose, sessions, preloaders, tasks>>

\* The reply is complete: on_pipe_complete().
PipeCompletes(d, opens) ==
    /\ Served(d) /\ pipes[d].at = "replying"
    /\ LET ps == [pipes EXCEPT ![d].at = "closing"]
           u == pipes[d].task
       IN  MayOpen(ps, tasks, u, opens) /\ pipes' = Opened(ps, u, opens)
    /\ conns' = AddConns(conns, opens)
    /\ UNCHANGED <<resourceVars, lifeVars, toClose, sessions, preloaders, tasks>>

\* It is refused, or answered with an error: on_close().
PipeFails(d) ==
    /\ Served(d) /\ pipes[d].at = "connecting"
    /\ pipes' = [pipes EXCEPT ![d].at = "closing"]
    /\ tasks' = FailedTask(tasks, pipes[d].task)
    /\ UNCHANGED <<resourceVars, lifeVars, conns, toClose, sessions, preloaders>>

-----------------------------------------------------------------------------
\* The end of a connection, mg_close_conn(): by its peer, by a flag, or by
\* mg_mgr_free().

\* Mutant: the session outlives its connection.
ClosedAlone(c, some) ==
    /\ c \in Clients
    /\ conns' = DropConn(conns, c)
    /\ UNCHANGED <<sessions, tasks, pipes, preloaders>>

\* MG_EV_CLOSE in server_handler()
ClientClosed(c, some) ==
    /\ c \in Clients
    /\ conns' = DropConn(conns, c)
    /\ IF sessions[c] = None
       THEN UNCHANGED <<sessions, tasks, pipes>>
       ELSE Leaves(c, sessions[c], some) /\ sessions' = [sessions EXCEPT ![c] = None]
    /\ UNCHANGED preloaders

\* MG_EV_CLOSE in pipe_handler(): a closing pipe is freed, a redirected one
\* connects again.  One in the middle of a reply has it reported complete
\* first, so its task may open another; any other has failed.
PipeClosed(d, opens) ==
    /\ d \in Downloads
    /\ LET u == pipes[d].task
           freed == [pipes EXCEPT ![d] = FreePipe]
       IN  \/ /\ pipes[d].at = "closing" /\ opens = {}
              /\ pipes' = freed /\ UNCHANGED tasks
           \/ /\ pipes[d].at = "redirecting" /\ opens = {d}
              /\ pipes' = Opened(pipes, u, opens) /\ UNCHANGED tasks
           \/ /\ pipes[d].at = "replying" /\ MayOpen(pipes, tasks, u, opens)
              /\ pipes' = Opened(freed, u, opens) /\ UNCHANGED tasks
           \/ /\ pipes[d].at = "connecting" /\ opens = {}
              /\ pipes' = freed
              /\ tasks' = FailedTask(tasks, u)
    /\ conns' = AddConns(DropConn(conns, d), opens)
    /\ UNCHANGED <<sessions, preloaders>>

Gone(x, some, opens) ==
    /\ Served(x)
    /\ \/ ClientClosed(x, some) /\ opens = {}
       \/ PipeClosed(x, opens) /\ some = {}
    /\ UNCHANGED <<resourceVars, lifeVars, toClose>>

\* Five seconds pass for a task nobody reads.
Age(u) ==
    /\ Idle(tasks[u]) /\ ~tasks[u].aged
    /\ tasks' = [tasks EXCEPT ![u] = [tasks[u] EXCEPT !.aged = TRUE]]
    /\ UNCHANGED <<resourceVars, lifeVars, conns, toClose, sessions, preloaders, pipes>>

-----------------------------------------------------------------------------
\* The life cycle.

\* ms_asnyc_start(): refused unless idle.
AsyncStart ==
    /\ status = "idle" /\ pc = "none"
    /\ status' = "starting" /\ pc' = "start"
    /\ UNCHANGED <<resourceVars, exitFlag, loopVars>>

\* ms_stop()
Stop ==
    /\ exitFlag' = TRUE
    /\ UNCHANGED <<resourceVars, status, pc, loopVars>>

\* init_media_server() and mg_bind() of up to a hundred ports: the lists and
\* the manager are new, whatever they held.
StartServer ==
    /\ pc = "start"
    /\ pc' \in {"bound", "none"}
    /\ resources' = << >> /\ gone' = gone \cup DOMAIN resources
    /\ conns' = << >> /\ toClose' = << >>
    /\ sessions' = [c \in Clients |-> None]
    /\ preloaders' = [l \in Preloaders |-> None]
    /\ tasks' = [u \in Tasks |-> None]
    /\ pipes' = [d \in Downloads |-> FreePipe]
    /\ UNCHANGED <<lastId, look, status, exitFlag>>

\* The flag is never cleared: with a stop behind it the loop is not entered.
EnterLoop ==
    /\ pc = "bound"
    /\ status' = "running" /\ pc' = IF exitFlag THEN "last" ELSE "loop"
    /\ UNCHANGED <<resourceVars, exitFlag, loopVars>>

\* Mutant: the server waits for its clients to go.
LeaveWhenQuiet ==
    /\ pc = "loop" /\ look = NoLook /\ exitFlag /\ conns = << >>
    /\ pc' = "last" /\ toClose' = conns
    /\ tasks' = Reaped(tasks, TRUE) /\ pipes' = PipesOf(pipes, tasks')
    /\ UNCHANGED <<resourceVars, status, exitFlag, conns, sessions, preloaders>>

\* The flag is seen after a poll; tasks without readers are closed at once.
LeaveLoop ==
    /\ pc = "loop" /\ look = NoLook /\ exitFlag
    /\ pc' = "last" /\ toClose' = conns
    /\ tasks' = Reaped(tasks, TRUE) /\ pipes' = PipesOf(pipes, tasks')
    /\ UNCHANGED <<resourceVars, status, exitFlag, conns, sessions, preloaders>>

\* mg_mgr_free(): after a last poll it closes what is in the list now.
BeginFree ==
    /\ pc = "last" /\ look = NoLook
    /\ pc' = "closing" /\ toClose' = conns
    /\ UNCHANGED <<resourceVars, status, exitFlag, conns, sessions, preloaders, tasks, pipes>>

CloseNext(some, opens) ==
    /\ pc = "closing" /\ toClose # << >>
    /\ toClose' = Tail(toClose)
    /\ \/ ClientClosed(Head(toClose), some) /\ opens = {}
       \/ PipeClosed(Head(toClose), opens) /\ some = {}
    /\ UNCHANGED <<resourceVars, lifeVars>>

EndServer ==
    /\ pc = "closing" /\ toClose = << >>
    /\ status' = "idle" /\ pc' = "none"
    /\ UNCHANGED <<resourceVars, exitFlag, loopVars>>

\* The application and its resources.
Application ==
    /\ status = "running" /\ pc # "crashed"
    /\ \/ \E u \in Urls : AddResource(u) \/ ShareResource(u)
       \/ \E id \in Ids : RemoveResource(id)
    /\ UNCHANGED <<lifeVars, loopVars>>

-----------------------------------------------------------------------------

Opens == SUBSET Downloads
Some == SUBSET Downloads

Next ==
    \/ AsyncStart \/ Stop \/ StartServer \/ EnterLoop \/ LeaveLoop \/ BeginFree \/ EndServer
    \/ Application
    \/ \E u \in Tasks : Age(u)
    \/ LookStep \/ ReadNull
    \/ \E c \in Clients : Accept(c)
    \/ \E c \in Clients, op \in Ops, id \in Ids : AskResource(c, op, id)
    \/ \E c \in Clients, u \in Urls, some \in Some, opens \in Opens : AskUrl(c, u, some, opens)
    \/ \E some \in Some, opens \in Opens : StreamAnswer(some, opens) \/ CloseNext(some, opens)
    \/ \E l \in Preloaders, opens \in Opens : PostAnswer(l, opens)
    \/ \E some \in Some : DeleteAnswer(some)
    \/ \E c \in Clients, some \in Some : SessionDone(c, some)
    \/ \E u \in Tasks, some \in Some, opens \in Opens : Dispatch(u, some, opens)
    \/ \E d \in Downloads, to \in {"replying", "redirecting"} : PipeMoves(d, to)
    \/ \E d \in Downloads, opens \in Opens : PipeCompletes(d, opens)
    \/ \E d \in Downloads : PipeFails(d)
    \/ \E x \in Clients \cup Downloads, some \in Some, opens \in Opens : Gone(x, some, opens)

Spec == Init /\ [][Next]_vars

\* The server's thread goes on: its loop polls for a second at most, and
\* what it does outside the loop ends.
Fairness ==
    /\ WF_vars(StartServer) /\ WF_vars(EnterLoop)
    /\ WF_vars(LookStep) /\ WF_vars(ReadNull)
    /\ WF_vars(\E some \in Some, opens \in Opens : StreamAnswer(some, opens))
    /\ WF_vars(\E l \in Preloaders, opens \in Opens : PostAnswer(l, opens))
    /\ WF_vars(\E some \in Some : DeleteAnswer(some))
    /\ SF_vars(LeaveLoop) /\ SF_vars(BeginFree)
    /\ WF_vars(\E some \in Some, opens \in Opens : CloseNext(some, opens))
    /\ WF_vars(EndServer)

FairSpec == Spec /\ Fairness

-----------------------------------------------------------------------------

\* Every variable has its type; only tasks nobody reads grow old.
TypeOK ==
    /\ status \in {"idle", "starting", "running"} /\ exitFlag \in BOOLEAN
    /\ pc \in {"none", "start", "bound", "loop", "last", "closing", "crashed"}
    /\ sessions \in [Clients -> Tasks \cup {None}]
    /\ preloaders \in [Preloaders -> Tasks \cup {None}]
    /\ tasks \in [Tasks -> TaskRecords \cup {None}]
    /\ pipes \in [Downloads -> [task : Tasks, at : Places]]
    /\ \A u \in Tasks : tasks[u] # None /\ tasks[u].aged => tasks[u].readers = {}

\* The readers of task u, as the lists of sessions and preloaders have them.
Pointing(u) == {c \in Clients : sessions[c] = u} \cup {l \in Preloaders : preloaders[l] = u}

\* A task is there as long as a session or a preloader points at it, and has
\* exactly these as its readers: neither calls the other after it is freed.
ReadersMatch ==
    \A u \in Tasks :
        IF tasks[u] = None THEN Pointing(u) = {} ELSE tasks[u].readers = Pointing(u)

\* A download whose handler still calls its task has a task, and one that
\* is read.
PipesHaveReaders ==
    \A d \in Downloads : Live(pipes[d]) =>
        tasks[pipes[d].task] # None /\ tasks[pipes[d].task].readers # {}

\* Each connection is in the list once, a session or a pipe is never without
\* the connection it writes to, and no session outlives the server's run.
ConnsMatch ==
    /\ \A i, j \in 1..Len(conns) : conns[i] = conns[j] => i = j
    /\ \A c \in Clients : sessions[c] # None => Open(c)
    /\ \A d \in Downloads : Open(d) <=> pipes[d].at # "free"
    /\ status = "idle" => \A c \in Clients : sessions[c] = None

\* mg_mgr_free() "Closes and deallocates all active connections".
NothingLeft == status = "idle" => conns = << >>

\* A server that is told to stop comes to rest.
StopStops == exitFlag /\ pc # "none" ~> pc \in {"none", "crashed"}
=============================================================================
