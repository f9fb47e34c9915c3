----------------------------- MODULE Resources -----------------------------
(***************************************************************************)
(* The list of resources of src/src/ms_server.c.  The application's        *)
(* threads add resources and take them away; the server's thread walks the *)
(* list for every request that names one.  There is no lock, so a walk is  *)
(* modelled node by node, and the application moves between its steps.     *)
(*                                                                         *)
(* A resource is appended with the next id, so the list is in the order of *)
(* its ids and is modelled as a function from them.  Taking away the node  *)
(* a walk stands at frees what it is about to read: stale notes that, and  *)
(* what the walk finds from then on is left open.                          *)
(***************************************************************************)
EXTENDS Integers

CONSTANTS
    Urls,        \* URLs of origins
    NoUrl,       \* the empty URL, which a request that names nothing gets
    Clients,     \* connections of players and of the API
    MaxId,       \* bound: ids handed out
    MaxRef       \* bound: times a resource is asked for

ASSUME ResourceAssumption ==
    NoUrl \notin Urls /\ MaxId \in Nat /\ MaxRef \in Nat \ {0}

VARIABLES
    resources,   \* id -> [url, ref], for the ids in the list
    lastId,      \* s_base_url_id
    gone,        \* history: the ids that have been in the list before
    look         \* the look-up the server's thread is in

resourceVars == <<resources, lastId, gone, look>>

Ids == 1..MaxId
Ops == {"stream", "post", "delete"}
NoLook == [op |-> "none"]
Results == {"walking", "found", "missing"}

ResourceInit ==
    /\ resources = << >> /\ lastId = 0
    /\ gone = {} /\ look = NoLook

Listed(id) == id \in DOMAIN resources

\* What a look-up of id should tell of a list.
Truth(id, res) == IF id \in DOMAIN res THEN "found" ELSE "missing"

\* What a look-up that is under way could have answered after a change.
Noticed(res) ==
    IF look = NoLook THEN look
    ELSE [look EXCEPT !.could = @ \cup {Truth(look.id, res)}]

\* Mutant: an id that is not in the list is used again.
ReuseId(u) ==
    /\ \A id \in DOMAIN resources : resources[id].url # u
    /\ \E id \in Ids :
        /\ id \notin DOMAIN resources /\ id <= lastId + 1
        /\ LET res == [i \in DOMAIN resources \cup {id} |->
                          IF i = id THEN [url |-> u, ref |-> 1] ELSE resources[i]]
           IN  resources' = res /\ look' = Noticed(res)
    /\ lastId' = lastId + 1 /\ gone' = gone

\* ms_generate_resource() of a URL that is not in the list.
AddResource(u) ==
    /\ \A id \in DOMAIN resources : resources[id].url # u
    /\ lastId < MaxId
    /\ lastId' = lastId + 1
    /\ LET res == [i \in DOMAIN resources \cup {lastId + 1} |->
                      IF i = lastId + 1 THEN [url |-> u, ref |-> 1] ELSE resources[i]]
       IN  resources' = res /\ look' = Noticed(res)
    /\ gone' = gone

\* ms_generate_resource() of a URL that is in the list already.
ShareResource(u) ==
    /\ \E id \in DOMAIN resources :
        /\ resources[id].url = u /\ resources[id].ref < MaxRef
        /\ resources' = [resources EXCEPT ![id].ref = @ + 1]
    /\ UNCHANGED <<lastId, gone, look>>

\* The node a look-up is about to read.
Reads(id) ==
    /\ look # NoLook
    /\ \/ look.result = "walking" /\ look.at = id
       \/ look.result = "found" /\ look.id = id

\* ms_remove_resource(): the last one who asked for it frees it.
RemoveResource(id) ==
    /\ id \in DOMAIN resources
    /\ IF resources[id].ref > 1
       THEN resources' = [resources EXCEPT ![id].ref = @ - 1] /\ UNCHANGED <<gone, look>>
       ELSE LET res == [i \in DOMAIN resources \ {id} |-> resources[i]]
            IN  /\ resources' = res /\ gone' = gone \cup {id}
                /\ look' = IF Reads(id) THEN [Noticed(res) EXCEPT !.stale = TRUE]
                                        ELSE Noticed(res)
    /\ lastId' = lastId

-----------------------------------------------------------------------------

\* QUEUE_NEXT(): the node after n, 0 for the head of the list.
NodeAfter(n) ==
    IF \E id \in DOMAIN resources : id > n
    THEN CHOOSE id \in DOMAIN resources :
            id > n /\ \A other \in DOMAIN resources : other > n => id <= other
    ELSE 0

\* ms_find_resource(), ms_find_resource_by_id(): the walk begins.
StartLook(op, nc, id) ==
    /\ look' = [op |-> op, nc |-> nc, id |-> id, at |-> NodeAfter(0),
                result |-> "walking", stale |-> FALSE, could |-> {Truth(id, resources)}]
    /\ UNCHANGED <<resources, lastId, gone>>

\* Mutant: the walk steps before it compares.
LookPast(l) ==
    LET n == NodeAfter(l.at)
    IN  CASE l.at = 0 -> [l EXCEPT !.result = "missing"]
          [] n # 0 /\ n = l.id -> [l EXCEPT !.result = "found"]
          [] OTHER -> [l EXCEPT !.at = n]

\* One round of QUEUE_FOREACH.
Compared(l) ==
    CASE l.at = 0 -> [l EXCEPT !.result = "missing"]
      [] l.at # 0 /\ l.at = l.id -> [l EXCEPT !.result = "found"]
      [] OTHER -> [l EXCEPT !.at = NodeAfter(l.at)]

LookOn ==
    /\ look # NoLook /\ look.result = "walking"
    /\ \/ ~look.stale /\ look' = Compared(look)
       \/ \E r \in {"found", "missing"} : look.stale /\ look' = [look EXCEPT !.result = r]
    /\ UNCHANGED <<resources, lastId, gone>>

\* What a look-up that has found something reads there.
UrlsFound == IF look.stale THEN Urls \cup {NoUrl} ELSE {resources[look.id].url}

-----------------------------------------------------------------------------

\* A look-up tells what was so at some time while it ran, however the
\* application changed the list meanwhile, unless it was taken from under it.
LookupIsFresh ==
    look # NoLook /\ look.result # "walking" /\ ~look.stale => look.result \in look.could

\* An id names one resource for good: a play URL that outlives its resource,
\* or the server's run, never comes to mean another.
IdsOnce == DOMAIN resources \cap gone = {}
=============================================================================
