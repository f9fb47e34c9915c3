------------------------------ MODULE PipeFeed ------------------------------
(***************************************************************************)
(* What a pipe promises the task that opened it: it feeds the file from    *)
(* where it stands, in order, in whole pieces or up to the end of the      *)
(* file; it says once that it has ended, unless the task has closed it     *)
(* first, and nothing after either; it is freed after that and once.       *)
(***************************************************************************)
EXTENDS Integers

CONSTANTS
    PIECE,      \* bytes in a piece
    FileSize    \* bytes in the resource

VARIABLES
    fed,        \* the position up to which the task has been fed
    told,       \* whether the task was told the end
    status      \* "open", "closed" (the task has let go of it) or "freed"

vars == <<fed, told, status>>

CutAt(pos) == pos % PIECE = 0 \/ pos = FileSize

Init ==
    /\ fed \in 0..FileSize /\ CutAt(fed)
    /\ told = FALSE /\ status = "open"

\* The task may close the pipe while it is fed.
Feed ==
    /\ status = "open"
    /\ fed' \in fed..FileSize /\ CutAt(fed')
    /\ status' \in {"open", "closed"}
    /\ UNCHANGED told

\* The last bytes may come with the end.  The task closes a pipe that ends.
End ==
    /\ status = "open"
    /\ fed' \in fed..FileSize /\ CutAt(fed')
    /\ told' = TRUE
    /\ status' \in {"closed", "freed"}

Free ==
    /\ status = "closed" /\ status' = "freed"
    /\ UNCHANGED <<fed, told>>

Next == Feed \/ End \/ Free

Spec == Init /\ [][Next]_vars
=============================================================================
