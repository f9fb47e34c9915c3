----------------------------- MODULE HttpEvents -----------------------------
(***************************************************************************)
(* What module HttpPipe takes for granted of mongoose: the events that the *)
(* handler of one client connection gets, from mg_connect_http() to        *)
(* MG_EV_CLOSE.  HttpConn implements it.                                   *)
(***************************************************************************)
EXTENDS Naturals

VARIABLES
    phase,    \* "connecting", "open" or "gone"
    length,   \* of the body, as the reply declares it
    given,    \* bytes of the body that were in the events so far
    told,     \* whether MG_EV_HTTP_REPLY has come
    closing   \* whether the handler has closed: it ignores all but the close

vars == <<phase, length, given, told, closing>>

Init ==
    /\ phase = "connecting" /\ length \in Nat
    /\ given = 0 /\ told = FALSE /\ closing = FALSE

Connected ==
    /\ phase = "connecting" /\ ~closing /\ phase' = "open"
    /\ UNCHANGED <<length, given, told, closing>>

\* The handler closes: of itself, or because it is told a failure.
Closes ==
    /\ phase # "gone" /\ closing' = TRUE
    /\ UNCHANGED <<phase, length, given, told>>

\* A body event, and the reply in the same call when the body is complete;
\* the handler may close at either.
Arrives(n) ==
    /\ phase = "open" /\ ~closing
    /\ given' = given + n
    /\ \/ told' = (given' = length) /\ closing' = told'
       \/ told' = FALSE /\ closing' = TRUE
    /\ UNCHANGED <<phase, length>>

\* MG_EV_CLOSE: no more of the body comes with it, but the reply may.
Gone ==
    /\ phase # "gone" /\ phase' = "gone"
    /\ \/ UNCHANGED told
       \/ phase = "open" /\ ~closing /\ told' = TRUE
    /\ closing' = TRUE
    /\ UNCHANGED <<length, given>>

Next == Connected \/ Closes \/ Gone \/ \E n \in 0..length - given : Arrives(n)

Spec == Init /\ [][Next]_vars
=============================================================================
