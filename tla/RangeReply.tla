----------------------------- MODULE RangeReply -----------------------------
(***************************************************************************)
(* What the server promises the client of one connection: each GET is      *)
(* answered with the bytes of the file from the first one asked for, in    *)
(* order, none twice and none skipped, and never more than were asked for. *)
(* The connection stays open for the next request only when the reply was  *)
(* complete; otherwise it is closed.                                       *)
(***************************************************************************)
EXTENDS Integers, Sequences

CONSTANTS
    FileSize,   \* bytes in the resource
    Requests    \* the ranges clients ask for: [pos, len], len = 0: to the end

VARIABLES
    phase,      \* "closed", "idle" or "serving"
    range,      \* the range being served, or last served
    got         \* the offsets of the bytes the client has received in it

vars == <<phase, range, got>>

Length(r) == IF r.len = 0 THEN FileSize - r.pos ELSE r.len

Init ==
    /\ phase = "idle"
    /\ range \in Requests
    /\ got = <<>>

Start ==
    /\ phase = "idle"
    /\ phase' = "serving"
    /\ range' \in Requests
    /\ got' = <<>>

Deliver ==
    /\ phase = "serving"
    /\ \E k \in 0..(Length(range) - Len(got)) :
         got' = got \o [i \in 1..k |-> range.pos + Len(got) + i - 1]
    /\ \/ phase' = "serving"
       \/ phase' = "idle" /\ Len(got') = Length(range)
    /\ UNCHANGED range

Break ==
    /\ phase # "closed"
    /\ phase' = "closed"
    /\ UNCHANGED <<range, got>>

Accept ==
    /\ phase = "closed"
    /\ phase' = "idle" /\ got' = <<>>
    /\ UNCHANGED range

Next == Start \/ Deliver \/ Break \/ Accept

Spec == Init /\ [][Next]_vars
=============================================================================
