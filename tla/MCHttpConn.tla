----------------------------- MODULE MCHttpConn -----------------------------
(* The instances of HttpConn that TLC checks. *)
EXTENDS HttpConn

Both == {"client", "server"}
Body(n) == [len |-> n, known |-> TRUE]

\* One message, whose length is declared or not, or several in a row.
Sent ==
    { <<Body(n)>> : n \in {0, 1, 4} } \cup { <<[len |-> 3, known |-> FALSE]>> }
        \cup { <<Body(0), Body(2), Body(0)>>, <<Body(3), Body(0), Body(1)>>,
              <<Body(0), [len |-> 2, known |-> FALSE]>> }
=============================================================================
