------------------------------- MODULE AttCall -------------------------------
(***************************************************************************)
(* What ATT promises a client: remote calls, one at a time.  A call is     *)
(* served once, by a result of its own kind or an error, before it returns *)
(* or, in a discovery, calls again for the next part.  A result may be     *)
(* dropped, and then the call does not return.  The link may go down at    *)
(* any time.                                                               *)
(***************************************************************************)
EXTENDS Sequences

VARIABLES
    up,       \* the link
    called,   \* calls under way to the server, by kind
    served    \* results under way to the client

Kinds == {"READ", "WRITE", "DISCOVER"}

Init == up = TRUE /\ called = <<>> /\ served = <<>>

Begin ==
    /\ called = <<>> /\ served = <<>>
    /\ \E k \in Kinds : called' = <<k>>
    /\ UNCHANGED served

Serve ==
    /\ called # <<>> /\ called' = Tail(called)
    /\ \E result \in {Head(called), "ERROR", "DROPPED"} : served' = <<result>>

CallAgain ==
    /\ served = <<"DISCOVER">> /\ called' = served /\ served' = <<>>

Return ==
    /\ served \notin {<<>>, <<"DROPPED">>} /\ served' = <<>>
    /\ UNCHANGED called

Next ==
    \/ up /\ up' = up /\ (Begin \/ Serve \/ CallAgain \/ Return)
    \/ up /\ up' = FALSE /\ called' = <<>> /\ served' = <<>>

Spec == Init /\ [][Next]_<<up, called, served>>
=============================================================================
