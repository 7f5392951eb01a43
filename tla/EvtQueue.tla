------------------------------ MODULE EvtQueue ------------------------------
(***************************************************************************)
(* What the deferred event dispatcher of ble_runtime.c promises: a bounded *)
(* first-in first-out queue between the contexts that report events and    *)
(* the one that calls the application, which tells its caller truthfully   *)
(* whether an event was accepted, and refuses only when it is full.        *)
(***************************************************************************)
EXTENDS Integers, Sequences

CONSTANTS
    Contexts,   \* the execution contexts that report events
    Events,     \* the events they report
    Capacity    \* how many accepted events may wait

VARIABLES
    pending,    \* accepted and not yet taken, oldest first
    current,    \* the event being delivered: a sequence of length 0 or 1
    accepted    \* per context, what the last report returned

vars == <<pending, current, accepted>>

Init ==
    /\ pending = <<>>
    /\ current = <<>>
    /\ accepted = [c \in Contexts |-> TRUE]

Accept(c, e) ==
    /\ Len(pending) < Capacity
    /\ pending' = Append(pending, e)
    /\ accepted' = [accepted EXCEPT ![c] = TRUE]
    /\ UNCHANGED current

Refuse(c) ==
    /\ Len(pending) = Capacity
    /\ accepted' = [accepted EXCEPT ![c] = FALSE]
    /\ UNCHANGED <<pending, current>>

Take ==
    /\ current = <<>>
    /\ pending # <<>>
    /\ current' = <<Head(pending)>>
    /\ pending' = Tail(pending)
    /\ UNCHANGED accepted

Deliver ==
    /\ current # <<>>
    /\ current' = <<>>
    /\ UNCHANGED <<pending, accepted>>

Next ==
    \/ \E c \in Contexts : Refuse(c) \/ \E e \in Events : Accept(c, e)
    \/ Take
    \/ Deliver

Spec == Init /\ [][Next]_vars

=============================================================================
