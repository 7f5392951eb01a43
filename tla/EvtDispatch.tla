---------------------------- MODULE EvtDispatch ----------------------------
(***************************************************************************)
(* The deferred event dispatcher of core/ble_runtime.c.                    *)
(*                                                                         *)
(* Events are reported from the main loop, from the software interrupt     *)
(* SWI1_EGU1 (an application callback calling back into the stack), from   *)
(* the RADIO interrupt and from TIMER0.  ble_evt_post copies the event to  *)
(* a ring under irq_lock and, after unlocking, sets the software interrupt *)
(* pending; the handler of that interrupt drains the ring and calls the    *)
(* application.  A context is preempted only by a context of a higher      *)
(* priority, so between the unlock and NVIC_SetPendingIRQ of a low one a   *)
(* higher one may post, and the handler itself may run to completion.      *)
(***************************************************************************)
EXTENDS Integers, Sequences

CONSTANTS
    Size,       \* BLE_EVT_QUEUE_SIZE
    Events,     \* the events reported
    NoEvent     \* content of a slot and of the handler's copy before first use

ASSUME SizeAssumption == Size \in Nat /\ Size > 1
ASSUME NoEventAssumption == NoEvent \notin Events

Contexts == {"main", "swi", "radio", "timer0"}

\* Larger is more urgent: the NVIC priorities 0 (TIMER0), 1 (RADIO) and
\* 6 (SWI1_EGU1), and thread mode below them all.
Urgency == [main |-> 0, swi |-> 1, radio |-> 2, timer0 |-> 3]

VARIABLES
    q,          \* m_evt_dispatch.q
    ridx,       \* m_evt_dispatch.ridx
    widx,       \* m_evt_dispatch.widx
    swiPending, \* the NVIC pending bit of SWI1_EGU1
    swi,        \* the handler: "idle", "drain" at its loop's head, "dispatch"
                \* in a callback, "leaving" with the ring found empty
    evt,        \* the handler's local copy of the event it dispatches
    posting,    \* per context: between irq_unlock and NVIC_SetPendingIRQ
    accepted    \* per context: the value its last ble_evt_post returned

vars == <<q, ridx, widx, swiPending, swi, evt, posting, accepted>>

Slots == 0 .. Size - 1

\* Mutant of After: the index does not wrap.
AfterUnwrapped(i) == i + 1

\* The index that follows i, round the ring.
After(i) == (i + 1) % Size

TypeOK ==
    /\ q \in [Slots -> Events \cup {NoEvent}]
    /\ ridx \in Slots
    /\ widx \in Slots
    /\ swiPending \in BOOLEAN
    /\ swi \in {"idle", "drain", "dispatch", "leaving"}
    /\ evt \in Events \cup {NoEvent}
    /\ posting \in [Contexts -> BOOLEAN]
    /\ accepted \in [Contexts -> BOOLEAN]

\* ble_evt_dispatch_init
Init ==
    /\ q = [i \in Slots |-> NoEvent]
    /\ ridx = 0
    /\ widx = 0
    /\ swiPending = FALSE
    /\ swi = "idle"
    /\ evt = NoEvent
    /\ posting = [c \in Contexts |-> FALSE]
    /\ accepted = [c \in Contexts |-> TRUE]

-----------------------------------------------------------------------------

Busy(c) == posting[c] \/ (c = "swi" /\ swi # "idle")

\* No context that preempts c is in the middle of something.
Runs(c) == \A d \in Contexts : Urgency[d] > Urgency[c] => ~Busy(d)

\* c may call ble_evt_post: the software interrupt does so only from the
\* application callbacks it makes.
MayPost(c) ==
    /\ Runs(c)
    /\ ~posting[c]
    /\ c = "swi" => swi = "dispatch"

\* Mutant of Full: one slot is lost by counting from the next index.
FullOneEarly == After(After(widx)) = ridx

Full == After(widx) = ridx

\* ble_evt_post, from irq_lock to irq_unlock, when there is room.
Post(c, e) ==
    /\ MayPost(c)
    /\ ~Full
    /\ q' = [q EXCEPT ![widx] = e]
    /\ widx' = After(widx)
    /\ posting' = [posting EXCEPT ![c] = TRUE]
    /\ accepted' = [accepted EXCEPT ![c] = TRUE]
    /\ UNCHANGED <<ridx, swiPending, swi, evt>>

\* ble_evt_post on a full ring: nothing is stored, nothing is set pending.
PostRefused(c) ==
    /\ MayPost(c)
    /\ Full
    /\ accepted' = [accepted EXCEPT ![c] = FALSE]
    /\ UNCHANGED <<q, ridx, widx, swiPending, swi, evt, posting>>

\* Mutant of SetPending: leaves a handler that is running alone.
SetPendingUnlessRunning(c) ==
    /\ Runs(c)
    /\ posting[c]
    /\ swiPending' = (swiPending \/ swi = "idle")
    /\ posting' = [posting EXCEPT ![c] = FALSE]
    /\ UNCHANGED <<q, ridx, widx, swi, evt, accepted>>

\* NVIC_SetPendingIRQ at the end of ble_evt_post.
SetPending(c) ==
    /\ Runs(c)
    /\ posting[c]
    /\ swiPending' = TRUE
    /\ posting' = [posting EXCEPT ![c] = FALSE]
    /\ UNCHANGED <<q, ridx, widx, swi, evt, accepted>>

\* The processor takes the interrupt, which clears its pending bit.
SwiEnter ==
    /\ Runs("swi")
    /\ swiPending
    /\ swi = "idle"
    /\ swiPending' = FALSE
    /\ swi' = "drain"
    /\ UNCHANGED <<q, ridx, widx, evt, posting, accepted>>

\* One pass of the handler's locked section on a non-empty ring.
SwiTake ==
    /\ Runs("swi")
    /\ swi = "drain"
    /\ ridx # widx
    /\ evt' = q[ridx]
    /\ ridx' = After(ridx)
    /\ swi' = "dispatch"
    /\ UNCHANGED <<q, widx, swiPending, posting, accepted>>

\* The locked section on an empty ring: the handler unlocks and will return.
SwiEmpty ==
    /\ Runs("swi")
    /\ swi = "drain"
    /\ ridx = widx
    /\ swi' = "leaving"
    /\ UNCHANGED <<q, ridx, widx, swiPending, evt, posting, accepted>>

\* ... and returns, whatever was posted since.
SwiReturn ==
    /\ Runs("swi")
    /\ swi = "leaving"
    /\ swi' = "idle"
    /\ UNCHANGED <<q, ridx, widx, swiPending, evt, posting, accepted>>

\* Mutant of SwiDispatched: one event per interrupt, no loop.
SwiDispatchedReturns ==
    /\ Runs("swi")
    /\ swi = "dispatch"
    /\ ~posting["swi"]
    /\ swi' = "idle"
    /\ UNCHANGED <<q, ridx, widx, swiPending, evt, posting, accepted>>

\* The application callback returns and the handler loops.
SwiDispatched ==
    /\ Runs("swi")
    /\ swi = "dispatch"
    /\ ~posting["swi"]
    /\ swi' = "drain"
    /\ UNCHANGED <<q, ridx, widx, swiPending, evt, posting, accepted>>

Handler == SwiEnter \/ SwiTake \/ SwiEmpty \/ SwiReturn \/ SwiDispatched

Next ==
    \/ \E c \in Contexts :
          \/ \E e \in Events : Post(c, e)
          \/ PostRefused(c)
          \/ SetPending(c)
    \/ Handler

Spec == Init /\ [][Next]_vars

(***************************************************************************)
(* A context that runs finishes the call it is in, and the handler, which  *)
(* more urgent contexts preempt again and again, keeps getting processor   *)
(* time: interrupts come at the finite rate of radio events, hence strong  *)
(* fairness.  Nothing is assumed of who reports what.                      *)
(***************************************************************************)
Fairness ==
    /\ \A c \in Contexts : SF_vars(SetPending(c))
    /\ SF_vars(Handler)

FairSpec == Spec /\ Fairness

-----------------------------------------------------------------------------
(***************************************************************************)
(* The queue the ring stands for.                                          *)
(***************************************************************************)
Count == IF ridx <= widx THEN widx - ridx ELSE widx + Size - ridx

Pending == [i \in 1 .. Count |-> q[(ridx + i - 1) % Size]]

Current == IF swi = "dispatch" THEN <<evt>> ELSE <<>>

Queue == INSTANCE EvtQueue
            WITH Capacity <- Size - 1,
                 pending <- Pending, current <- Current

\* Whatever the order in which contexts preempt each other, what the ring and
\* the handler do is what a first-in first-out queue of Size - 1 events does:
\* nothing accepted is lost, duplicated, altered or overtaken, and an event is
\* refused only when that many wait (ble_evt_post, SWI1_EGU1_IRQHandler).
ImplementsQueue == Queue!Spec

\* No lost wake-up: while an event waits, the software interrupt is pending, or
\* in its loop, or about to be set pending by the context that posted (ble_evt_post
\* unlocks before it sets the interrupt pending).
NoLostWakeup ==
    ridx # widx =>
        \/ swiPending
        \/ swi \in {"drain", "dispatch"}
        \/ \E c \in Contexts : posting[c]

\* Every accepted event reaches the application's callback, even one that was
\* posted by a context preempted before it could set the interrupt pending.
AcceptedDispatched ==
    \A e \in Events :
        (\E i \in 1 .. Count : Pending[i] = e) ~> (swi = "dispatch" /\ evt = e)

=============================================================================
