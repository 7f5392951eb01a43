------------------------- MODULE EvtDispatchProofs -------------------------
(***************************************************************************)
(* Proofs about the deferred event dispatcher, for every ring size and     *)
(* every set of events.                                                    *)
(***************************************************************************)
EXTENDS EvtDispatch, TLAPS

-----------------------------------------------------------------------------
(***************************************************************************)
(* Arithmetic of ring indices.                                             *)
(***************************************************************************)

\* An index on the first turn of the ring is its own remainder.
LEMMA FirstTurn ==
    ASSUME NEW N \in Nat \ {0}, NEW a \in 0 .. (N - 1)
    PROVE  a % N = a
OBVIOUS

\* An index on the second turn of the ring.
LEMMA SecondTurn ==
    ASSUME NEW N \in Nat \ {0}, NEW a \in N .. (2 * N - 1)
    PROVE  a % N = a - N
OBVIOUS

\* The index that follows a slot is a slot.
LEMMA AfterSlot ==
    ASSUME NEW i \in Slots
    PROVE  /\ After(i) = IF i + 1 = Size THEN 0 ELSE i + 1
           /\ After(i) \in Slots
<1>1. Size \in Nat \ {0}
  BY SizeAssumption
<1>2. CASE i + 1 = Size
  <2>1. (i + 1) % Size = i + 1 - Size
    BY <1>1, <1>2, SecondTurn, SizeAssumption DEF Slots
  <2> QED BY <1>2, <2>1, SizeAssumption DEF After, Slots
<1>3. CASE i + 1 # Size
  <2>1. (i + 1) % Size = i + 1
    BY <1>1, <1>3, FirstTurn, SizeAssumption DEF Slots
  <2> QED BY <1>3, <2>1, SizeAssumption DEF After, Slots
<1> QED BY <1>2, <1>3

-----------------------------------------------------------------------------
(***************************************************************************)
(* Type correctness and wake-ups.                                          *)
(***************************************************************************)

\* Every variable of the dispatcher keeps its type: in particular the two
\* indices of ble_evt_post and of the handler stay inside the ring.
THEOREM TypeCorrect == Spec => []TypeOK
<1>1. Init => TypeOK
  <2> SUFFICES ASSUME Init PROVE TypeOK
    OBVIOUS
  <2>1. 0 \in Slots
    BY SizeAssumption DEF Slots
  <2>2. q \in [Slots -> Events \cup {NoEvent}]
    BY DEF Init
  <2>3. /\ posting \in [Contexts -> BOOLEAN]
        /\ accepted \in [Contexts -> BOOLEAN]
    BY Zenon DEF Init
  <2> QED BY <2>1, <2>2, <2>3 DEF Init, TypeOK
<1>2. TypeOK /\ [Next]_vars => TypeOK'
  <2> SUFFICES ASSUME TypeOK, [Next]_vars PROVE TypeOK'
    OBVIOUS
  <2>1. ASSUME NEW c \in Contexts, NEW e \in Events, Post(c, e)
        PROVE  TypeOK'
    <3>1. After(widx) \in Slots
      BY AfterSlot DEF TypeOK
    <3> QED BY <2>1, <3>1 DEF TypeOK, Post
  <2>2. ASSUME NEW c \in Contexts, PostRefused(c) PROVE TypeOK'
    BY <2>2 DEF TypeOK, PostRefused
  <2>3. ASSUME NEW c \in Contexts, SetPending(c) PROVE TypeOK'
    BY <2>3 DEF TypeOK, SetPending
  <2>4. CASE SwiEnter
    BY <2>4 DEF TypeOK, SwiEnter
  <2>5. CASE SwiTake
    <3>1. After(ridx) \in Slots
      BY AfterSlot DEF TypeOK
    <3>2. q[ridx] \in Events \cup {NoEvent}
      BY DEF TypeOK
    <3> QED BY <2>5, <3>1, <3>2 DEF TypeOK, SwiTake
  <2>6. CASE SwiEmpty \/ SwiReturn
    BY <2>6 DEF TypeOK, SwiEmpty, SwiReturn
  <2>7. CASE SwiDispatched
    BY <2>7 DEF TypeOK, SwiDispatched
  <2>8. CASE UNCHANGED vars
    BY <2>8 DEF TypeOK, vars
  <2> QED
    BY <2>1, <2>2, <2>3, <2>4, <2>5, <2>6, <2>7, <2>8 DEF Next, Handler
<1> QED BY <1>1, <1>2, PTL DEF Spec

\* No wake-up of the handler is lost, whichever context preempts which between
\* the unlock and the NVIC_SetPendingIRQ of ble_evt_post.
THEOREM WakeupKept == Spec => []NoLostWakeup
<1>1. Init => NoLostWakeup
  BY DEF Init, NoLostWakeup
<1>2. TypeOK /\ NoLostWakeup /\ [Next]_vars => NoLostWakeup'
  <2> SUFFICES ASSUME TypeOK, NoLostWakeup, [Next]_vars PROVE NoLostWakeup'
    OBVIOUS
  <2>1. ASSUME NEW c \in Contexts, NEW e \in Events, Post(c, e)
        PROVE  NoLostWakeup'
    BY <2>1 DEF TypeOK, Post, NoLostWakeup
  <2>2. ASSUME NEW c \in Contexts, PostRefused(c) PROVE NoLostWakeup'
    BY <2>2 DEF PostRefused, NoLostWakeup
  <2>3. ASSUME NEW c \in Contexts, SetPending(c) PROVE NoLostWakeup'
    BY <2>3 DEF SetPending, NoLostWakeup
  <2>4. CASE SwiEnter
    BY <2>4 DEF SwiEnter, NoLostWakeup
  <2>5. CASE SwiTake
    BY <2>5 DEF SwiTake, NoLostWakeup
  <2>6. CASE SwiEmpty \/ SwiReturn
    BY <2>6 DEF SwiEmpty, SwiReturn, NoLostWakeup
  <2>7. CASE SwiDispatched
    BY <2>7 DEF SwiDispatched, NoLostWakeup
  <2>8. CASE UNCHANGED vars
    BY <2>8 DEF vars, NoLostWakeup
  <2> QED
    BY <2>1, <2>2, <2>3, <2>4, <2>5, <2>6, <2>7, <2>8 DEF Next, Handler
<1> QED BY <1>1, <1>2, TypeCorrect, PTL DEF Spec

-----------------------------------------------------------------------------
(***************************************************************************)
(* The ring implements the queue.                                          *)
(***************************************************************************)

\* The slot that holds the i-th waiting event.
LEMMA SlotOf ==
    ASSUME NEW r \in Slots, NEW i \in 1 .. Size
    PROVE  /\ (r + i - 1) % Size =
                 IF r + i - 1 < Size THEN r + i - 1 ELSE r + i - 1 - Size
           /\ (r + i - 1) % Size \in Slots
<1>1. Size \in Nat \ {0} /\ r \in 0 .. Size - 1
  BY SizeAssumption DEF Slots
<1>2. PICK a \in 0 .. (2 * Size - 1) : a = r + i - 1
  BY <1>1
<1>3. a % Size = IF a < Size THEN a ELSE a - Size
  <2>1. CASE a < Size
    <3>1. a \in 0 .. (Size - 1)
      BY <1>1, <2>1
    <3> QED BY <1>1, <2>1, <3>1, FirstTurn
  <2>2. CASE ~(a < Size)
    <3>1. a \in Size .. (2 * Size - 1)
      BY <1>1, <2>2
    <3>2. a % Size = a - Size
      BY <1>1, <3>1, SecondTurn
    <3> QED BY <2>2, <3>2, Zenon
  <2> QED BY <2>1, <2>2
<1>4. a % Size \in Slots
  BY <1>1, <1>3 DEF Slots
<1>5. (r + i - 1) % Size = a % Size
  BY <1>2, Zenon
<1>6. (r + i - 1) % Size \in Slots
  BY <1>4, <1>5, Zenon
<1>7. (IF a < Size THEN a ELSE a - Size) =
         IF r + i - 1 < Size THEN r + i - 1 ELSE r + i - 1 - Size
  BY <1>1, <1>2
<1> QED BY <1>3, <1>5, <1>6, <1>7, Zenon

\* The abstract queue is a sequence whose length the ring's tests measure.
Counts ==
    /\ Count \in 0 .. Size - 1
    /\ Count = 0 <=> ridx = widx
    /\ Count = Size - 1 <=> Full
    /\ Pending \in Seq(Events \cup {NoEvent})
    /\ Len(Pending) = Count

\* How the number of waiting events relates to the ring's tests.
LEMMA Counting == TypeOK => Counts
<1> SUFFICES ASSUME TypeOK PROVE Counts
  OBVIOUS
<1>1. ridx \in 0 .. Size - 1 /\ widx \in 0 .. Size - 1
  BY DEF TypeOK, Slots
<1>2. /\ Count \in 0 .. Size - 1
      /\ Count = 0 <=> ridx = widx
  BY <1>1, SizeAssumption DEF Count
<1>3. Count = Size - 1 <=> Full
  <2>1. After(widx) = IF widx + 1 = Size THEN 0 ELSE widx + 1
    BY AfterSlot DEF TypeOK
  <2> QED BY <1>1, <2>1, SizeAssumption DEF Count, Full
<1>4. \A i \in 1 .. Count : q[(ridx + i - 1) % Size] \in Events \cup {NoEvent}
  <2> SUFFICES ASSUME NEW i \in 1 .. Count
               PROVE  q[(ridx + i - 1) % Size] \in Events \cup {NoEvent}
    OBVIOUS
  <2>1. i \in 1 .. Size
    BY <1>2, SizeAssumption
  <2>2. (ridx + i - 1) % Size \in Slots
    BY <2>1, SlotOf DEF TypeOK
  <2> QED BY <2>2 DEF TypeOK
<1>5. Count \in Nat
  BY <1>2
<1>6. Pending \in [1 .. Count -> Events \cup {NoEvent}]
  BY <1>4 DEF Pending
<1>7. Pending \in Seq(Events \cup {NoEvent}) /\ Len(Pending) = Count
  BY <1>5, <1>6
<1> QED BY <1>2, <1>3, <1>7 DEF Counts

\* A post that finds room appends to the queue.
LEMMA PostAppends ==
    ASSUME TypeOK, TypeOK', NEW c \in Contexts, NEW e \in Events, Post(c, e)
    PROVE  Pending' = Append(Pending, e)
<1>1. /\ ridx \in 0 .. Size - 1 /\ widx \in 0 .. Size - 1
      /\ ridx' = ridx /\ widx' = After(widx)
      /\ q' = [q EXCEPT ![widx] = e] /\ ~Full
      /\ q \in [Slots -> Events \cup {NoEvent}]
  BY DEF TypeOK, Slots, Post
<1>2. Count' = Count + 1
  <2>1. After(widx) = IF widx + 1 = Size THEN 0 ELSE widx + 1
    BY AfterSlot DEF TypeOK
  <2> QED BY <1>1, <2>1, SizeAssumption DEF Count, Full
<1>3. /\ Pending \in Seq(Events \cup {NoEvent}) /\ Len(Pending) = Count
      /\ Pending' \in Seq(Events \cup {NoEvent}) /\ Len(Pending') = Count'
      /\ Count \in 0 .. Size - 1 /\ Count' \in 0 .. Size - 1
  <2>1. Counts
    BY Counting
  <2>2. Counts'
    BY Counting, PTL
  <2> QED BY <2>1, <2>2 DEF Counts
<1>4. ASSUME NEW i \in 1 .. Count'
      PROVE  Pending'[i] = Append(Pending, e)[i]
  <2>1. i \in 1 .. Size /\ Pending'[i] = q'[(ridx + i - 1) % Size]
    BY <1>1, <1>3, <1>4, SizeAssumption DEF Pending
  <2>2. /\ (ridx + i - 1) % Size =
              IF ridx + i - 1 < Size THEN ridx + i - 1 ELSE ridx + i - 1 - Size
        /\ (ridx + i - 1) % Size \in Slots
    BY <2>1, SlotOf DEF TypeOK
  <2>3. CASE i = Count + 1
    <3>1. (ridx + i - 1) % Size = widx
      BY <1>1, <1>3, <2>2, <2>3, SizeAssumption DEF Count
    <3> QED BY <1>1, <1>3, <2>1, <2>2, <2>3, <3>1
  <2>4. CASE i # Count + 1
    <3>1. i \in 1 .. Count
      BY <1>2, <1>3, <1>4, <2>4
    <3>2. (ridx + i - 1) % Size # widx
      <4> DEFINE slot == (ridx + i - 1) % Size
      <4>1. i \in Nat /\ i >= 1 /\ i <= Count
        BY <1>3, <3>1
      <4>2. \/ ridx + i - 1 < Size /\ slot = ridx + i - 1
            \/ ridx + i - 1 >= Size /\ slot = ridx + i - 1 - Size
        BY <1>1, <2>2, <4>1, SizeAssumption
      <4>3. /\ ridx <= widx => Count = widx - ridx
            /\ ridx > widx => Count = widx + Size - ridx
        BY <1>1 DEF Count
      <4>4. ridx \in Nat /\ widx \in Nat /\ ridx < Size /\ widx < Size
        BY <1>1, SizeAssumption
      <4> HIDE DEF slot
      <4>5. slot # widx
        BY <4>1, <4>2, <4>3, <4>4, SizeAssumption
      <4> QED BY <4>5 DEF slot
    <3>3. Pending'[i] = q[(ridx + i - 1) % Size]
      BY <1>1, <2>1, <2>2, <3>2
    <3>4. Pending[i] = q[(ridx + i - 1) % Size]
      BY <3>1 DEF Pending
    <3> QED BY <1>3, <3>1, <3>3, <3>4
  <2> QED BY <2>3, <2>4
<1>5. /\ Append(Pending, e) \in Seq(Events \cup {NoEvent})
      /\ Len(Append(Pending, e)) = Count'
  BY <1>2, <1>3
<1> QED BY <1>3, <1>4, <1>5

\* The handler takes the queue's head.
LEMMA TakeTakesHead ==
    ASSUME TypeOK, TypeOK', SwiTake
    PROVE  /\ Pending # <<>>
           /\ evt' = Head(Pending)
           /\ Pending' = Tail(Pending)
<1>1. /\ ridx \in 0 .. Size - 1 /\ widx \in 0 .. Size - 1
      /\ widx' = widx /\ ridx' = After(ridx) /\ q' = q
      /\ ridx # widx /\ evt' = q[ridx]
  BY DEF TypeOK, Slots, SwiTake
<1>2. /\ After(ridx) = IF ridx + 1 = Size THEN 0 ELSE ridx + 1
      /\ After(ridx) \in Slots
  BY AfterSlot DEF TypeOK
<1>3. Count' = Count - 1
  BY <1>1, <1>2, SizeAssumption DEF Count
<1>4. /\ Pending \in Seq(Events \cup {NoEvent}) /\ Len(Pending) = Count
      /\ Pending' \in Seq(Events \cup {NoEvent}) /\ Len(Pending') = Count'
      /\ Count \in 0 .. Size - 1 /\ Count' \in 0 .. Size - 1
      /\ Count # 0
  <2>1. Counts
    BY Counting
  <2>2. Counts'
    BY Counting, PTL
  <2> QED BY <1>1, <2>1, <2>2 DEF Counts
<1>5. evt' = Head(Pending) /\ Pending # <<>>
  <2>1. 1 \in 1 .. Count /\ 1 \in 1 .. Size
    BY <1>4, SizeAssumption
  <2>2. (ridx + 1 - 1) % Size = ridx
    <3>1. ridx \in Slots
      BY DEF TypeOK
    <3>2. (ridx + 1 - 1) % Size =
             IF ridx + 1 - 1 < Size THEN ridx + 1 - 1 ELSE ridx + 1 - 1 - Size
      BY <2>1, <3>1, SlotOf
    <3> QED BY <1>1, <3>2, SizeAssumption
  <2>3. Pending[1] = q[ridx]
    BY <2>1, <2>2 DEF Pending
  <2> QED BY <1>1, <1>4, <2>3
<1>6. ASSUME NEW i \in 1 .. Count' PROVE Pending'[i] = Tail(Pending)[i]
  <2>1. /\ i \in 1 .. Size /\ i + 1 \in 1 .. Size /\ i + 1 \in 1 .. Count
        /\ Pending'[i] = q[(After(ridx) + i - 1) % Size]
    BY <1>1, <1>3, <1>4, <1>6, SizeAssumption DEF Pending
  <2>2. (After(ridx) + i - 1) % Size = (ridx + (i + 1) - 1) % Size
    <3>1. (After(ridx) + i - 1) % Size =
             IF After(ridx) + i - 1 < Size THEN After(ridx) + i - 1
                                           ELSE After(ridx) + i - 1 - Size
      BY <1>2, <2>1, SlotOf
    <3>2. (ridx + (i + 1) - 1) % Size =
             IF ridx + (i + 1) - 1 < Size THEN ridx + (i + 1) - 1
                                          ELSE ridx + (i + 1) - 1 - Size
      BY <2>1, SlotOf DEF TypeOK
    <3> QED BY <1>1, <1>2, <2>1, <3>1, <3>2, SizeAssumption
  <2>3. Pending[i + 1] = q[(ridx + (i + 1) - 1) % Size]
    BY <2>1 DEF Pending
  <2> QED BY <1>4, <2>1, <2>2, <2>3
<1>7. /\ Tail(Pending) \in Seq(Events \cup {NoEvent})
      /\ Len(Tail(Pending)) = Count'
  BY <1>3, <1>4, <1>5
<1> QED BY <1>4, <1>5, <1>6, <1>7

\* What the ring, the interrupt and its handler do is what the queue promises,
\* for every ring size and every order of preemption.
THEOREM Implementation == Spec => ImplementsQueue
<1>1. Init => Queue!Init
  <2> SUFFICES ASSUME Init PROVE Queue!Init
    OBVIOUS
  <2>1. Count = 0
    BY SizeAssumption DEF Init, Count
  <2>2. Pending = <<>>
    BY <2>1 DEF Pending
  <2>3. Current = <<>>
    BY DEF Init, Current
  <2> QED BY <2>2, <2>3 DEF Init, Queue!Init
<1>2. TypeOK /\ TypeOK' /\ [Next]_vars => [Queue!Next]_(Queue!vars)
  <2> SUFFICES ASSUME TypeOK, TypeOK', [Next]_vars
               PROVE  [Queue!Next]_(Queue!vars)
    OBVIOUS
  <2>1. ASSUME NEW c \in Contexts, NEW e \in Events, Post(c, e)
        PROVE  Queue!Accept(c, e)
    <3>1. Pending' = Append(Pending, e)
      BY <2>1, PostAppends
    <3>2. Len(Pending) < Size - 1
      BY <2>1, Counting, SizeAssumption DEF Post, Counts
    <3>3. Current' = Current
      BY <2>1 DEF Post, Current
    <3> QED BY <2>1, <3>1, <3>2, <3>3 DEF Post, Queue!Accept
  <2>2. ASSUME NEW c \in Contexts, PostRefused(c)
        PROVE  Queue!Refuse(c)
    <3>1. Len(Pending) = Size - 1
      BY <2>2, Counting DEF PostRefused, Counts
    <3>2. Pending' = Pending /\ Current' = Current
      BY <2>2 DEF PostRefused, Pending, Count, Current
    <3> QED BY <2>2, <3>1, <3>2 DEF PostRefused, Queue!Refuse
  <2>3. ASSUME SwiTake PROVE Queue!Take
    <3>1. Current = <<>> /\ Current' = <<evt'>>
      BY <2>3 DEF SwiTake, Current
    <3> QED BY <2>3, <3>1, TakeTakesHead DEF SwiTake, Queue!Take
  <2>4. ASSUME SwiDispatched PROVE Queue!Deliver
    <3>1. Pending' = Pending /\ Current # <<>> /\ Current' = <<>>
      BY <2>4 DEF SwiDispatched, Pending, Count, Current
    <3> QED BY <2>4, <3>1 DEF SwiDispatched, Queue!Deliver
  <2>5. ASSUME \/ \E c \in Contexts : SetPending(c)
               \/ SwiEnter
               \/ SwiEmpty
               \/ SwiReturn
               \/ UNCHANGED vars
        PROVE  UNCHANGED Queue!vars
    <3>1. Pending' = Pending /\ Current' = Current
      BY <2>5 DEF SetPending, SwiEnter, SwiEmpty, SwiReturn, vars, Pending, Count, Current
    <3>2. accepted' = accepted
      BY <2>5 DEF SetPending, SwiEnter, SwiEmpty, SwiReturn, vars
    <3> QED BY <3>1, <3>2 DEF Queue!vars
  <2> QED
    BY <2>1, <2>2, <2>3, <2>4, <2>5 DEF Next, Handler, Queue!Next
<1> QED
  BY <1>1, <1>2, TypeCorrect, PTL DEF Spec, ImplementsQueue, Queue!Spec

=============================================================================
