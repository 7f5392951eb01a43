----------------------- MODULE DataChannelLinkProofs -----------------------
(***************************************************************************)
(* What DataChannelOrderProofs makes possible.  DataChannel implements      *)
(* ReliableLink: every step of the two controllers is a step of the          *)
(* stop-and-wait link, or none of its steps.  The response slot is free      *)
(* when an answer needs it, the peripheral's answers carry the current NESN, *)
(* and the L2CAP payloads arrive in the order of their queue.               *)
(***************************************************************************)
EXTENDS DataChannelOrderProofs

LEMMA LinkFacts ==
  /\ Link!Ends = Node
  /\ \A n \in Node : Link!Other(n) = Peer(n)
BY DEF Link!Ends, Link!Other, Node, Peer

LEMMA AppendIsOneMore ==
  ASSUME NEW s \in Seq(Body), NEW b \in Body
  PROVE  Link!OneMore(s, Append(s, b))
<1>1. Len(Append(s, b)) = Len(s) + 1 /\ Append(s, b) \in Seq(Body) /\ Len(s) \in Nat
  OBVIOUS
<1>2. SubSeq(Append(s, b), 1, Len(s)) = s
  <2>1. /\ SubSeq(Append(s, b), 1, Len(s)) \in Seq(Body)
        /\ Len(SubSeq(Append(s, b), 1, Len(s))) = Len(s)
        /\ \A i \in 1..Len(s) : SubSeq(Append(s, b), 1, Len(s))[i] = s[i]
    BY <1>1
  <2> QED
    BY <2>1
<1> QED
  BY <1>1, <1>2 DEF Link!OneMore

(* Staging a PDU at n is a step of the link, unless the PDU is empty.       *)
LEMMA SendStep ==
  ASSUME TypeOK, NEW n \in Node, NEW b \in Body, connected[n],
         connected[Peer(n)] => sent[n] = rcvd[Peer(n)],
         sent' = [sent EXCEPT ![n] = Plus(@, b)],
         UNCHANGED <<connected, rcvd>>
  PROVE  Link!Send(n) \/ sent' = sent
<1>1. sent \in [Node -> Seq(Body)]
  BY DEF TypeOK
<1>2. CASE b = EmptyBody
  BY <1>1, <1>2 DEF Plus
<1>3. CASE b # EmptyBody
  <2>1. sent'[n] = Append(sent[n], b) /\ sent' = [sent EXCEPT ![n] = sent'[n]]
    BY <1>1, <1>3 DEF Plus
  <2>2. Link!OneMore(sent[n], sent'[n])
    BY <1>1, <2>1, AppendIsOneMore
  <2> QED
    BY <2>1, <2>2, LinkFacts DEF Link!Send
<1> QED
  BY <1>2, <1>3

(* So is the processing of a received PDU at the end of an event.           *)
LEMMA ReceiveStep ==
  ASSUME IInv, NEW n \in Node, FinishEvent(n), connected[n], UNCHANGED <<connected, sent>>
  PROVE  Link!Receive(n) \/ rcvd' = rcvd
<1> DEFINE m == Peer(n)
<1>1. TypeOK /\ TransferFrom(m) /\ m \in Node /\ Peer(m) = n
  BY IInvFacts, NodeFacts
<1>2. /\ rcvd \in [Node -> Seq(Body)] /\ rxBody[n] \in Body
      /\ rcvd' = [rcvd EXCEPT ![n] = IF rxPending[n] THEN Plus(@, rxBody[n]) ELSE @]
  BY <1>1, FinishRcvd DEF TypeOK
<1>3. CASE rxPending[n] /\ rxBody[n] # EmptyBody
  <2>1. sent[m] = Append(rcvd[n], rxBody[n])
    BY <1>1, <1>3 DEF TransferFrom, Plus
  <2>2. /\ Len(rcvd[n]) < Len(sent[m])
        /\ sent[m][Len(rcvd[n]) + 1] = rxBody[n]
    BY <1>2, <2>1
  <2>3. rcvd' = [rcvd EXCEPT ![n] = Append(@, sent[m][Len(rcvd[n]) + 1])]
    BY <1>2, <1>3, <2>2 DEF Plus
  <2> QED
    BY <2>2, <2>3, LinkFacts DEF Link!Receive
<1>4. CASE ~(rxPending[n] /\ rxBody[n] # EmptyBody)
  BY <1>2, <1>4 DEF Plus
<1> QED
  BY <1>3, <1>4

(* An end that owes no acknowledgement has had everything processed.        *)
LEMMA FreeToSend ==
  ASSUME IInv, BothUp, NEW n \in Node, ~rxPending[Peer(n)], ~Outstanding(n)
  PROVE  sent[n] = rcvd[Peer(n)]
BY IInvFacts, NodeFacts DEF TransferFrom

LEMMA CentralStartSends ==
  ASSUME IInv, CentralStartEvent
  PROVE  Link!Send(Central) \/ UNCHANGED <<connected, sent, rcvd>>
<1>0. TypeOK /\ PendingInv
  BY IInvFacts
<1>1. /\ connected[Central] /\ UNCHANGED <<connected, rcvd>> /\ air = Silence
      /\ connected[Peripheral] => phase[Peripheral] = "WAIT_RX"
  BY DEF CentralStartEvent
<1>2. CASE txUnacked[Central]
  BY <1>1, <1>2 DEF CentralStartEvent
<1>3. CASE ~txUnacked[Central]
  <2> DEFINE pdu == LoadedPdu(Central, rxSn[Central], txSn[Central])
  <2>1. pdu \in Pdu /\ pdu.body \in Body
    <3>1. rxSn[Central] \in Bit /\ txSn[Central] \in Bit
      BY <1>0, NodeFacts DEF TypeOK
    <3>2. pdu \in Pdu
      BY <1>0, <3>1, LoadedType, NodeFacts
    <3> QED
      BY <3>2 DEF Pdu
  <2>2. StageNew(Central, pdu, PendingSource(Central))
    BY <1>3 DEF CentralStartEvent
  <2> HIDE DEF pdu
  <2>3. sent' = [sent EXCEPT ![Central] = Plus(@, pdu.body)]
    BY <1>0, <2>1, <2>2, StageSent, NodeFacts
  <2>4. connected[Peripheral] => sent[Central] = rcvd[Peripheral]
    <3>1. connected[Peripheral] => BothUp /\ ~rxPending[Peripheral] /\ ~Outstanding(Central)
      BY <1>0, <1>1, <1>3, NodeFacts DEF BothUp, PendingInv, Hears, Outstanding
    <3> QED
      BY <3>1, FreeToSend, NodeFacts
  <2>5. Link!Send(Central) \/ sent' = sent
    BY <1>0, <1>1, <2>1, <2>3, <2>4, SendStep, NodeFacts
  <2> QED
    BY <1>1, <2>5
<1> QED
  BY <1>2, <1>3

LEMMA PeripheralCrcOkSends ==
  ASSUME IInv, PeripheralCrcOk
  PROVE  Link!Send(Peripheral) \/ UNCHANGED <<connected, sent, rcvd>>
<1>0. /\ TypeOK /\ PendingInv /\ PrestageInv /\ AirInv
      /\ BothUp => Agrees(Central) /\ Agrees(Peripheral)
  BY IInvFacts
<1>1. /\ connected[Peripheral] /\ UNCHANGED <<connected, rcvd>>
      /\ Hears(Peripheral, "header") /\ air.ok /\ air.src = Central /\ air # Silence
      /\ air.at = "header"
  BY NodeFacts DEF PeripheralCrcOk, Hears
<1>2. bcmatch.txAcked = Acks(Peripheral, air.pdu)
  BY <1>0, <1>1 DEF PrestageInv
<1>3. CASE ~(bcmatch.txAcked \/ ~txUnacked[Peripheral])
  BY <1>1, <1>3 DEF PeripheralCrcOk
<1>4. CASE bcmatch.txAcked \/ ~txUnacked[Peripheral]
  <2> DEFINE pdu == connTx[Peripheral]
  <2>1. pdu \in Pdu /\ pdu.body \in Body
    BY <1>0, NodeFacts DEF TypeOK, Pdu
  <2>2. StageNew(Peripheral, pdu, source[Peripheral])
    BY <1>4 DEF PeripheralCrcOk
  <2> HIDE DEF pdu
  <2>3. sent' = [sent EXCEPT ![Peripheral] = Plus(@, pdu.body)]
    BY <1>0, <2>1, <2>2, StageSent, NodeFacts
  <2>4. connected[Central] => sent[Peripheral] = rcvd[Central]
    <3>1. SUFFICES ASSUME connected[Central] PROVE sent[Peripheral] = rcvd[Central]
      OBVIOUS
    <3>2. /\ BothUp /\ Agrees(Central) /\ Agrees(Peripheral) /\ ~rxPending[Central]
          /\ air.pdu = lastTx[Central] /\ txUnacked[Central]
      BY <1>0, <1>1, <3>1, NodeFacts DEF BothUp, PendingInv, Hears, AirInv
    <3>3. ~Outstanding(Peripheral)
      BY <1>2, <1>4, <3>2, NodeFacts DEF Outstanding, Acks, Agrees
    <3> QED
      BY <3>2, <3>3, FreeToSend, NodeFacts
  <2>5. Link!Send(Peripheral) \/ sent' = sent
    BY <1>0, <1>1, <2>1, <2>3, <2>4, SendStep, NodeFacts
  <2> QED
    BY <1>1, <2>5
<1> QED
  BY <1>3, <1>4

LEMMA PeripheralCrcErrorSends ==
  ASSUME PeripheralCrcError
  PROVE  UNCHANGED <<connected, sent, rcvd>>
BY DEF PeripheralCrcError, StageNew, EmptyPdu

LEMMA LinkStep == IInv /\ [Next]_vars => [Link!Next]_<<connected, sent, rcvd>>
<1> SUFFICES ASSUME IInv, [Next]_vars
             PROVE  Link!Next \/ UNCHANGED <<connected, sent, rcvd>>
  OBVIOUS
<1>0. TypeOK
  BY IInvFacts
<1>1. ASSUME NEW n \in Node, Disconnect(n) PROVE Link!Close(n)
  BY <1>1 DEF Disconnect, Link!Close, history
<1>2. CASE CentralRxDisabled
  <2>1. /\ FinishEvent(Central) /\ connected[Central] /\ UNCHANGED <<connected, sent>>
    BY <1>2 DEF CentralRxDisabled
  <2> QED
    BY <2>1, ReceiveStep, NodeFacts, LinkFacts DEF Link!Next
<1>3. CASE PeripheralTxDisabled
  <2>1. /\ FinishEvent(Peripheral) /\ connected[Peripheral] /\ UNCHANGED <<connected, sent>>
    BY <1>3 DEF PeripheralTxDisabled
  <2> QED
    BY <2>1, ReceiveStep, NodeFacts, LinkFacts DEF Link!Next
<1>4. CASE CentralStartEvent
  BY <1>4, CentralStartSends, NodeFacts, LinkFacts DEF Link!Next
<1>5. CASE PeripheralCrcOk
  BY <1>5, PeripheralCrcOkSends, NodeFacts, LinkFacts DEF Link!Next
<1>6. CASE PeripheralCrcError
  BY <1>6, PeripheralCrcErrorSends
<1>7. ASSUME NEW n \in Node, AppQueuesL2cap(n) PROVE UNCHANGED <<connected, sent, rcvd>>
  BY <1>7 DEF AppQueuesL2cap
<1>8. ASSUME NEW op \in Requests, AppStartsProcedure(op)
      PROVE  UNCHANGED <<connected, sent, rcvd>>
  BY <1>8 DEF AppStartsProcedure
<1>9. ASSUME NEW ok \in BOOLEAN, PeripheralBcmatch(ok)
      PROVE  UNCHANGED <<connected, sent, rcvd>>
  BY <1>9 DEF PeripheralBcmatch, history
<1>10. CASE CentralTxDisabled \/ CentralCrcOk \/ CentralCrcError \/ PeripheralStartEvent
              \/ PeripheralRxDisabled \/ Lose \/ UNCHANGED vars
  BY <1>10 DEF CentralTxDisabled, CentralCrcOk, CentralCrcError, PeripheralStartEvent,
               PeripheralRxDisabled, Lose, vars, history
<1> QED
  BY <1>1, <1>2, <1>3, <1>4, <1>5, <1>6, <1>7, <1>8, <1>9, <1>10, LinkFacts
     DEF Next, Link!Next

(* The radio, the sequence bits, the staged answers and the deferred        *)
(* processing together are a stop-and-wait link in each direction.          *)
THEOREM Implementation == Spec => ImplementsReliableLink
<1>1. Init => Link!Init
  BY LinkFacts DEF Init, Link!Init
<1> QED
  BY <1>1, InitIInv, NextIInv, LinkStep, PTL DEF Spec, ImplementsReliableLink, Link!Spec

----------------------------------------------------------------------------
(* Acknowledgements and the response slot.                                  *)

(* Only the processing of a PDU fills a response slot.                      *)
LEMMA FinishAnswers ==
  ASSUME TypeOK, NEW n \in Node, FinishEvent(n)
  PROVE  /\ ~rxPending'[n]
         /\ rspSlot'[n] # None => Answers(n)
         /\ \A k \in Node \ {n} :
              rxPending'[k] = rxPending[k] /\ rspSlot'[k] = rspSlot[k]
<1>1. rxPending' = [rxPending EXCEPT ![n] = FALSE]
  BY DEF FinishEvent
<1>2. \/ rspSlot' = rspSlot
      \/ rxPending[n] /\ \E reply : rspSlot' = [rspSlot EXCEPT ![n] = reply]
  <2>1. CASE rxPending[n]
    <3>1. ProcessReceivedConnPdu(n)
      BY <2>1 DEF FinishEvent
    <3>2. CASE LlControlProcess(n, rxBody[n].op)
      BY <2>1, <3>2 DEF LlControlProcess
    <3> QED
      BY <3>1, <3>2 DEF ProcessReceivedConnPdu, pendingTx
  <2>2. CASE ~rxPending[n]
    BY <2>2 DEF FinishEvent, pendingTx
  <2> QED
    BY <2>1, <2>2
<1>3. rxPending \in [Node -> BOOLEAN] /\ DOMAIN rspSlot = Node
  BY DEF TypeOK
<1> QED
  BY <1>1, <1>2, <1>3 DEF Answers

(* A step that moves no bit, accepts nothing and stages nothing.            *)
Calm ==
  /\ UNCHANGED <<connected, txSn, rxSn, txUnacked, lastTx>>
  /\ \A n \in Node : /\ rxPending'[n] => rxPending[n] /\ rspSlot'[n] = rspSlot[n]
                     /\ rspSlot'[n] # None => Answers(n)
  /\ Hears(Peripheral, "header")' =>
       /\ Hears(Peripheral, "header") /\ air'.ok = air.ok /\ bcmatch' = bcmatch
       /\ source'[Peripheral] = source[Peripheral]
       /\ rspSlot'[Peripheral] = rspSlot[Peripheral]

LEMMA CalmKeeps ==
  ASSUME IInv, Calm
  PROVE  /\ NesnInv => NesnInv'
         /\ SlotInv => SlotInv'
<1>1. TransferFrom(Central) /\ PendingInv
  BY IInvFacts
<1>2. ASSUME NesnInv PROVE NesnInv'
  BY <1>2 DEF Calm, NesnInv, BothUp, Outstanding
<1>3. ASSUME SlotInv PROVE SlotInv'
  <2>1. \A n \in Node : rxPending'[n] => rspSlot'[n] = None
    BY <1>3 DEF SlotInv, Calm
  <2>2. HeardInv'
    BY <1>3 DEF SlotInv, HeardInv, Calm, BothUp
  <2>3. \A n \in Node : Answers(n)' => Answers(n)
    BY DEF Answers, Calm
  <2>4. CentralSlotInv'
    BY <1>3, <2>3, NodeFacts DEF SlotInv, CentralSlotInv, Calm, BothUp
  <2>5. BothUp /\ rxPending[Peripheral] => ~Outstanding(Central)
    BY <1>1, NodeFacts DEF TransferFrom
  <2>6. PeripheralSlotInv'
    BY <1>3, <2>3, <2>5, NodeFacts
       DEF SlotInv, PeripheralSlotInv, Calm, BothUp, Outstanding, Answers
  <2> QED
    BY <2>1, <2>2, <2>4, <2>6 DEF SlotInv
<1> QED
  BY <1>2, <1>3

LEMMA CalmSteps ==
  ASSUME IInv,
         \/ \E n \in Node : AppQueuesL2cap(n)
         \/ \E op \in Requests : AppStartsProcedure(op)
         \/ CentralStartEvent /\ txUnacked[Central]
         \/ CentralTxDisabled \/ CentralCrcError \/ CentralRxDisabled
         \/ PeripheralStartEvent \/ PeripheralRxDisabled \/ PeripheralTxDisabled
         \/ PeripheralCrcError /\ txUnacked[Peripheral]
         \/ Lose \/ UNCHANGED vars
  PROVE  Calm
<1>0. TypeOK
  BY IInvFacts
<1>a. \A n \in Node : rxPending[n] \in BOOLEAN
  BY <1>0 DEF TypeOK
<1> USE DEF Calm, Hears, sequencing, staging, pendingTx, receiving, history
<1>1. ASSUME NEW n \in Node, AppQueuesL2cap(n) PROVE Calm
  BY <1>1 DEF AppQueuesL2cap, Answers
<1>2. ASSUME NEW op \in Requests, AppStartsProcedure(op) PROVE Calm
  BY <1>2 DEF AppStartsProcedure, Answers
<1>3. CASE CentralStartEvent /\ txUnacked[Central]
  <2>1. rxPending' = [rxPending EXCEPT ![Central] = FALSE]
    BY <1>3 DEF CentralStartEvent, ClearReception
  <2>2. /\ UNCHANGED <<connected, txSn, rxSn, txUnacked, lastTx, rspSlot>>
        /\ air' = [src |-> Central, pdu |-> lastTx'[Central], at |-> "start", ok |-> TRUE]
    BY <1>3 DEF CentralStartEvent
  <2>3. ~Hears(Peripheral, "header")'
    BY <2>2
  <2>4. \A n \in Node : rxPending'[n] => rxPending[n]
    BY <1>0, <2>1 DEF TypeOK
  <2> QED
    BY <2>2, <2>3, <2>4 DEF Answers
<1>4. CASE CentralTxDisabled
  BY <1>4 DEF CentralTxDisabled, Answers
<1>5. CASE CentralCrcError
  <2>1. rxPending' = [rxPending EXCEPT ![Central] = FALSE]
    BY <1>5 DEF CentralCrcError
  <2>2. /\ UNCHANGED <<connected, txSn, rxSn, txUnacked, lastTx, rspSlot>>
        /\ air'.at = "done"
    <3>1. air \in AirPdu
      BY <1>0, <1>5, HearsType, NodeFacts DEF CentralCrcError
    <3> QED
      BY <1>5, <3>1 DEF CentralCrcError, AirPdu
  <2>3. \A n \in Node : rxPending'[n] => rxPending[n]
    BY <1>0, <2>1 DEF TypeOK
  <2> QED
    BY <2>2, <2>3 DEF Answers
<1>6. CASE CentralRxDisabled
  <2>1. /\ FinishEvent(Central) /\ air' = Silence
        /\ UNCHANGED <<connected, txSn, rxSn, txUnacked, lastTx>>
    BY <1>6 DEF CentralRxDisabled
  <2> QED
    BY <1>0, <2>1, FinishAnswers, NodeFacts DEF Answers
<1>7. CASE PeripheralStartEvent
  <2>1. rxPending' = [rxPending EXCEPT ![Peripheral] = FALSE]
    BY <1>7 DEF PeripheralStartEvent, ClearReception
  <2>2. /\ UNCHANGED <<connected, txSn, rxSn, txUnacked, lastTx, rspSlot>>
        /\ air' = Silence
    BY <1>7 DEF PeripheralStartEvent
  <2>3. \A n \in Node : rxPending'[n] => rxPending[n]
    BY <1>0, <2>1 DEF TypeOK
  <2> QED
    BY <2>2, <2>3, NodeFacts DEF Answers
<1>8. CASE PeripheralRxDisabled
  BY <1>8, NodeFacts DEF PeripheralRxDisabled, Answers
<1>9. CASE PeripheralTxDisabled
  <2>1. /\ FinishEvent(Peripheral) /\ air' = air
        /\ UNCHANGED <<connected, txSn, rxSn, txUnacked, lastTx>>
        /\ phase[Peripheral] = "WAIT_TX"
    BY <1>9 DEF PeripheralTxDisabled
  <2>2. ~Hears(Peripheral, "header")
    BY <2>1, IInvFacts DEF SelectionInv
  <2> QED
    BY <1>0, <2>1, <2>2, FinishAnswers, NodeFacts DEF Answers
<1>10. CASE PeripheralCrcError /\ txUnacked[Peripheral]
  <2>1. rxPending' = [rxPending EXCEPT ![Peripheral] = FALSE]
    BY <1>10 DEF PeripheralCrcError
  <2>2. /\ UNCHANGED <<connected, txSn, rxSn, txUnacked, lastTx, rspSlot>>
        /\ air'.at = "done"
    <3>1. air \in AirPdu
      BY <1>0, <1>10, HearsType, NodeFacts DEF PeripheralCrcError
    <3> QED
      BY <1>10, <3>1 DEF PeripheralCrcError, AirPdu
  <2>3. \A n \in Node : rxPending'[n] => rxPending[n]
    BY <1>0, <2>1 DEF TypeOK
  <2> QED
    BY <2>2, <2>3 DEF Answers
<1>11. CASE Lose
  BY <1>11, NodeFacts DEF Lose, Answers
<1>12. CASE UNCHANGED vars
  BY <1>12 DEF vars, Answers
<1> QED
  BY <1>1, <1>2, <1>3, <1>4, <1>5, <1>6, <1>7, <1>8, <1>9, <1>10, <1>11, <1>12

(* TIMER0 at the central: a new PDU takes the response along.               *)
LEMMA CentralStartsNew ==
  ASSUME IInv, CentralStartEvent, ~txUnacked[Central]
  PROVE  /\ NesnInv /\ HeardInv => NesnInv'
         /\ SlotInv => SlotInv'
<1>0. TypeOK /\ (BothUp => Agrees(Central)) /\ PendingInv
  BY IInvFacts
<1> DEFINE pdu == LoadedPdu(Central, rxSn[Central], txSn[Central])
<1>1. /\ pdu \in Pdu /\ pdu.nesn = rxSn[Central]
      /\ \A n \in Node : rxSn[n] \in Bit /\ txSn[n] \in Bit
  <2>1. rxSn[Central] \in Bit /\ txSn[Central] \in Bit
    BY <1>0, NodeFacts DEF TypeOK
  <2> QED
    BY <1>0, <2>1, LoadedType, NodeFacts DEF TypeOK
<1>2. StageNew(Central, pdu, PendingSource(Central))
  BY DEF CentralStartEvent
<1> HIDE DEF pdu
<1>3. /\ lastTx' = [lastTx EXCEPT ![Central] = pdu]
      /\ txUnacked' = [txUnacked EXCEPT ![Central] = TRUE]
      /\ rspSlot' = IF PendingSource(Central) = "RSP"
                    THEN [rspSlot EXCEPT ![Central] = None] ELSE rspSlot
  BY <1>2 DEF StageNew, ConsumeSource
<1>4. rspSlot[Central] # None => PendingSource(Central) = "RSP"
  BY DEF PendingSource
<1>5. /\ lastTx'[Central].nesn = rxSn[Central]
      /\ lastTx'[Peripheral] = lastTx[Peripheral]
      /\ txUnacked'[Central] /\ txUnacked'[Peripheral] = txUnacked[Peripheral]
      /\ rspSlot'[Central] = None /\ rspSlot'[Peripheral] = rspSlot[Peripheral]
  BY <1>0, <1>1, <1>3, <1>4, NodeFacts DEF TypeOK
<1>6. /\ UNCHANGED <<connected, txSn, rxSn>> /\ air = Silence
      /\ rxPending' = [rxPending EXCEPT ![Central] = FALSE]
      /\ air' = [src |-> Central, pdu |-> lastTx'[Central], at |-> "start", ok |-> TRUE]
      /\ connected[Peripheral] => phase[Peripheral] = "WAIT_RX"
  BY DEF CentralStartEvent, ClearReception
<1>7. /\ ~rxPending'[Central] /\ rxPending'[Peripheral] = rxPending[Peripheral]
      /\ ~Hears(Peripheral, "header")'
      /\ connected[Peripheral] => ~rxPending[Peripheral]
  BY <1>0, <1>6, NodeFacts DEF TypeOK, Hears, PendingInv
<1>8. ASSUME NesnInv, HeardInv PROVE NesnInv'
  BY <1>5, <1>6, <1>7, <1>8, NodeFacts DEF NesnInv, HeardInv, BothUp, Outstanding
<1>9. ASSUME SlotInv PROVE SlotInv'
  <2>1. HeardInv' /\ CentralSlotInv'
    BY <1>5, <1>6, <1>7 DEF HeardInv, CentralSlotInv, Answers
  <2>2. PeripheralSlotInv'
    BY <1>5, <1>6, <1>7, <1>9
       DEF SlotInv, HeardInv, PeripheralSlotInv, Answers, BothUp
  <2>3. \A n \in Node : rxPending'[n] => rspSlot'[n] = None
    BY <1>5, <1>7, <1>9, NodeFacts DEF SlotInv
  <2> QED
    BY <2>1, <2>2, <2>3 DEF SlotInv
<1> QED
  BY <1>8, <1>9

(* CRCOK at the central: what it accepts finds its slot empty.              *)
LEMMA CentralCrcOkSlots ==
  ASSUME IInv, CentralCrcOk
  PROVE  /\ NesnInv => NesnInv'
         /\ SlotInv => SlotInv'
<1> DEFINE acked == Acks(Central, air.pdu)
           isNew == IsNewTo(Central, air.pdu)
<1>0. /\ TypeOK /\ AirInv /\ PendingInv
      /\ BothUp => Agrees(Central) /\ Agrees(Peripheral)
  BY IInvFacts
<1>1. /\ connected[Central] /\ air.src = Peripheral /\ air.at = "start"
      /\ air # Silence /\ air'.at = "done"
      /\ UNCHANGED <<connected, lastTx, rspSlot, bcmatch>>
  <2>1. air \in AirPdu
    BY <1>0, NodeFacts, HearsType DEF CentralCrcOk
  <2> QED
    BY <2>1, NodeFacts DEF CentralCrcOk, Hears, AirPdu, pendingTx
<1>2. /\ txUnacked'[Central] = (IF acked THEN FALSE ELSE txUnacked[Central])
      /\ txUnacked'[Peripheral] = txUnacked[Peripheral]
      /\ txSn'[Central] = (IF acked THEN Flip(txSn[Central]) ELSE txSn[Central])
      /\ txSn'[Peripheral] = txSn[Peripheral]
      /\ rxSn'[Central] = (IF isNew THEN Flip(rxSn[Central]) ELSE rxSn[Central])
      /\ rxSn'[Peripheral] = rxSn[Peripheral]
      /\ rxPending'[Central] = isNew /\ rxPending'[Peripheral] = rxPending[Peripheral]
  <2>1. /\ txUnacked'[Central] = (IF acked THEN FALSE ELSE txUnacked[Central])
        /\ txUnacked'[Peripheral] = txUnacked[Peripheral]
    BY <1>0, NodeFacts DEF CentralCrcOk, TypeOK
  <2>2. /\ txSn'[Central] = (IF acked THEN Flip(txSn[Central]) ELSE txSn[Central])
        /\ txSn'[Peripheral] = txSn[Peripheral]
    BY <1>0, NodeFacts DEF CentralCrcOk, TypeOK
  <2>3. /\ rxSn'[Central] = (IF isNew THEN Flip(rxSn[Central]) ELSE rxSn[Central])
        /\ rxSn'[Peripheral] = rxSn[Peripheral]
    BY <1>0, NodeFacts DEF CentralCrcOk, TypeOK
  <2>4. rxPending'[Central] = isNew /\ rxPending'[Peripheral] = rxPending[Peripheral]
    BY <1>0, NodeFacts DEF CentralCrcOk, TypeOK
  <2> QED
    BY <2>1, <2>2, <2>3, <2>4
<1>3. /\ BothUp /\ Agrees(Central) /\ Agrees(Peripheral)
      /\ air.pdu = lastTx[Peripheral] /\ txUnacked[Peripheral]
      /\ air.pdu.sn = txSn[Peripheral]
  BY <1>0, <1>1, NodeFacts DEF AirInv, BothUp, Agrees
<1>4. \A n \in Node : rxSn[n] \in Bit /\ txSn[n] \in Bit
  BY <1>0 DEF TypeOK
<1>5. /\ isNew <=> rxSn[Central] = txSn[Peripheral]
      /\ rxSn'[Central] # txSn[Peripheral]
      /\ isNew /\ txUnacked[Central] => lastTx[Central].nesn = txSn[Peripheral]
      /\ txUnacked'[Central] => txUnacked[Central] /\ txSn'[Central] = txSn[Central]
  BY <1>2, <1>3, <1>4, NodeFacts, BitFacts DEF IsNewTo, Agrees
<1>6. BothUp' /\ ~Hears(Peripheral, "header")'
  BY <1>1, <1>3 DEF BothUp, Hears
<1> HIDE DEF acked, isNew
<1>7. ASSUME NesnInv PROVE NesnInv'
  BY <1>1, <1>2, <1>3, <1>5, <1>6, <1>7, NodeFacts DEF NesnInv, Outstanding
<1>8. ASSUME SlotInv PROVE SlotInv'
  <2>1. HeardInv'
    BY <1>2, <1>5 DEF HeardInv
  <2>2. isNew => rspSlot[Central] = None
    BY <1>3, <1>5, <1>8 DEF SlotInv, CentralSlotInv, Answers
  <2>3. \A n \in Node : rxPending'[n] => rspSlot'[n] = None
    BY <1>1, <1>2, <1>8, <2>2, NodeFacts DEF SlotInv
  <2>4. CentralSlotInv'
    BY <1>1, <1>2, <1>3, <1>5, <1>8, <2>2 DEF SlotInv, CentralSlotInv, Answers
  <2>5. PeripheralSlotInv'
    BY <1>1, <1>2, <1>3, <1>5, <1>6, <1>8, NodeFacts
       DEF SlotInv, PeripheralSlotInv, Answers, Outstanding
  <2> QED
    BY <2>1, <2>3, <2>4, <2>5 DEF SlotInv
<1> QED
  BY <1>7, <1>8

(* BCMATCH: the response is what the peripheral answers with, if it answers *)
(* anew, and then it does if the PDU is new.                                *)
LEMMA BcmatchSlots ==
  ASSUME IInv, NEW ok \in BOOLEAN, PeripheralBcmatch(ok)
  PROVE  /\ "crcOpening" \notin Faults /\ NesnInv => NesnInv'
         /\ SlotInv => SlotInv'
<1>0. /\ TypeOK /\ AirInv /\ (BothUp => Agrees(Central))
  BY IInvFacts
<1>1. /\ connected[Peripheral] /\ air.src = Central /\ air.at = "start" /\ air # Silence
      /\ air'.ok = ok
      /\ UNCHANGED <<connected, txSn, rxSn, txUnacked, lastTx, rspSlot, rxPending>>
  <2>1. air \in AirPdu
    BY <1>0, NodeFacts, HearsType DEF PeripheralBcmatch
  <2> QED
    BY <2>1, NodeFacts
       DEF PeripheralBcmatch, Hears, AirPdu, sequencing, pendingTx, receiving
<1>2. /\ BothUp /\ air.pdu = lastTx[Central] /\ txUnacked[Central]
      /\ lastTx[Central].sn = txSn[Central]
  BY <1>0, <1>1, NodeFacts DEF AirInv, BothUp, Agrees
<1>3. \E header : /\ ok => header = air.pdu
                  /\ PrestageFromHeader(header)
  BY DEF PeripheralBcmatch
<1>4. PICK header : (ok => header = air.pdu) /\ PrestageFromHeader(header)
  BY <1>3
<1>5. /\ bcmatch'.txAcked = Acks(Peripheral, header)
      /\ bcmatch'.isNew = IsNewTo(Peripheral, header)
      /\ bcmatch'.txAcked =>
           source' = [source EXCEPT ![Peripheral] = PendingSource(Peripheral)]
  BY <1>4 DEF PrestageFromHeader
<1>6. rspSlot[Peripheral] # None => PendingSource(Peripheral) = "RSP"
  BY DEF PendingSource
<1>7. bcmatch'.txAcked /\ rspSlot[Peripheral] # None => source'[Peripheral] = "RSP"
  BY <1>0, <1>5, <1>6, NodeFacts DEF TypeOK
<1>8. ok => /\ bcmatch'.isNew => Outstanding(Central)
            /\ /\ txUnacked[Peripheral] /\ lastTx[Central].nesn # txSn[Peripheral]
               => bcmatch'.txAcked
  BY <1>2, <1>4, <1>5, NodeFacts DEF IsNewTo, Acks, Outstanding
<1>9. ASSUME "crcOpening" \notin Faults, NesnInv PROVE NesnInv'
  <2>1. ~ok => txUnacked[Peripheral]
    BY <1>9 DEF PeripheralBcmatch, CrcMayFailAtPeripheral
  <2> QED
    BY <1>1, <1>2, <1>8, <1>9, <2>1, NodeFacts DEF NesnInv, BothUp, Outstanding
<1>10. ASSUME SlotInv PROVE SlotInv'
  <2>1. HeardInv' /\ CentralSlotInv'
    BY <1>1, <1>10 DEF SlotInv, HeardInv, CentralSlotInv, Answers, BothUp
  <2>2. PeripheralSlotInv'
    BY <1>1, <1>2, <1>7, <1>8, <1>10, NodeFacts
       DEF SlotInv, PeripheralSlotInv, Answers, BothUp, Outstanding
  <2>3. \A n \in Node : rxPending'[n] => rspSlot'[n] = None
    BY <1>1, <1>10 DEF SlotInv
  <2> QED
    BY <2>1, <2>2, <2>3 DEF SlotInv
<1> QED
  BY <1>9, <1>10

(* CRCOK at the peripheral: what it accepts finds its slot empty, or empties *)
(* it; and whatever it then sends acknowledges what it has accepted.        *)
LEMMA PeripheralCrcOkSlots ==
  ASSUME IInv, PeripheralCrcOk
  PROVE  /\ NesnInv => NesnInv'
         /\ SlotInv => SlotInv'
<1> DEFINE acked == bcmatch.txAcked
           isNew == bcmatch.isNew
           stage == acked \/ ~txUnacked[Peripheral]
           pdu == connTx[Peripheral]
<1>0. /\ TypeOK /\ AirInv /\ PendingInv /\ PrestageInv
      /\ BothUp => Agrees(Central) /\ Agrees(Peripheral)
  BY IInvFacts
<1>1. air \in AirPdu
  BY <1>0, NodeFacts, HearsType DEF PeripheralCrcOk
<1>2. /\ connected[Peripheral] /\ air.src = Central /\ air.at = "header"
      /\ air.ok /\ air # Silence /\ Hears(Peripheral, "header")
      /\ air'.at = "done" /\ connected' = connected
  BY <1>1, NodeFacts DEF PeripheralCrcOk, Hears, AirPdu
<1>3. /\ acked = Acks(Peripheral, air.pdu) /\ isNew = IsNewTo(Peripheral, air.pdu)
      /\ stage => pdu.nesn = AnswerNesn(Peripheral, air.pdu)
      /\ acked \in BOOLEAN /\ isNew \in BOOLEAN
  BY <1>0, <1>2 DEF PrestageInv, TypeOK
<1>4. /\ txSn'[Peripheral] = (IF acked THEN Flip(txSn[Peripheral]) ELSE txSn[Peripheral])
      /\ rxSn'[Peripheral] = (IF isNew THEN Flip(rxSn[Peripheral]) ELSE rxSn[Peripheral])
      /\ txSn'[Central] = txSn[Central] /\ rxSn'[Central] = rxSn[Central]
      /\ rxPending'[Peripheral] = isNew /\ rxPending'[Central] = rxPending[Central]
  BY <1>0, NodeFacts DEF PeripheralCrcOk, TypeOK
<1>5. /\ stage => /\ lastTx'[Peripheral] = pdu
                  /\ rspSlot'[Peripheral] =
                       IF source[Peripheral] = "RSP" THEN None ELSE rspSlot[Peripheral]
      /\ ~stage => /\ lastTx'[Peripheral] = lastTx[Peripheral]
                   /\ rspSlot'[Peripheral] = rspSlot[Peripheral]
      /\ txUnacked'[Peripheral]
      /\ lastTx'[Central] = lastTx[Central] /\ txUnacked'[Central] = txUnacked[Central]
      /\ rspSlot'[Central] = rspSlot[Central]
  <2>0. /\ lastTx \in [Node -> Pdu] /\ txUnacked \in [Node -> BOOLEAN]
        /\ DOMAIN rspSlot = Node
    BY <1>0 DEF TypeOK
  <2>1. CASE stage
    <3>1. StageNew(Peripheral, pdu, source[Peripheral])
      BY <2>1 DEF PeripheralCrcOk
    <3> HIDE DEF pdu
    <3>2. /\ lastTx' = [lastTx EXCEPT ![Peripheral] = pdu]
          /\ txUnacked' = [txUnacked EXCEPT ![Peripheral] = TRUE]
          /\ rspSlot' = IF source[Peripheral] = "RSP"
                        THEN [rspSlot EXCEPT ![Peripheral] = None] ELSE rspSlot
      BY <3>1 DEF StageNew, ConsumeSource
    <3> QED
      BY <2>0, <2>1, <3>2, NodeFacts
  <2>2. CASE ~stage
    BY <2>2 DEF PeripheralCrcOk, pendingTx
  <2> QED
    BY <2>1, <2>2
<1>6. \A n \in Node : rxSn[n] \in Bit /\ txSn[n] \in Bit
  BY <1>0 DEF TypeOK
<1>7. stage => pdu.nesn = rxSn'[Peripheral]
  BY <1>3, <1>4 DEF AnswerNesn
<1>8. BothUp => /\ air.pdu = lastTx[Central] /\ txUnacked[Central]
                /\ isNew <=> rxSn[Peripheral] = txSn[Central]
  <2>1. BothUp => /\ air.pdu = lastTx[Central] /\ txUnacked[Central]
                  /\ air.pdu.sn = txSn[Central]
    BY <1>0, <1>2, NodeFacts DEF AirInv, BothUp, Agrees
  <2>2. isNew <=> air.pdu.sn = rxSn[Peripheral]
    BY <1>3, Zenon DEF IsNewTo
  <2> QED
    BY <2>1, <2>2
<1>9. BothUp => ~Outstanding(Central)'
  BY <1>4, <1>6, <1>8, NodeFacts, BitFacts DEF Outstanding
<1>10. (BothUp' <=> BothUp) /\ ~Hears(Peripheral, "header")' /\ ~rxPending[Central]
  BY <1>0, <1>2, NodeFacts DEF BothUp, Hears, PendingInv
<1> HIDE DEF acked, isNew, pdu
<1>11. ASSUME NesnInv PROVE NesnInv'
  <2>1. ~stage => ~isNew
    BY <1>2, <1>11 DEF NesnInv, acked, isNew
  <2>2. lastTx'[Peripheral].nesn = rxSn'[Peripheral]
    BY <1>2, <1>4, <1>5, <1>7, <1>11, <2>1 DEF NesnInv
  <2> QED
    BY <1>9, <1>10, <2>2 DEF NesnInv
<1>12. ASSUME SlotInv PROVE SlotInv'
  <2>1. isNew /\ rspSlot[Peripheral] # None => acked /\ source[Peripheral] = "RSP"
    BY <1>2, <1>12 DEF SlotInv, PeripheralSlotInv, acked, isNew
  <2>2. isNew => rspSlot'[Peripheral] = None
    BY <1>5, <2>1
  <2>3. \A n \in Node : rxPending'[n] => rspSlot'[n] = None
    BY <1>4, <1>10, <2>2, NodeFacts
  <2>4. HeardInv'
    BY <1>5, <1>8, <1>10 DEF HeardInv
  <2>5. CentralSlotInv'
    <3>1. SUFFICES ASSUME BothUp, Answers(Central)
                   PROVE  /\ rxSn'[Central] # txSn'[Peripheral]
                          /\ lastTx'[Central].nesn = txSn'[Peripheral]
      BY <1>4, <1>5, <1>10 DEF CentralSlotInv, Answers
    <3>2. /\ rxSn[Central] # txSn[Peripheral]
          /\ lastTx[Central].nesn = txSn[Peripheral]
      BY <1>8, <1>12, <3>1 DEF SlotInv, CentralSlotInv
    <3>3. ~acked
      BY <1>3, <1>8, <3>1, <3>2 DEF Acks
    <3> QED
      BY <1>4, <1>5, <3>2, <3>3
  <2>6. PeripheralSlotInv'
    BY <1>5, <1>9, <1>10 DEF PeripheralSlotInv
  <2> QED
    BY <2>3, <2>4, <2>5, <2>6 DEF SlotInv
<1> QED
  BY <1>11, <1>12

(* A CRC error before the peripheral's first answer: nothing is owed yet.   *)
LEMMA OpeningSlots ==
  ASSUME IInv, PeripheralCrcError, ~txUnacked[Peripheral]
  PROVE  ~NesnInv /\ (SlotInv => SlotInv')
<1> DEFINE pdu == EmptyPdu(rxSn[Peripheral], txSn[Peripheral])
<1>0. TypeOK /\ AirInv
  BY IInvFacts
<1>1. air \in AirPdu
  BY <1>0, NodeFacts, HearsType DEF PeripheralCrcError
<1>2. /\ connected[Peripheral] /\ Hears(Peripheral, "header") /\ ~air.ok
      /\ air.src = Central /\ air.at = "header" /\ air # Silence /\ air'.at = "done"
      /\ UNCHANGED <<connected, txSn, rxSn>>
      /\ rxPending' = [rxPending EXCEPT ![Peripheral] = FALSE]
  BY <1>1, NodeFacts DEF PeripheralCrcError, Hears, AirPdu
<1>3. StageNew(Peripheral, pdu, "NONE")
  BY DEF PeripheralCrcError
<1> HIDE DEF pdu
<1>4. /\ lastTx' = [lastTx EXCEPT ![Peripheral] = pdu]
      /\ txUnacked' = [txUnacked EXCEPT ![Peripheral] = TRUE]
      /\ rspSlot' = rspSlot
  BY <1>3 DEF StageNew, ConsumeSource
<1>5. /\ lastTx'[Central] = lastTx[Central] /\ txUnacked'[Central] = txUnacked[Central]
      /\ txUnacked'[Peripheral]
      /\ ~rxPending'[Peripheral] /\ rxPending'[Central] = rxPending[Central]
  BY <1>0, <1>2, <1>4, NodeFacts DEF TypeOK
<1>6. BothUp => txUnacked[Central]
  BY <1>0, <1>2, NodeFacts DEF BothUp, AirInv
<1>7. ~NesnInv
  BY <1>2 DEF NesnInv
<1>8. ASSUME SlotInv PROVE SlotInv'
  <2>1. rspSlot[Peripheral] = None /\ (BothUp => ~Answers(Central))
    BY <1>2, <1>8 DEF SlotInv, PeripheralSlotInv, CentralSlotInv, Answers
  <2>2. HeardInv' /\ CentralSlotInv'
    BY <1>2, <1>4, <1>5, <1>6, <2>1 DEF HeardInv, CentralSlotInv, Answers, BothUp
  <2>3. PeripheralSlotInv'
    BY <1>4, <1>5, <2>1 DEF PeripheralSlotInv
  <2>4. \A n \in Node : rxPending'[n] => rspSlot'[n] = None
    BY <1>4, <1>5, <1>8, NodeFacts DEF SlotInv
  <2> QED
    BY <2>2, <2>3, <2>4 DEF SlotInv
<1> QED
  BY <1>7, <1>8

LEMMA DisconnectSlots ==
  ASSUME IInv, NEW n \in Node, Disconnect(n)
  PROVE  /\ NesnInv => NesnInv'
         /\ SlotInv => SlotInv'
<1>0. TypeOK
  BY IInvFacts
<1>1. /\ ~connected'[n] /\ ~rxPending'[n] /\ rspSlot'[n] = None
      /\ \A k \in Node \ {n} :
           /\ connected'[k] = connected[k] /\ txUnacked'[k] = txUnacked[k]
           /\ rxPending'[k] = rxPending[k] /\ rspSlot'[k] = rspSlot[k]
           /\ source'[k] = source[k]
      /\ UNCHANGED <<txSn, rxSn, lastTx, bcmatch>>
      /\ air' = IF air # Silence /\ (air.src = n <=> air.at = "start") THEN Silence ELSE air
  BY <1>0 DEF Disconnect, TypeOK
<1>2. ~BothUp'
  BY <1>1, NodeFacts DEF BothUp
<1>3. Hears(Peripheral, "header")' =>
        n = Central /\ Hears(Peripheral, "header") /\ air' = air
  BY <1>1, NodeFacts DEF Hears
<1>4. ASSUME NesnInv PROVE NesnInv'
  BY <1>1, <1>2, <1>3, <1>4, NodeFacts DEF NesnInv
<1>5. ASSUME SlotInv PROVE SlotInv'
  <2>1. HeardInv' /\ CentralSlotInv'
    BY <1>2 DEF HeardInv, CentralSlotInv
  <2>2. PeripheralSlotInv'
    BY <1>1, <1>2, <1>3, <1>5, NodeFacts DEF SlotInv, PeripheralSlotInv, Answers
  <2>3. \A k \in Node : rxPending'[k] => rspSlot'[k] = None
    BY <1>1, <1>5 DEF SlotInv
  <2> QED
    BY <2>1, <2>2, <2>3 DEF SlotInv
<1> QED
  BY <1>4, <1>5

LEMMA NextSlots ==
  ASSUME IInv, [Next]_vars
  PROVE  /\ "crcOpening" \notin Faults /\ NesnInv /\ HeardInv => NesnInv'
         /\ SlotInv => SlotInv'
BY CalmSteps, CalmKeeps, CentralStartsNew, CentralCrcOkSlots, BcmatchSlots,
   PeripheralCrcOkSlots, OpeningSlots, DisconnectSlots DEF Next

LEMMA InitSlots == Init => NesnInv /\ SlotInv
BY NodeFacts DEF Init, NesnInv, SlotInv, HeardInv, CentralSlotInv,
   PeripheralSlotInv, Answers, Hears

(* A PDU that is accepted and needs an answer finds the response slot free,  *)
(* whatever is lost or corrupted, the opening included: the answer before it *)
(* has gone out, since the acceptance of a PDU is the end of the one before. *)
THEOREM SlotIsFree == Spec => []ResponseSlotFree
<1>1. SlotInv => ResponseSlotFree
  BY DEF SlotInv, ResponseSlotFree
<1> QED
  BY <1>1, InitIInv, NextIInv, InitSlots, NextSlots, PTL DEF Spec

(* A link whose first packet, once heard, is heard intact: what the          *)
(* peripheral puts on the air acknowledges all it has accepted, so that the  *)
(* acknowledgements cannot lock each other out.                             *)
THEOREM AnswersAreCurrent ==
  ASSUME "crcOpening" \notin Faults
  PROVE  Spec => []AnswerCarriesCurrentNesn
<1>1. IInv /\ NesnInv => AnswerCarriesCurrentNesn
  BY IInvFacts DEF NesnInv, AnswerCarriesCurrentNesn, AirInv
<1>2. SlotInv => HeardInv
  BY DEF SlotInv
<1>3. IInv /\ NesnInv /\ SlotInv /\ [Next]_vars => NesnInv' /\ SlotInv'
  BY <1>2, NextSlots
<1> QED
  BY <1>1, <1>3, InitIInv, NextIInv, InitSlots, PTL DEF Spec

----------------------------------------------------------------------------
(* The order of the L2CAP payloads.                                         *)

LEMMA L2capBodies ==
  ASSUME NEW k \in Nat
  PROVE  /\ L2cap(k) \in Body /\ IsL2cap(L2cap(k)) /\ L2cap(k).id = k
         /\ L2cap(k) # EmptyBody
         /\ \A b \in Body : IsL2cap(b) => b.id \in Nat
BY DEF L2cap, Body, CtrlBody, L2capBody, EmptyBody, IsL2cap

(* Every payload up to k is in s.                                           *)
HasUpTo(s, k) == \A x \in 1..k : \E i \in 1..Len(s) : s[i] = L2cap(x)

LEMMA NextPayload ==
  ASSUME NEW s \in Seq(Body), NEW k \in Nat,
         InSubmissionOrder(s), UpTo(s, k), HasUpTo(s, k)
  PROVE  LET t == Append(s, L2cap(k + 1))
         IN  InSubmissionOrder(t) /\ UpTo(t, k + 1) /\ HasUpTo(t, k + 1)
<1> DEFINE b == L2cap(k + 1)
           t == Append(s, b)
<1>1. k + 1 \in Nat
  OBVIOUS
<1>2. b \in Body /\ IsL2cap(b) /\ b.id = k + 1
  BY <1>1, L2capBodies
<1>a. \A c \in Body : IsL2cap(c) => c.id \in Nat
  BY L2capBodies
<1> HIDE DEF b
<1>3. /\ t \in Seq(Body) /\ Len(t) = Len(s) + 1 /\ Len(s) \in Nat
      /\ t[Len(s) + 1] = b
      /\ \A i \in 1..Len(s) : t[i] = s[i] /\ s[i] \in Body
  BY <1>2
<1> HIDE DEF t
<1>4. UpTo(t, k + 1)
  <2>1. ASSUME NEW i \in 1..Len(t), IsL2cap(t[i]) PROVE t[i].id <= k + 1
    <3>1. CASE i = Len(s) + 1
      BY <1>2, <1>3, <3>1
    <3>2. CASE i \in 1..Len(s)
      <4>1. s[i].id \in Nat /\ s[i].id <= k
        BY <1>a, <1>3, <2>1, <3>2 DEF UpTo
      <4> QED
        BY <1>3, <3>2, <4>1
    <3> QED
      BY <1>3, <3>1, <3>2
  <2> QED
    BY <2>1 DEF UpTo
<1>5. HasUpTo(t, k + 1)
  <2>1. ASSUME NEW x \in 1..(k + 1) PROVE \E i \in 1..Len(t) : t[i] = L2cap(x)
    <3>1. CASE x = k + 1
      BY <1>3, <3>1 DEF b
    <3>2. CASE x \in 1..k
      <4>1. PICK i \in 1..Len(s) : s[i] = L2cap(x)
        BY <3>2 DEF HasUpTo
      <4> QED
        BY <1>3, <4>1
    <3> QED
      BY <3>1, <3>2
  <2> QED
    BY <2>1 DEF HasUpTo
<1>6. InSubmissionOrder(t)
  <2>1. ASSUME NEW i \in 1..Len(t), IsL2cap(t[i])
        PROVE  /\ t[i].id > 0
               /\ \A j \in 1..(i - 1) : IsL2cap(t[j]) => t[j].id < t[i].id
               /\ \A x \in 1..(t[i].id - 1) : \E j \in 1..(i - 1) : t[j] = L2cap(x)
    <3>1. CASE i = Len(s) + 1
      <4>1. t[i].id = k + 1 /\ i - 1 = Len(s)
        BY <1>2, <1>3, <3>1
      <4>2. ASSUME NEW j \in 1..Len(s), IsL2cap(t[j]) PROVE t[j].id < k + 1
        <5>1. s[j].id \in Nat /\ s[j].id <= k
          BY <1>a, <1>3, <4>2 DEF UpTo
        <5> QED
          BY <1>3, <5>1
      <4>3. ASSUME NEW x \in 1..k PROVE \E j \in 1..Len(s) : t[j] = L2cap(x)
        BY <1>3 DEF HasUpTo
      <4> QED
        BY <4>1, <4>2, <4>3
    <3>2. CASE i \in 1..Len(s)
      <4>1. t[i] = s[i] /\ \A j \in 1..(i - 1) : t[j] = s[j]
        BY <1>3, <3>2
      <4> QED
        BY <2>1, <3>2, <4>1 DEF InSubmissionOrder
    <3> QED
      BY <1>3, <3>1, <3>2
  <2> QED
    BY <2>1 DEF InSubmissionOrder
<1> QED
  BY <1>4, <1>5, <1>6 DEF t, b

LEMMA OtherPdu ==
  ASSUME NEW s \in Seq(Body), NEW b \in Body, ~IsL2cap(b)
  PROVE  LET t == Append(s, b)
         IN  /\ InSubmissionOrder(s) => InSubmissionOrder(t)
             /\ \A k \in Nat : /\ UpTo(s, k) => UpTo(t, k)
                               /\ HasUpTo(s, k) => HasUpTo(t, k)
<1> DEFINE t == Append(s, b)
<1>1. /\ Len(t) = Len(s) + 1 /\ Len(s) \in Nat /\ t[Len(s) + 1] = b
      /\ \A i \in 1..Len(s) : t[i] = s[i]
  OBVIOUS
<1> HIDE DEF t
<1>2. \A i \in 1..Len(t) : IsL2cap(t[i]) => i \in 1..Len(s)
  BY <1>1
<1>3. ASSUME InSubmissionOrder(s) PROVE InSubmissionOrder(t)
  <2>1. ASSUME NEW i \in 1..Len(s)
        PROVE  t[i] = s[i] /\ \A j \in 1..(i - 1) : t[j] = s[j]
    BY <1>1
  <2> QED
    BY <1>2, <1>3, <2>1 DEF InSubmissionOrder
<1>4. ASSUME NEW k \in Nat PROVE /\ UpTo(s, k) => UpTo(t, k)
                                 /\ HasUpTo(s, k) => HasUpTo(t, k)
  <2>1. UpTo(s, k) => UpTo(t, k)
    BY <1>1, <1>2 DEF UpTo
  <2>2. ASSUME HasUpTo(s, k), NEW x \in 1..k
        PROVE  \E i \in 1..Len(t) : t[i] = L2cap(x)
    <3>1. PICK i \in 1..Len(s) : s[i] = L2cap(x)
      BY <2>2 DEF HasUpTo
    <3>2. i \in 1..Len(t) /\ t[i] = L2cap(x)
      BY <1>1, <3>1
    <3> QED
      BY <3>2
  <2> QED
    BY <2>1, <2>2 DEF HasUpTo
<1> QED
  BY <1>3, <1>4 DEF t

LEMMA FifoPrefix ==
  ASSUME NEW s \in Seq(Body), NEW t \in Seq(Body), Follows(t, s),
         InSubmissionOrder(s), NEW k \in Nat, UpTo(s, k)
  PROVE  InSubmissionOrder(t) /\ UpTo(t, k)
<1>1. /\ Len(t) \in Nat /\ Len(s) \in Nat /\ Len(t) <= Len(s)
      /\ \A i \in 1..Len(t) : i \in 1..Len(s) /\ s[i] = t[i]
  BY DEF Follows
<1>2. ASSUME NEW i \in 1..Len(t)
      PROVE  s[i] = t[i] /\ \A j \in 1..(i - 1) : s[j] = t[j]
  BY <1>1
<1>3. UpTo(t, k)
  BY <1>1 DEF UpTo
<1>4. ASSUME NEW i \in 1..Len(t), IsL2cap(t[i])
      PROVE  /\ t[i].id > 0
             /\ \A j \in 1..(i - 1) : IsL2cap(t[j]) => t[j].id < t[i].id
             /\ \A x \in 1..(t[i].id - 1) : \E j \in 1..(i - 1) : t[j] = L2cap(x)
  <2>1. /\ i \in 1..Len(s) /\ IsL2cap(s[i]) /\ s[i] = t[i]
        /\ \A j \in 1..(i - 1) : s[j] = t[j]
    BY <1>1, <1>2, <1>4
  <2>2. /\ s[i].id > 0
        /\ \A j \in 1..(i - 1) : IsL2cap(s[j]) => s[j].id < s[i].id
        /\ \A x \in 1..(s[i].id - 1) : \E j \in 1..(i - 1) : s[j] = L2cap(x)
    BY <2>1, Zenon DEF InSubmissionOrder
  <2>3. \A x \in 1..(t[i].id - 1) : \E j \in 1..(i - 1) : t[j] = L2cap(x)
    BY <2>1, <2>2
  <2> QED
    BY <2>1, <2>2, <2>3
<1>5. InSubmissionOrder(t)
  BY <1>4 DEF InSubmissionOrder
<1> QED
  BY <1>3, <1>5

LEMMA UpToMore ==
  ASSUME NEW s \in Seq(Body), NEW k \in Nat, NEW m \in Nat, k <= m, UpTo(s, k)
  PROVE  UpTo(s, m)
<1>1. \A i \in 1..Len(s) : IsL2cap(s[i]) => s[i].id \in Nat
  BY L2capBodies
<1> QED
  BY <1>1 DEF UpTo

(* What a step that neither sends nor submits at n keeps, if it keeps the    *)
(* queue or ends the link.                                                  *)
LEMMA FifoKept ==
  ASSUME NEW n \in Node, FifoFrom(n),
         sent'[n] = sent[n], submitted'[n] = submitted[n],
         connected'[n] => connected[n] /\ l2capQ'[n] = l2capQ[n]
  PROVE  FifoFrom(n)'
BY DEF FifoFrom, InSubmissionOrder, UpTo

LEMMA FifoSubmits ==
  ASSUME TypeOK, FifoInv, NEW n \in Node, QueueL2capPayload(n),
         UNCHANGED <<connected, sent>>
  PROVE  FifoInv'
<1> DEFINE q == l2capQ[n]
           k == submitted[n] - Len(q)
<1>1. /\ submitted \in [Node -> Nat] /\ l2capQ \in [Node -> Seq(Nat)]
      /\ sent[n] \in Seq(Body)
  BY DEF TypeOK
<1>2. /\ submitted' = [submitted EXCEPT ![n] = @ + 1]
      /\ l2capQ' = [l2capQ EXCEPT ![n] = Append(@, submitted[n] + 1)]
  BY DEF QueueL2capPayload
<1>3. /\ submitted'[n] = submitted[n] + 1 /\ l2capQ'[n] = Append(q, submitted[n] + 1)
      /\ \A m \in Node \ {n} : submitted'[m] = submitted[m] /\ l2capQ'[m] = l2capQ[m]
  BY <1>1, <1>2
<1>4. /\ Len(l2capQ'[n]) = Len(q) + 1 /\ Len(q) \in Nat /\ submitted[n] \in Nat
      /\ l2capQ'[n][Len(q) + 1] = submitted[n] + 1
      /\ \A i \in 1..Len(q) : l2capQ'[n][i] = q[i]
  BY <1>1, <1>3
<1>5. FifoFrom(n)
  BY DEF FifoInv
<1> HIDE DEF q
<1>6. submitted'[n] - Len(l2capQ'[n]) = k
  <2> PICK l \in Nat, m \in Nat : l = Len(q) /\ m = submitted[n]
    BY <1>4
  <2>1. submitted'[n] = m + 1 /\ Len(l2capQ'[n]) = l + 1 /\ k = m - l
    BY <1>3, <1>4
  <2> HIDE DEF k
  <2> QED
    BY <2>1
<1>7. UpTo(sent[n], submitted[n] + 1)
  BY <1>1, <1>4, <1>5, UpToMore DEF FifoFrom
<1>8. ASSUME connected[n], NEW i \in 1..Len(l2capQ'[n]) PROVE l2capQ'[n][i] = k + i
  <2>1. CASE i = Len(q) + 1
    BY <1>4, <2>1
  <2>2. CASE i \in 1..Len(q)
    BY <1>4, <1>5, <1>8, <2>2 DEF FifoFrom, q
  <2> QED
    BY <1>4, <1>8, <2>1, <2>2
<1>9. FifoFrom(n)'
  <2>1. InSubmissionOrder(sent'[n]) /\ UpTo(sent'[n], submitted'[n])
    BY <1>3, <1>5, <1>7 DEF FifoFrom
  <2>2. connected[n] => /\ k >= 0 /\ UpTo(sent[n], k)
                        /\ \A x \in 1..k : \E i \in 1..Len(sent[n]) : sent[n][i] = L2cap(x)
    BY <1>5 DEF FifoFrom, q
  <2> HIDE DEF k
  <2> QED
    BY <1>6, <1>8, <2>1, <2>2 DEF FifoFrom
<1>10. ASSUME NEW m \in Node \ {n} PROVE FifoFrom(m)'
  BY <1>3, FifoKept DEF FifoInv
<1> QED
  BY <1>9, <1>10 DEF FifoInv

(* Staging the PDU of a source moves the head of the queue, if that is the   *)
(* source, to what is sent.                                                 *)
LEMMA FifoStages ==
  ASSUME TypeOK, FifoInv, NEW n \in Node, connected[n], NEW pdu \in Pdu, NEW src,
         pdu.body = BodyOf(n, src), src = "L2CAP" => l2capQ[n] # <<>>,
         StageNew(n, pdu, src), UNCHANGED <<connected, submitted>>
  PROVE  FifoInv'
<1> DEFINE q == l2capQ[n]
           k == submitted[n] - Len(q)
<1>1. /\ submitted[n] \in Nat /\ l2capQ \in [Node -> Seq(Nat)] /\ q \in Seq(Nat)
      /\ sent \in [Node -> Seq(Body)] /\ sent[n] \in Seq(Body) /\ pdu.body \in Body
  BY DEF TypeOK, Pdu
<1>2. /\ l2capQ' = IF src = "L2CAP" THEN [l2capQ EXCEPT ![n] = Tail(@)] ELSE l2capQ
      /\ sent' = IF pdu.body = EmptyBody THEN sent
                 ELSE [sent EXCEPT ![n] = Append(@, pdu.body)]
  BY DEF StageNew, ConsumeSource
<1>3. ASSUME NEW m \in Node \ {n} PROVE FifoFrom(m)'
  <2>1. sent'[m] = sent[m] /\ l2capQ'[m] = l2capQ[m]
    BY <1>1, <1>2
  <2> QED
    BY <2>1, FifoKept DEF FifoInv
<1>4. /\ k \in Nat /\ InSubmissionOrder(sent[n]) /\ UpTo(sent[n], k)
      /\ HasUpTo(sent[n], k) /\ UpTo(sent[n], submitted[n])
      /\ \A i \in 1..Len(q) : q[i] = k + i
  BY <1>1 DEF FifoInv, FifoFrom, HasUpTo
<1>5. CASE src = "L2CAP"
  <2>1. pdu.body = L2cap(Head(q)) /\ q # <<>>
    BY <1>5 DEF BodyOf, L2cap
  <2>2. /\ Head(q) = q[1] /\ Len(q) \in Nat /\ Len(q) >= 1
        /\ Len(Tail(q)) = Len(q) - 1
        /\ \A i \in 1..Len(Tail(q)) : Tail(q)[i] = q[i + 1]
    BY <1>1, <2>1
  <2>3. Head(q) = k + 1
    BY <1>4, <2>2
  <2>4. sent'[n] = Append(sent[n], L2cap(k + 1)) /\ l2capQ'[n] = Tail(q)
    <3>1. pdu.body # EmptyBody
      BY <1>4, <2>1, <2>3, L2capBodies
    <3> QED
      BY <1>1, <1>2, <1>5, <2>1, <2>3, <3>1
  <2>5. /\ InSubmissionOrder(sent'[n]) /\ UpTo(sent'[n], k + 1)
        /\ HasUpTo(sent'[n], k + 1) /\ sent'[n] \in Seq(Body)
    BY <1>1, <1>4, <2>4, NextPayload, L2capBodies
  <2>6. submitted[n] - Len(l2capQ'[n]) = k + 1 /\ k + 1 <= submitted[n]
    BY <1>1, <2>2, <2>4
  <2>7. UpTo(sent'[n], submitted[n])
    BY <1>1, <1>4, <2>5, <2>6, UpToMore
  <2>8. \A i \in 1..Len(l2capQ'[n]) : l2capQ'[n][i] = (k + 1) + i
    BY <1>4, <2>2, <2>4
  <2> HIDE DEF k
  <2>9. FifoFrom(n)'
    BY <1>4, <2>5, <2>6, <2>7, <2>8 DEF FifoFrom, HasUpTo
  <2> QED
    BY <1>3, <2>9 DEF FifoInv
<1>6. CASE src # "L2CAP"
  <2>1. ~IsL2cap(pdu.body) /\ l2capQ'[n] = q
    BY <1>2, <1>6 DEF BodyOf, IsL2cap, EmptyBody
  <2>2. sent'[n] = sent[n] \/ sent'[n] = Append(sent[n], pdu.body)
    BY <1>1, <1>2
  <2>3. /\ InSubmissionOrder(sent'[n]) /\ UpTo(sent'[n], k)
        /\ HasUpTo(sent'[n], k) /\ UpTo(sent'[n], submitted[n])
    BY <1>1, <1>4, <2>1, <2>2, OtherPdu
  <2>4. submitted[n] - Len(l2capQ'[n]) = k
    BY <2>1
  <2>5. \A i \in 1..Len(l2capQ'[n]) : l2capQ'[n][i] = k + i
    BY <1>4, <2>1
  <2> HIDE DEF k
  <2>6. FifoFrom(n)'
    BY <1>4, <2>3, <2>4, <2>5 DEF FifoFrom, HasUpTo
  <2> QED
    BY <1>3, <2>6 DEF FifoInv
<1> QED
  BY <1>5, <1>6

LEMMA FifoQuiet ==
  ASSUME FifoInv, UNCHANGED <<sent, submitted>>,
         \A n \in Node : connected'[n] => connected[n] /\ l2capQ'[n] = l2capQ[n]
  PROVE  FifoInv'
BY FifoKept DEF FifoInv

(* The end of an event: the host may answer a payload with another.         *)
LEMMA FifoFinishes ==
  ASSUME TypeOK, FifoInv, NEW n \in Node, FinishEvent(n), UNCHANGED <<connected, sent>>
  PROVE  FifoInv'
<1>1. QueueL2capPayload(n) \/ UNCHANGED <<l2capQ, submitted>>
  BY DEF FinishEvent, ProcessReceivedConnPdu, L2capProcess, pendingTx
<1> QED
  BY <1>1, FifoSubmits, FifoQuiet

LEMMA NextFifo ==
  ASSUME IInv, FifoInv, [Next]_vars
  PROVE  FifoInv'
<1>0. TypeOK /\ SelectionInv
  BY IInvFacts
<1> USE DEF sequencing, staging, pendingTx, receiving, history
<1>1. ASSUME NEW n \in Node, AppQueuesL2cap(n) PROVE FifoInv'
  BY <1>0, <1>1, FifoSubmits DEF AppQueuesL2cap
<1>2. ASSUME NEW n \in Node, Disconnect(n) PROVE FifoInv'
  <2>1. \A m \in Node : connected'[m] => connected[m] /\ l2capQ'[m] = l2capQ[m]
    BY <1>0, <1>2 DEF Disconnect, TypeOK
  <2> QED
    BY <1>2, <2>1, FifoQuiet DEF Disconnect
<1>3. ASSUME NEW op \in Requests, AppStartsProcedure(op) PROVE FifoInv'
  BY <1>3, FifoQuiet DEF AppStartsProcedure
<1>4. CASE CentralStartEvent /\ txUnacked[Central]
  BY <1>4, FifoQuiet DEF CentralStartEvent
<1>5. CASE CentralStartEvent /\ ~txUnacked[Central]
  <2> DEFINE src == PendingSource(Central)
             pdu == LoadedPdu(Central, rxSn[Central], txSn[Central])
  <2>1. /\ StageNew(Central, pdu, src) /\ connected[Central]
        /\ UNCHANGED <<connected, submitted>>
    BY <1>5 DEF CentralStartEvent
  <2>2. pdu \in Pdu
    <3>1. rxSn[Central] \in Bit /\ txSn[Central] \in Bit
      BY <1>0, NodeFacts DEF TypeOK
    <3> QED
      BY <1>0, <3>1, LoadedType, NodeFacts
  <2>3. pdu.body = BodyOf(Central, src) /\ (src = "L2CAP" => l2capQ[Central] # <<>>)
    BY DEF LoadedPdu, PendingSource
  <2> HIDE DEF pdu, src
  <2> QED
    BY <1>0, <2>1, <2>2, <2>3, FifoStages, NodeFacts
<1>6. CASE CentralTxDisabled
  BY <1>6, FifoQuiet DEF CentralTxDisabled
<1>7. CASE CentralCrcOk
  BY <1>7, FifoQuiet DEF CentralCrcOk
<1>8. CASE CentralCrcError
  BY <1>8, FifoQuiet DEF CentralCrcError
<1>9. CASE CentralRxDisabled
  BY <1>0, <1>9, FifoFinishes, NodeFacts DEF CentralRxDisabled
<1>10. CASE PeripheralStartEvent
  BY <1>10, FifoQuiet DEF PeripheralStartEvent
<1>11. ASSUME NEW ok \in BOOLEAN, PeripheralBcmatch(ok) PROVE FifoInv'
  BY <1>11, FifoQuiet DEF PeripheralBcmatch
<1>12. CASE PeripheralCrcOk
  <2>1. UNCHANGED <<connected, submitted>> /\ connected[Peripheral]
    BY <1>12 DEF PeripheralCrcOk
  <2>2. CASE bcmatch.txAcked \/ ~txUnacked[Peripheral]
    <3>1. StageNew(Peripheral, connTx[Peripheral], source[Peripheral])
      BY <1>12, <2>2 DEF PeripheralCrcOk
    <3>2. /\ connTx[Peripheral].body = BodyOf(Peripheral, source[Peripheral])
          /\ source[Peripheral] = "L2CAP" => l2capQ[Peripheral] # <<>>
          /\ connTx[Peripheral] \in Pdu
      BY <1>0, <1>12, <2>2, NodeFacts DEF PeripheralCrcOk, SelectionInv, TypeOK
    <3> QED
      BY <1>0, <2>1, <3>1, <3>2, FifoStages, NodeFacts
  <2>3. CASE ~(bcmatch.txAcked \/ ~txUnacked[Peripheral])
    BY <1>12, <2>1, <2>3, FifoQuiet DEF PeripheralCrcOk
  <2> QED
    BY <2>2, <2>3
<1>13. CASE PeripheralCrcError
  <2>1. UNCHANGED <<connected, submitted>> /\ connected[Peripheral]
    BY <1>13 DEF PeripheralCrcError
  <2>2. CASE txUnacked[Peripheral]
    BY <1>13, <2>1, <2>2, FifoQuiet DEF PeripheralCrcError
  <2>3. CASE ~txUnacked[Peripheral]
    <3> DEFINE pdu == EmptyPdu(rxSn[Peripheral], txSn[Peripheral])
    <3>1. StageNew(Peripheral, pdu, "NONE")
      BY <1>13, <2>3 DEF PeripheralCrcError
    <3>2. pdu \in Pdu /\ pdu.body = BodyOf(Peripheral, "NONE")
      BY <1>0, NodeFacts DEF TypeOK, EmptyPdu, Pdu, Body, BodyOf
    <3> HIDE DEF pdu
    <3> QED
      BY <1>0, <2>1, <3>1, <3>2, FifoStages, NodeFacts
  <2> QED
    BY <2>2, <2>3
<1>14. CASE PeripheralRxDisabled
  BY <1>14, FifoQuiet DEF PeripheralRxDisabled
<1>15. CASE PeripheralTxDisabled
  BY <1>0, <1>15, FifoFinishes, NodeFacts DEF PeripheralTxDisabled
<1>16. CASE Lose
  BY <1>16, FifoQuiet DEF Lose
<1>17. CASE UNCHANGED vars
  BY <1>17, FifoQuiet DEF vars
<1> QED
  BY <1>1, <1>2, <1>3, <1>4, <1>5, <1>6, <1>7, <1>8, <1>9, <1>10, <1>11, <1>12,
     <1>13, <1>14, <1>15, <1>16, <1>17 DEF Next

LEMMA InitFifo == Init => FifoInv
<1> SUFFICES ASSUME Init, NEW n \in Node PROVE FifoFrom(n)
  BY DEF FifoInv
<1>1. submitted[n] = 0 /\ l2capQ[n] = <<>> /\ sent[n] = <<>>
  BY DEF Init
<1> QED
  BY <1>1 DEF FifoFrom, InSubmissionOrder, UpTo

(* The L2CAP payloads processed at one end are the first ones the other end  *)
(* accepted, none skipped, repeated or overtaken: what is sent keeps to the  *)
(* order of the queue, and what is processed is a prefix of what is sent.   *)
THEOREM PayloadsInOrder == Spec => []L2capFifo
<1>1. IInv /\ FifoInv => L2capFifo
  <2>1. SUFFICES ASSUME IInv, FifoInv, NEW n \in Node
                 PROVE  InSubmissionOrder(rcvd[n]) /\ UpTo(rcvd[n], submitted[Peer(n)])
    BY DEF L2capFifo
  <2> DEFINE m == Peer(n)
  <2>2. m \in Node /\ Peer(m) = n
    BY NodeFacts
  <2>3. /\ sent[m] \in Seq(Body) /\ rcvd[n] \in Seq(Body) /\ submitted[m] \in Nat
    BY <2>1, <2>2, IInvFacts DEF TypeOK
  <2>4. Follows(rcvd[n], sent[m])
    BY <2>1, <2>2 DEF IInv, InOrderExactlyOnce, InOrderFrom
  <2>5. InSubmissionOrder(sent[m]) /\ UpTo(sent[m], submitted[m])
    BY <2>1, <2>2 DEF FifoInv, FifoFrom
  <2> QED
    BY <2>3, <2>4, <2>5, FifoPrefix
<1> QED
  BY <1>1, InitIInv, NextIInv, InitFifo, NextFifo, PTL DEF Spec
=============================================================================
