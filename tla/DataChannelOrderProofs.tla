---------------------- MODULE DataChannelOrderProofs ----------------------
(***************************************************************************)
(* Proof that the invariant IInv of DataChannelInv is inductive, and with   *)
(* it that the PDUs processed at one end are those the other end put into   *)
(* transmission, in order and without repetition.                           *)
(***************************************************************************)
EXTENDS DataChannelProofs

LEMMA NodeFacts ==
  /\ Central \in Node /\ Peripheral \in Node /\ Central # Peripheral
  /\ \A n \in Node : n = Central \/ n = Peripheral
  /\ Peer(Central) = Peripheral /\ Peer(Peripheral) = Central
  /\ Silence.src = None /\ None # Central /\ None # Peripheral
BY NodesAssumption DEF Node, Peer, Silence

LEMMA PlusFollows ==
  ASSUME NEW t \in Seq(Body), NEW b \in Body
  PROVE  /\ Plus(t, b) \in Seq(Body)
         /\ Follows(t, Plus(t, b)) /\ Len(Plus(t, b)) <= Len(t) + 1
BY DEF Plus, Follows

LEMMA FollowsItself ==
  ASSUME NEW t \in Seq(Body)
  PROVE  Follows(t, t) /\ Len(t) <= Len(t) + 1
BY DEF Follows

(* Appending to what was sent keeps what was received a prefix of it.       *)
LEMMA FollowsGrows ==
  ASSUME NEW s \in Seq(Body), NEW t \in Seq(Body), NEW b \in Body, Follows(t, s)
  PROVE  Follows(t, Plus(s, b))
<1>1. Follows(s, Plus(s, b)) /\ Plus(s, b) \in Seq(Body)
  BY PlusFollows
<1>2. Len(s) \in Nat /\ Len(t) \in Nat /\ Len(Plus(s, b)) \in Nat
  BY <1>1
<1> QED
  BY <1>1, <1>2 DEF Follows

LEMMA FinishRcvd ==
  ASSUME TypeOK, NEW n \in Node, FinishEvent(n)
  PROVE  /\ rcvd' = [rcvd EXCEPT ![n] =
                       IF rxPending[n] THEN Plus(@, rxBody[n]) ELSE @]
         /\ rxPending' = [rxPending EXCEPT ![n] = FALSE]
         /\ phase' = [phase EXCEPT ![n] = "IDLE"]
<1>1. rxBody[n] \in Body /\ rcvd \in [Node -> Seq(Body)]
  BY DEF TypeOK
<1>2. rxBody[n].llid = "EMPTY" <=> rxBody[n] = EmptyBody
  BY <1>1 DEF Body, CtrlBody, L2capBody, EmptyBody
<1>3. CASE rxPending[n]
  <2>1. ProcessReceivedConnPdu(n)
    BY <1>3 DEF FinishEvent
  <2>2. rcvd' = [rcvd EXCEPT ![n] = Plus(rcvd[n], rxBody[n])]
    BY <1>1, <1>2, <2>1 DEF ProcessReceivedConnPdu, Plus
  <2> QED
    BY <1>3, <2>2 DEF FinishEvent
<1>4. CASE ~rxPending[n]
  BY <1>1, <1>4 DEF FinishEvent
<1> QED
  BY <1>3, <1>4

LEMMA StageSent ==
  ASSUME TypeOK, NEW n \in Node, NEW pdu \in Pdu, NEW src, StageNew(n, pdu, src)
  PROVE  /\ sent' = [sent EXCEPT ![n] = Plus(@, pdu.body)]
         /\ lastTx' = [lastTx EXCEPT ![n] = pdu]
         /\ txUnacked' = [txUnacked EXCEPT ![n] = TRUE]
BY DEF StageNew, Plus, TypeOK

(* What IInv says at each end, with the peer named.                         *)
LEMMA IInvFacts ==
  ASSUME IInv
  PROVE  /\ TypeOK /\ SelectionInv
         /\ BothUp => Agrees(Central) /\ Agrees(Peripheral)
         /\ TransferFrom(Central) /\ TransferFrom(Peripheral)
         /\ InOrderFrom(Central) /\ InOrderFrom(Peripheral)
         /\ AirInv /\ PendingInv /\ PrestageInv
BY NodeFacts DEF IInv, TypeInv, SequenceInv, TransferInv, InOrderExactlyOnce

LEMMA InitIInv == Init => IInv
<1> SUFFICES ASSUME Init PROVE IInv
  OBVIOUS
<1>1. TypeInv
  BY InitType
<1>2. <<>> \in Seq(Body)
  OBVIOUS
<1>3. ASSUME NEW n \in Node PROVE InOrderFrom(n) /\ Agrees(n) /\ TransferFrom(n)
  <2>1. Peer(n) \in Node
    BY NodeFacts
  <2>2. Follows(<<>>, <<>>) /\ Len(<<>>) <= Len(<<>>) + 1
    BY <1>2, FollowsItself
  <2>3. sent[n] = <<>> /\ rcvd[Peer(n)] = <<>>
    BY <2>1 DEF Init
  <2>4. InOrderFrom(n)
    BY <2>2, <2>3 DEF InOrderFrom
  <2> QED
    BY <2>1, <2>3, <2>4 DEF Init, Agrees, TransferFrom, Outstanding, EmptyPdu
<1>4. AirInv /\ PendingInv /\ PrestageInv
  BY NodeFacts DEF Init, AirInv, PendingInv, PrestageInv, Hears
<1> QED
  BY <1>1, <1>3, <1>4 DEF IInv, InOrderExactlyOnce, SequenceInv, TransferInv

(* What the steps that touch neither the transfer nor the air keep.         *)
LEMMA QuietStep ==
  ASSUME IInv,
         UNCHANGED <<connected, txSn, rxSn, txUnacked, lastTx, rxBody, rxPending,
                     air, bcmatch, connTx, sent, rcvd>>,
         phase'[Peripheral] = phase[Peripheral], TypeInv'
  PROVE  IInv'
<1> USE DEF IInv
<1>1. InOrderExactlyOnce'
  BY DEF InOrderExactlyOnce, InOrderFrom
<1>2. SequenceInv'
  BY DEF SequenceInv, Agrees, BothUp
<1>3. AirInv' /\ PendingInv'
  BY DEF AirInv, PendingInv, Hears
<1>4. PrestageInv'
  BY DEF PrestageInv, Hears, Acks, IsNewTo, AnswerSn, AnswerNesn
<1>5. TransferInv'
  BY DEF TransferInv, TransferFrom, Outstanding, BothUp
<1> QED
  BY <1>1, <1>2, <1>3, <1>4, <1>5

(* TIMER0 at the central.                                                   *)
LEMMA CentralStartKeeps ==
  ASSUME IInv, CentralStartEvent, TypeInv'
  PROVE  IInv'
<1>0. /\ TypeOK /\ AirInv /\ PendingInv /\ TypeOK'
      /\ BothUp => Agrees(Central) /\ Agrees(Peripheral)
      /\ TransferFrom(Central) /\ TransferFrom(Peripheral)
      /\ InOrderFrom(Central) /\ InOrderFrom(Peripheral)
  BY IInvFacts DEF TypeInv
<1>1. /\ connected[Central] /\ air = Silence /\ connected' = connected
      /\ rcvd' = rcvd /\ rxSn' = rxSn /\ txSn' = txSn
      /\ rxBody'[Peripheral] = rxBody[Peripheral]
      /\ rxPending' = [rxPending EXCEPT ![Central] = FALSE]
      /\ phase'[Peripheral] = phase[Peripheral]
      /\ air' = [src |-> Central, pdu |-> lastTx'[Central], at |-> "start", ok |-> TRUE]
      /\ connected[Peripheral] => phase[Peripheral] = "WAIT_RX"
  BY <1>0, NodeFacts DEF CentralStartEvent, ClearReception, TypeOK
<1>2. ~rxPending[Central] /\ (connected[Peripheral] => ~rxPending[Peripheral])
  BY <1>0, <1>1, NodeFacts DEF PendingInv, Hears
<1>3. rxPending' = rxPending
  BY <1>0, <1>1, <1>2, NodeFacts DEF TypeOK
<1>4. AirInv'
  <2>1. txUnacked'[Central]
    <3>1. CASE txUnacked[Central]
      BY <1>0, <3>1 DEF CentralStartEvent
    <3>2. CASE ~txUnacked[Central]
      BY <1>0, <3>2, NodeFacts DEF CentralStartEvent, StageNew, TypeOK
    <3> QED
      BY <3>1, <3>2
  <2> QED
    BY <1>1, <2>1, NodeFacts DEF AirInv, Hears
<1>5. PendingInv' /\ PrestageInv'
  BY <1>0, <1>1, <1>2, <1>3, NodeFacts DEF PendingInv, PrestageInv, Hears
<1>6. CASE txUnacked[Central]
  <2>1. UNCHANGED <<txUnacked, lastTx, sent>>
    BY <1>6 DEF CentralStartEvent
  <2>2. SequenceInv'
    BY <1>0, <1>1, <2>1, NodeFacts DEF SequenceInv, Agrees, BothUp
  <2>3. TransferInv'
    BY <1>0, <1>1, <1>2, <1>3, <2>1, NodeFacts
       DEF TransferInv, TransferFrom, Outstanding, BothUp
  <2>4. InOrderExactlyOnce'
    BY <1>0, <1>1, <2>1, NodeFacts DEF InOrderExactlyOnce, InOrderFrom
  <2> QED
    BY <1>4, <1>5, <2>2, <2>3, <2>4 DEF IInv
<1>7. CASE ~txUnacked[Central]
  <2> DEFINE pdu == LoadedPdu(Central, rxSn[Central], txSn[Central])
  <2>1. /\ pdu \in Pdu /\ pdu.sn = txSn[Central] /\ pdu.nesn = rxSn[Central]
        /\ pdu.body \in Body
    <3>1. rxSn[Central] \in Bit /\ txSn[Central] \in Bit
      BY <1>0, NodeFacts DEF TypeOK
    <3>2. pdu \in Pdu /\ pdu.sn = txSn[Central] /\ pdu.nesn = rxSn[Central]
      BY <1>0, <3>1, LoadedType, NodeFacts
    <3> QED
      BY <3>2 DEF Pdu
  <2>2. StageNew(Central, pdu, PendingSource(Central))
    BY <1>7 DEF CentralStartEvent
  <2> HIDE DEF pdu
  <2>3. /\ sent' = [sent EXCEPT ![Central] = Plus(@, pdu.body)]
        /\ lastTx' = [lastTx EXCEPT ![Central] = pdu]
        /\ txUnacked' = [txUnacked EXCEPT ![Central] = TRUE]
    BY <1>0, <2>1, <2>2, StageSent, NodeFacts
  <2>4. /\ sent'[Central] = Plus(sent[Central], pdu.body)
        /\ sent'[Peripheral] = sent[Peripheral]
        /\ lastTx'[Central] = pdu /\ lastTx'[Peripheral] = lastTx[Peripheral]
        /\ txUnacked'[Central] /\ txUnacked'[Peripheral] = txUnacked[Peripheral]
    <3>1. /\ sent \in [Node -> Seq(Body)] /\ lastTx \in [Node -> Pdu]
          /\ txUnacked \in [Node -> BOOLEAN]
      BY <1>0 DEF TypeOK
    <3> QED
      BY <2>3, <3>1, NodeFacts
  <2>5. SequenceInv'
    <3>1. SUFFICES ASSUME BothUp' PROVE Agrees(Central)' /\ Agrees(Peripheral)'
      BY NodeFacts DEF SequenceInv
    <3>2. BothUp /\ Agrees(Central) /\ Agrees(Peripheral)
      BY <1>0, <1>1, <3>1 DEF BothUp
    <3>3. Agrees(Central)'
      BY <1>1, <1>7, <2>1, <2>4, <3>2, NodeFacts DEF Agrees
    <3>4. Agrees(Peripheral)'
      BY <1>1, <1>7, <2>4, <3>2, NodeFacts DEF Agrees
    <3> QED
      BY <3>3, <3>4
  <2>6. connected[Peripheral] => sent[Central] = rcvd[Peripheral]
    BY <1>0, <1>1, <1>2, <1>7, NodeFacts DEF TransferFrom, Outstanding, BothUp
  <2>7. BothUp => rxSn[Peripheral] = txSn[Central]
    BY <1>0, <1>7, NodeFacts DEF Agrees
  <2>8. TransferFrom(Central)'
    BY <1>0, <1>1, <1>2, <1>3, <2>4, <2>6, <2>7, NodeFacts
       DEF TransferFrom, Outstanding, BothUp
  <2>9. TransferFrom(Peripheral)'
    BY <1>0, <1>1, <1>2, <1>3, <2>4, NodeFacts DEF TransferFrom, Outstanding, BothUp
  <2>10. InOrderFrom(Central)'
    <3>1. sent[Central] \in Seq(Body) /\ rcvd[Peripheral] \in Seq(Body)
      BY <1>0, NodeFacts DEF TypeOK
    <3>2. CASE connected[Peripheral]
      <4>1. Follows(rcvd[Peripheral], Plus(rcvd[Peripheral], pdu.body))
            /\ Len(Plus(rcvd[Peripheral], pdu.body)) <= Len(rcvd[Peripheral]) + 1
        BY <2>1, <3>1, PlusFollows
      <4> QED
        BY <1>1, <2>4, <2>6, <3>2, <4>1, NodeFacts DEF InOrderFrom
    <3>3. CASE ~connected[Peripheral]
      <4>1. Follows(rcvd[Peripheral], sent[Central])
        BY <1>0, NodeFacts DEF InOrderFrom
      <4>2. Follows(rcvd[Peripheral], Plus(sent[Central], pdu.body))
        BY <2>1, <3>1, <4>1, FollowsGrows
      <4> QED
        BY <1>1, <2>4, <3>3, <4>2, NodeFacts DEF InOrderFrom
    <3> QED
      BY <3>2, <3>3
  <2>11. InOrderFrom(Peripheral)'
    BY <1>0, <1>1, <2>4, NodeFacts DEF InOrderFrom
  <2> QED
    BY <1>4, <1>5, <2>5, <2>8, <2>9, <2>10, <2>11, NodeFacts
       DEF IInv, TransferInv, InOrderExactlyOnce
<1> QED
  BY <1>6, <1>7

(* Radio events at the central.                                             *)
LEMMA CentralTxDisabledKeeps ==
  ASSUME IInv, CentralTxDisabled, TypeInv'
  PROVE  IInv'
<1>1. phase'[Peripheral] = phase[Peripheral]
  BY IInvFacts, NodeFacts DEF CentralTxDisabled, TypeOK
<1> QED
  BY <1>1, QuietStep DEF CentralTxDisabled, sequencing, staging, receiving, history

LEMMA CentralCrcOkKeeps ==
  ASSUME IInv, CentralCrcOk, TypeInv'
  PROVE  IInv'
<1> DEFINE acked == Acks(Central, air.pdu)
           isNew == IsNewTo(Central, air.pdu)
<1>0. /\ TypeOK /\ AirInv /\ PendingInv
      /\ BothUp => Agrees(Central) /\ Agrees(Peripheral)
      /\ TransferFrom(Central) /\ TransferFrom(Peripheral)
      /\ InOrderFrom(Central) /\ InOrderFrom(Peripheral)
  BY IInvFacts
<1>1. /\ connected[Central] /\ Hears(Central, "start")
      /\ air.src = Peripheral /\ air.at = "start" /\ air # Silence
      /\ air'.src = Peripheral /\ air'.at = "done" /\ air'.pdu = air.pdu
      /\ UNCHANGED <<connected, lastTx, sent, rcvd, phase>>
  <2>1. air \in AirPdu
    BY <1>0, NodeFacts, HearsType DEF CentralCrcOk
  <2> QED
    BY <2>1, NodeFacts DEF CentralCrcOk, Hears, AirPdu, history
<1>2. /\ txUnacked'[Central] = (IF acked THEN FALSE ELSE txUnacked[Central])
      /\ txUnacked'[Peripheral] = txUnacked[Peripheral]
      /\ txSn'[Central] = (IF acked THEN Flip(txSn[Central]) ELSE txSn[Central])
      /\ txSn'[Peripheral] = txSn[Peripheral]
      /\ rxSn'[Central] = (IF isNew THEN Flip(rxSn[Central]) ELSE rxSn[Central])
      /\ rxSn'[Peripheral] = rxSn[Peripheral]
      /\ rxPending'[Central] = isNew /\ rxPending'[Peripheral] = rxPending[Peripheral]
      /\ rxBody'[Central] = air.pdu.body /\ rxBody'[Peripheral] = rxBody[Peripheral]
  <2>1. /\ txUnacked'[Central] = (IF acked THEN FALSE ELSE txUnacked[Central])
        /\ txUnacked'[Peripheral] = txUnacked[Peripheral]
    BY <1>0, NodeFacts DEF CentralCrcOk, TypeOK
  <2>2. /\ txSn'[Central] = (IF acked THEN Flip(txSn[Central]) ELSE txSn[Central])
        /\ txSn'[Peripheral] = txSn[Peripheral]
    BY <1>0, NodeFacts DEF CentralCrcOk, TypeOK
  <2>3. /\ rxSn'[Central] = (IF isNew THEN Flip(rxSn[Central]) ELSE rxSn[Central])
        /\ rxSn'[Peripheral] = rxSn[Peripheral]
    BY <1>0, NodeFacts DEF CentralCrcOk, TypeOK
  <2>4. /\ rxPending'[Central] = isNew /\ rxPending'[Peripheral] = rxPending[Peripheral]
        /\ rxBody'[Central] = air.pdu.body /\ rxBody'[Peripheral] = rxBody[Peripheral]
    BY <1>0, NodeFacts DEF CentralCrcOk, TypeOK
  <2> QED
    BY <2>1, <2>2, <2>3, <2>4
<1>3. /\ BothUp /\ Agrees(Central) /\ Agrees(Peripheral)
      /\ air.pdu = lastTx[Peripheral] /\ txUnacked[Peripheral]
      /\ air.pdu.sn = txSn[Peripheral]
      /\ ~rxPending[Central]
  BY <1>0, <1>1, NodeFacts DEF AirInv, BothUp, Agrees, PendingInv, Hears
<1>4. /\ \A n \in Node : rxSn[n] \in Bit /\ txSn[n] \in Bit
      /\ air.pdu.nesn \in Bit
  BY <1>0, <1>3, NodeFacts DEF TypeOK, Pdu
<1>5. /\ acked => txUnacked[Central] /\ air.pdu.nesn # txSn[Central]
                    /\ rxSn[Peripheral] # txSn[Central]
      /\ isNew <=> rxSn[Central] = txSn[Peripheral]
      /\ acked => txSn'[Central] = air.pdu.nesn /\ txSn'[Central] = rxSn[Peripheral]
      /\ isNew => rxSn'[Central] # txSn[Peripheral]
  BY <1>2, <1>3, <1>4, NodeFacts, BitFacts DEF Acks, IsNewTo, Agrees
<1>6. ~acked => ~txUnacked[Central] \/ air.pdu.nesn = txSn[Central]
  BY DEF Acks
<1> HIDE DEF acked, isNew
<1>7. Agrees(Central)'
  <2>1. ~txUnacked'[Central] => rxSn'[Peripheral] = txSn'[Central]
    BY <1>2, <1>3, <1>5, NodeFacts DEF Agrees
  <2>2. txUnacked'[Central] => ~acked /\ txUnacked[Central]
    BY <1>2
  <2>3. txUnacked'[Central] => lastTx'[Central].sn = txSn'[Central]
    BY <1>1, <1>2, <1>3, <2>2, NodeFacts DEF Agrees
  <2>4. txUnacked'[Central] /\ lastTx'[Central].nesn # txSn'[Peripheral] =>
          txUnacked'[Peripheral] /\ rxSn'[Central] # txSn'[Peripheral]
    BY <1>1, <1>2, <1>3, <1>5, <2>2, NodeFacts DEF Agrees
  <2> QED
    BY <2>1, <2>3, <2>4, NodeFacts DEF Agrees
<1>8. Agrees(Peripheral)'
  BY <1>1, <1>2, <1>3, <1>5, NodeFacts DEF Agrees
<1>9. SequenceInv'
  BY <1>7, <1>8, NodeFacts DEF SequenceInv
<1>10. AirInv' /\ PendingInv' /\ PrestageInv'
  BY <1>0, <1>1, <1>2, <1>3, NodeFacts DEF AirInv, PendingInv, PrestageInv, Hears
<1>11. sent[Peripheral] = IF isNew THEN Plus(rcvd[Central], air.pdu.body)
                          ELSE rcvd[Central]
  BY <1>0, <1>3, <1>5, NodeFacts DEF TransferFrom, Outstanding
<1>12. TransferFrom(Peripheral)'
  BY <1>1, <1>2, <1>3, <1>5, <1>11, NodeFacts DEF TransferFrom, Outstanding
<1>13. Outstanding(Central)' <=> Outstanding(Central)
  BY <1>2, <1>5, NodeFacts DEF Outstanding
<1>14. TransferFrom(Central)'
  BY <1>0, <1>1, <1>2, <1>13, NodeFacts DEF TransferFrom, BothUp
<1>15. InOrderExactlyOnce'
  BY <1>0, <1>1, NodeFacts DEF InOrderExactlyOnce, InOrderFrom
<1> QED
  BY <1>9, <1>10, <1>12, <1>14, <1>15, NodeFacts DEF IInv, TransferInv

LEMMA CentralCrcErrorKeeps ==
  ASSUME IInv, CentralCrcError, TypeInv'
  PROVE  IInv'
<1>0. /\ TypeOK /\ AirInv /\ PendingInv
      /\ BothUp => Agrees(Central) /\ Agrees(Peripheral)
      /\ TransferFrom(Central) /\ TransferFrom(Peripheral)
      /\ InOrderFrom(Central) /\ InOrderFrom(Peripheral)
  BY IInvFacts
<1>1. air \in AirPdu
  BY <1>0, NodeFacts, HearsType DEF CentralCrcError
<1>2. /\ air.src = Peripheral /\ air.at = "start" /\ air # Silence /\ connected[Central]
      /\ air'.src = Peripheral /\ air'.at = "done" /\ air'.pdu = air.pdu
      /\ UNCHANGED <<connected, txSn, rxSn, txUnacked, lastTx, sent, rcvd, phase, rxBody>>
      /\ rxPending' = [rxPending EXCEPT ![Central] = FALSE]
  BY <1>1, NodeFacts DEF CentralCrcError, Hears, AirPdu, history, sequencing
<1>3. ~rxPending[Central]
  BY <1>0, <1>2, NodeFacts DEF PendingInv, Hears
<1>4. rxPending' = rxPending
  BY <1>0, <1>2, <1>3, NodeFacts DEF TypeOK
<1>5. AirInv' /\ PendingInv' /\ PrestageInv'
  BY <1>0, <1>2, <1>3, <1>4, NodeFacts DEF AirInv, PendingInv, PrestageInv, Hears
<1>6. SequenceInv'
  BY <1>0, <1>2, NodeFacts DEF SequenceInv, Agrees, BothUp
<1>7. TransferFrom(Central)' /\ TransferFrom(Peripheral)'
  BY <1>0, <1>2, <1>4, NodeFacts DEF TransferFrom, Outstanding, BothUp
<1>8. InOrderExactlyOnce'
  BY <1>0, <1>2, NodeFacts DEF InOrderExactlyOnce, InOrderFrom
<1> QED
  BY <1>5, <1>6, <1>7, <1>8, NodeFacts DEF IInv, TransferInv

(* The end of an event at n: the deferred PDU, if any, is processed.        *)
LEMMA FinishTransfer ==
  ASSUME TypeOK, NEW n \in Node, FinishEvent(n), connected[n],
         UNCHANGED <<connected, txSn, rxSn, txUnacked, lastTx, rxBody, sent>>,
         TransferFrom(n), TransferFrom(Peer(n)), InOrderFrom(n), InOrderFrom(Peer(n))
  PROVE  /\ TransferFrom(n)' /\ TransferFrom(Peer(n))'
         /\ InOrderFrom(n)' /\ InOrderFrom(Peer(n))'
<1> DEFINE m == Peer(n)
<1>0. m \in Node /\ m # n /\ Peer(m) = n
  BY NodeFacts
<1> HIDE DEF m
<1>1. /\ rcvd'[n] = (IF rxPending[n] THEN Plus(rcvd[n], rxBody[n]) ELSE rcvd[n])
      /\ rcvd'[m] = rcvd[m]
      /\ ~rxPending'[n] /\ rxPending'[m] = rxPending[m]
  BY <1>0, FinishRcvd DEF TypeOK
<1>2. /\ rcvd[n] \in Seq(Body) /\ sent[m] \in Seq(Body) /\ rxBody[n] \in Body
  BY <1>0 DEF TypeOK
<1>3. TransferFrom(n)' /\ InOrderFrom(n)'
  BY <1>0, <1>1 DEF TransferFrom, InOrderFrom, Outstanding, BothUp, m
<1>4. CASE rxPending[n]
  <2>1. sent[m] = rcvd'[n]
    BY <1>0, <1>1, <1>4 DEF TransferFrom, m
  <2>2. Follows(sent[m], sent[m]) /\ Len(sent[m]) <= Len(sent[m]) + 1
    BY <1>2, FollowsItself
  <2>3. InOrderFrom(m)'
    BY <1>0, <2>1, <2>2 DEF InOrderFrom
  <2>4. BothUp => ~Outstanding(m)
    BY <1>0, <1>4 DEF TransferFrom, m
  <2>5. TransferFrom(m)'
    BY <1>0, <1>1, <2>1, <2>4 DEF TransferFrom, Outstanding, BothUp
  <2> QED
    BY <1>3, <2>3, <2>5 DEF m
<1>5. CASE ~rxPending[n]
  <2>1. TransferFrom(m)'
    BY <1>0, <1>1, <1>5 DEF TransferFrom, Outstanding, BothUp, m
  <2>2. InOrderFrom(m)'
    BY <1>0, <1>1, <1>5 DEF InOrderFrom, m
  <2> QED
    BY <1>3, <2>1, <2>2 DEF m
<1> QED
  BY <1>4, <1>5

LEMMA CentralRxDisabledKeeps ==
  ASSUME IInv, CentralRxDisabled, TypeInv'
  PROVE  IInv'
<1>0. /\ TypeOK /\ PendingInv
      /\ BothUp => Agrees(Central) /\ Agrees(Peripheral)
      /\ TransferFrom(Central) /\ TransferFrom(Peripheral)
      /\ InOrderFrom(Central) /\ InOrderFrom(Peripheral)
  BY IInvFacts
<1>1. /\ FinishEvent(Central) /\ air' = Silence /\ connected[Central]
      /\ air.src = Peripheral
      /\ UNCHANGED <<connected, txSn, rxSn, txUnacked, lastTx, rxBody, sent>>
  BY NodeFacts DEF CentralRxDisabled, Hears, sequencing, staging
<1>2. /\ ~rxPending'[Central] /\ rxPending'[Peripheral] = rxPending[Peripheral]
      /\ phase'[Peripheral] = phase[Peripheral]
  BY <1>0, <1>1, FinishRcvd, NodeFacts DEF TypeOK
<1>3. AirInv' /\ PendingInv' /\ PrestageInv'
  BY <1>0, <1>1, <1>2, NodeFacts DEF AirInv, PendingInv, PrestageInv, Hears
<1>4. SequenceInv'
  BY <1>0, <1>1, NodeFacts DEF SequenceInv, Agrees, BothUp
<1>5. /\ TransferFrom(Central)' /\ TransferFrom(Peripheral)'
      /\ InOrderFrom(Central)' /\ InOrderFrom(Peripheral)'
  BY <1>0, <1>1, FinishTransfer, NodeFacts
<1> QED
  BY <1>3, <1>4, <1>5, NodeFacts DEF IInv, TransferInv, InOrderExactlyOnce

(* TIMER0 and radio events at the peripheral.                               *)
LEMMA PeripheralStartKeeps ==
  ASSUME IInv, PeripheralStartEvent, TypeInv'
  PROVE  IInv'
<1>0. /\ TypeOK /\ AirInv /\ PendingInv
      /\ BothUp => Agrees(Central) /\ Agrees(Peripheral)
      /\ TransferFrom(Central) /\ TransferFrom(Peripheral)
      /\ InOrderFrom(Central) /\ InOrderFrom(Peripheral)
  BY IInvFacts
<1>1. /\ air = Silence /\ air' = Silence /\ phase[Peripheral] # "WAIT_TX"
      /\ UNCHANGED <<connected, txSn, rxSn, txUnacked, lastTx, sent, rcvd>>
      /\ rxBody'[Central] = rxBody[Central]
      /\ rxPending' = [rxPending EXCEPT ![Peripheral] = FALSE]
  BY <1>0, NodeFacts DEF PeripheralStartEvent, ClearReception, TypeOK, sequencing, history
<1>2. ~rxPending[Central] /\ ~rxPending[Peripheral]
  BY <1>0, <1>1, NodeFacts DEF PendingInv, Hears
<1>3. rxPending' = rxPending
  BY <1>0, <1>1, <1>2, NodeFacts DEF TypeOK
<1>4. AirInv' /\ PendingInv' /\ PrestageInv'
  BY <1>1, <1>2, <1>3, NodeFacts DEF AirInv, PendingInv, PrestageInv, Hears
<1>5. SequenceInv'
  BY <1>0, <1>1, NodeFacts DEF SequenceInv, Agrees, BothUp
<1>6. TransferFrom(Central)' /\ TransferFrom(Peripheral)'
  BY <1>0, <1>1, <1>2, <1>3, NodeFacts DEF TransferFrom, Outstanding, BothUp
<1>7. InOrderExactlyOnce'
  BY <1>0, <1>1, NodeFacts DEF InOrderExactlyOnce, InOrderFrom
<1> QED
  BY <1>4, <1>5, <1>6, <1>7, NodeFacts DEF IInv, TransferInv

LEMMA PeripheralBcmatchKeeps ==
  ASSUME IInv, NEW ok \in BOOLEAN, PeripheralBcmatch(ok), TypeInv'
  PROVE  IInv'
<1>0. /\ TypeOK /\ AirInv /\ PendingInv
      /\ BothUp => Agrees(Central) /\ Agrees(Peripheral)
      /\ TransferFrom(Central) /\ TransferFrom(Peripheral)
      /\ InOrderFrom(Central) /\ InOrderFrom(Peripheral)
  BY IInvFacts
<1>1. air \in AirPdu
  BY <1>0, NodeFacts, HearsType DEF PeripheralBcmatch
<1>2. /\ connected[Peripheral] /\ phase[Peripheral] = "WAIT_RX"
      /\ air.src = Central /\ air.at = "start" /\ air # Silence
      /\ air'.src = Central /\ air'.at = "header" /\ air'.pdu = air.pdu /\ air'.ok = ok
      /\ UNCHANGED <<connected, txSn, rxSn, txUnacked, lastTx, rxBody, rxPending,
                     phase, sent, rcvd>>
  BY <1>1, NodeFacts
     DEF PeripheralBcmatch, Hears, AirPdu, sequencing, receiving, history
<1>3. /\ connected[Central] /\ BothUp /\ air.pdu = lastTx[Central] /\ txUnacked[Central]
      /\ ~rxPending[Central] /\ ~rxPending[Peripheral]
  BY <1>0, <1>2, NodeFacts DEF AirInv, PendingInv, Hears, BothUp
<1>4. AirInv' /\ PendingInv'
  BY <1>0, <1>2, <1>3, NodeFacts DEF AirInv, PendingInv, Hears
<1>5. SequenceInv'
  BY <1>0, <1>2, NodeFacts DEF SequenceInv, Agrees, BothUp
<1>6. TransferFrom(Central)' /\ TransferFrom(Peripheral)'
  BY <1>0, <1>2, NodeFacts DEF TransferFrom, Outstanding, BothUp
<1>7. InOrderExactlyOnce'
  BY <1>0, <1>2, NodeFacts DEF InOrderExactlyOnce, InOrderFrom
<1>8. PrestageInv'
  <2>1. SUFFICES ASSUME ok PROVE PrestageInv'
    BY <1>2 DEF PrestageInv
  <2>2. PrestageFromHeader(air.pdu)
    BY <2>1 DEF PeripheralBcmatch
  <2> DEFINE acked == Acks(Peripheral, air.pdu)
             isNew == IsNewTo(Peripheral, air.pdu)
             nesn == AnswerNesn(Peripheral, air.pdu)
             sn == AnswerSn(Peripheral, air.pdu)
  <2>3. /\ acked' <=> acked
        /\ isNew' <=> isNew
        /\ nesn' = nesn /\ sn' = sn
    BY <1>2 DEF Acks, IsNewTo, AnswerNesn, AnswerSn
  <2>4. acked \in BOOLEAN /\ isNew \in BOOLEAN
    BY <1>0, NodeFacts DEF Acks, IsNewTo, TypeOK
  <2>5. bcmatch' = [txAcked |-> acked, isNew |-> isNew]
    BY <2>2 DEF PrestageFromHeader
  <2>6. nesn \in Bit /\ sn \in Bit
    BY <1>0, NodeFacts, BitFacts DEF AnswerNesn, AnswerSn, TypeOK
  <2>7. acked \/ ~txUnacked[Peripheral] =>
          connTx'[Peripheral].sn = sn /\ connTx'[Peripheral].nesn = nesn
    <3>1. SUFFICES ASSUME acked \/ ~txUnacked[Peripheral]
                   PROVE  connTx'[Peripheral].sn = sn /\ connTx'[Peripheral].nesn = nesn
      OBVIOUS
    <3>2. connTx' = [connTx EXCEPT ![Peripheral] = LoadedPdu(Peripheral, nesn, sn)]
      BY <2>2, <3>1 DEF PrestageFromHeader
    <3>3. connTx'[Peripheral] = LoadedPdu(Peripheral, nesn, sn)
      BY <1>0, <3>2, NodeFacts DEF TypeOK
    <3> QED
      BY <1>0, <2>6, <3>3, LoadedType, NodeFacts
  <2>8. isNew => sent[Central] = Plus(rcvd[Peripheral], air.pdu.body)
    BY <1>0, <1>3, NodeFacts DEF IsNewTo, TransferFrom, Outstanding, Agrees
  <2> HIDE DEF acked, isNew, nesn, sn
  <2>9. bcmatch'.txAcked <=> acked
    BY <2>5
  <2>10. /\ Acks(Peripheral, air.pdu)' = acked /\ IsNewTo(Peripheral, air.pdu)' = isNew
         /\ AnswerSn(Peripheral, air.pdu)' = sn /\ AnswerNesn(Peripheral, air.pdu)' = nesn
    BY <2>3, <1>2 DEF acked, isNew, nesn, sn, Acks, IsNewTo, AnswerNesn, AnswerSn
  <2> QED
    BY <1>2, <2>5, <2>7, <2>8, <2>9, <2>10 DEF PrestageInv
<1> QED
  BY <1>4, <1>5, <1>6, <1>7, <1>8, NodeFacts DEF IInv, TransferInv

LEMMA PeripheralRxDisabledKeeps ==
  ASSUME IInv, PeripheralRxDisabled, TypeInv'
  PROVE  IInv'
<1>0. /\ TypeOK /\ AirInv /\ PendingInv
      /\ BothUp => Agrees(Central) /\ Agrees(Peripheral)
      /\ TransferFrom(Central) /\ TransferFrom(Peripheral)
      /\ InOrderFrom(Central) /\ InOrderFrom(Peripheral)
  BY IInvFacts
<1>1. /\ connected[Peripheral] /\ Hears(Peripheral, "done") /\ air.src = Central
      /\ phase'[Peripheral] = "WAIT_TX"
      /\ air' = [src |-> Peripheral, pdu |-> lastTx[Peripheral], at |-> "start", ok |-> TRUE]
      /\ UNCHANGED <<connected, txSn, rxSn, txUnacked, lastTx, rxBody, rxPending,
                     sent, rcvd>>
  BY <1>0, NodeFacts
     DEF PeripheralRxDisabled, Hears, TypeOK, sequencing, staging, receiving, history
<1>2. txUnacked[Peripheral] /\ ~rxPending[Central]
  BY <1>0, <1>1, NodeFacts DEF AirInv, PendingInv, Hears
<1>3. AirInv' /\ PendingInv' /\ PrestageInv'
  BY <1>0, <1>1, <1>2, NodeFacts DEF AirInv, PendingInv, PrestageInv, Hears
<1>4. SequenceInv'
  BY <1>0, <1>1, NodeFacts DEF SequenceInv, Agrees, BothUp
<1>5. TransferFrom(Central)' /\ TransferFrom(Peripheral)'
  BY <1>0, <1>1, NodeFacts DEF TransferFrom, Outstanding, BothUp
<1>6. InOrderExactlyOnce'
  BY <1>0, <1>1, NodeFacts DEF InOrderExactlyOnce, InOrderFrom
<1> QED
  BY <1>3, <1>4, <1>5, <1>6, NodeFacts DEF IInv, TransferInv

LEMMA PeripheralTxDisabledKeeps ==
  ASSUME IInv, PeripheralTxDisabled, TypeInv'
  PROVE  IInv'
<1>0. /\ TypeOK /\ SelectionInv /\ AirInv /\ PendingInv
      /\ BothUp => Agrees(Central) /\ Agrees(Peripheral)
      /\ TransferFrom(Central) /\ TransferFrom(Peripheral)
      /\ InOrderFrom(Central) /\ InOrderFrom(Peripheral)
  BY IInvFacts
<1>1. /\ FinishEvent(Peripheral) /\ connected[Peripheral] /\ phase[Peripheral] = "WAIT_TX"
      /\ UNCHANGED <<connected, txSn, rxSn, txUnacked, lastTx, rxBody, sent, air>>
  BY DEF PeripheralTxDisabled, sequencing
<1>2. ~rxPending'[Peripheral] /\ rxPending'[Central] = rxPending[Central]
  BY <1>0, <1>1, FinishRcvd, NodeFacts DEF TypeOK
<1>3. ~Hears(Peripheral, "header")
  BY <1>0, <1>1 DEF SelectionInv
<1>4. AirInv' /\ PendingInv' /\ PrestageInv'
  BY <1>0, <1>1, <1>2, <1>3, NodeFacts DEF AirInv, PendingInv, PrestageInv, Hears
<1>5. SequenceInv'
  BY <1>0, <1>1, NodeFacts DEF SequenceInv, Agrees, BothUp
<1>6. /\ TransferFrom(Central)' /\ TransferFrom(Peripheral)'
      /\ InOrderFrom(Central)' /\ InOrderFrom(Peripheral)'
  BY <1>0, <1>1, FinishTransfer, NodeFacts
<1> QED
  BY <1>4, <1>5, <1>6, NodeFacts DEF IInv, TransferInv, InOrderExactlyOnce

(* Putting one more PDU into transmission keeps the order.                  *)
LEMMA StageInOrder ==
  ASSUME TypeOK, NEW n \in Node, NEW b \in Body, InOrderFrom(n),
         UNCHANGED <<connected, rcvd>>,
         sent'[n] = Plus(sent[n], b),
         connected[Peer(n)] => sent[n] = rcvd[Peer(n)]
  PROVE  InOrderFrom(n)'
<1> DEFINE m == Peer(n)
<1>1. m \in Node /\ sent[n] \in Seq(Body) /\ rcvd[m] \in Seq(Body)
  BY NodeFacts DEF TypeOK
<1>2. CASE connected[m]
  <2>1. Follows(rcvd[m], Plus(rcvd[m], b)) /\ Len(Plus(rcvd[m], b)) <= Len(rcvd[m]) + 1
    BY <1>1, PlusFollows
  <2> QED
    BY <1>2, <2>1 DEF InOrderFrom
<1>3. CASE ~connected[m]
  <2>1. Follows(rcvd[m], Plus(sent[n], b))
    BY <1>1, FollowsGrows DEF InOrderFrom
  <2> QED
    BY <1>3, <2>1 DEF InOrderFrom
<1> QED
  BY <1>2, <1>3

LEMMA PeripheralCrcOkKeeps ==
  ASSUME IInv, PeripheralCrcOk, TypeInv'
  PROVE  IInv'
<1> DEFINE acked == Acks(Peripheral, air.pdu)
           isNew == IsNewTo(Peripheral, air.pdu)
           stage == acked \/ ~txUnacked[Peripheral]
           pdu == connTx[Peripheral]
<1>0. /\ TypeOK /\ AirInv /\ PendingInv /\ PrestageInv
      /\ BothUp => Agrees(Central) /\ Agrees(Peripheral)
      /\ TransferFrom(Central) /\ TransferFrom(Peripheral)
      /\ InOrderFrom(Central) /\ InOrderFrom(Peripheral)
  BY IInvFacts
<1>1. air \in AirPdu
  BY <1>0, NodeFacts, HearsType DEF PeripheralCrcOk
<1>2. /\ connected[Peripheral] /\ phase[Peripheral] = "WAIT_RX"
      /\ air.src = Central /\ air.at = "header" /\ air.ok /\ air # Silence
      /\ air'.src = Central /\ air'.at = "done" /\ air'.pdu = air.pdu
      /\ UNCHANGED <<connected, rcvd, phase>>
  BY <1>1, NodeFacts DEF PeripheralCrcOk, Hears, AirPdu
<1>3. /\ bcmatch.txAcked = acked /\ bcmatch.isNew = isNew
      /\ stage => /\ pdu.sn = AnswerSn(Peripheral, air.pdu)
                  /\ pdu.nesn = AnswerNesn(Peripheral, air.pdu)
      /\ isNew => sent[Central] = Plus(rcvd[Peripheral], air.pdu.body)
  BY <1>0, <1>2, NodeFacts DEF PrestageInv, Hears
<1>4. /\ txSn'[Peripheral] = (IF acked THEN Flip(txSn[Peripheral]) ELSE txSn[Peripheral])
      /\ txSn'[Central] = txSn[Central]
      /\ rxSn'[Peripheral] = (IF isNew THEN Flip(rxSn[Peripheral]) ELSE rxSn[Peripheral])
      /\ rxSn'[Central] = rxSn[Central]
      /\ rxPending'[Peripheral] = isNew /\ rxPending'[Central] = rxPending[Central]
      /\ rxBody'[Peripheral] = air.pdu.body /\ rxBody'[Central] = rxBody[Central]
  BY <1>0, <1>3, NodeFacts DEF PeripheralCrcOk, TypeOK
<1>5. /\ stage => /\ sent'[Peripheral] = Plus(sent[Peripheral], pdu.body)
                  /\ lastTx'[Peripheral] = pdu
      /\ ~stage => /\ sent'[Peripheral] = sent[Peripheral]
                   /\ lastTx'[Peripheral] = lastTx[Peripheral]
      /\ txUnacked'[Peripheral]
      /\ sent'[Central] = sent[Central] /\ lastTx'[Central] = lastTx[Central]
      /\ txUnacked'[Central] = txUnacked[Central]
  <2>0. /\ sent \in [Node -> Seq(Body)] /\ lastTx \in [Node -> Pdu] /\ pdu \in Pdu
        /\ txUnacked \in [Node -> BOOLEAN]
    BY <1>0, NodeFacts DEF TypeOK
  <2>1. CASE stage
    <3>1. StageNew(Peripheral, pdu, source[Peripheral])
      BY <1>3, <2>1 DEF PeripheralCrcOk
    <3>2. /\ sent' = [sent EXCEPT ![Peripheral] = Plus(@, pdu.body)]
          /\ lastTx' = [lastTx EXCEPT ![Peripheral] = pdu]
          /\ txUnacked' = [txUnacked EXCEPT ![Peripheral] = TRUE]
      BY <1>0, <2>0, <3>1, StageSent, NodeFacts
    <3> HIDE DEF pdu
    <3> QED
      BY <2>0, <2>1, <3>2, NodeFacts
  <2>2. CASE ~stage
    BY <1>3, <2>2 DEF PeripheralCrcOk
  <2> QED
    BY <2>1, <2>2
<1>6. ~rxPending[Central] /\ ~rxPending[Peripheral]
  BY <1>0, <1>2, NodeFacts DEF PendingInv, Hears
<1>7. AirInv' /\ PendingInv' /\ PrestageInv'
  BY <1>0, <1>2, <1>4, <1>5, <1>6, NodeFacts DEF AirInv, PendingInv, PrestageInv, Hears
<1>8. BothUp => /\ Agrees(Central) /\ Agrees(Peripheral)
                /\ air.pdu = lastTx[Central] /\ txUnacked[Central]
                /\ air.pdu.sn = txSn[Central]
  BY <1>0, <1>2, NodeFacts DEF AirInv, BothUp, Agrees
<1>9. /\ \A n \in Node : rxSn[n] \in Bit /\ txSn[n] \in Bit
      /\ air.pdu.nesn \in Bit
  BY <1>0, <1>1 DEF TypeOK, AirPdu, Pdu
<1>10. /\ acked => txUnacked[Peripheral] /\ air.pdu.nesn # txSn[Peripheral]
       /\ acked => txSn'[Peripheral] = air.pdu.nesn
       /\ ~acked => txSn'[Peripheral] = txSn[Peripheral]
       /\ stage => pdu.sn = txSn'[Peripheral] /\ pdu.nesn = rxSn'[Peripheral]
  BY <1>3, <1>4, <1>9, NodeFacts, BitFacts DEF Acks, AnswerSn, AnswerNesn
<1>11. BothUp => /\ acked => rxSn[Central] # txSn[Peripheral]
                               /\ rxSn[Central] = txSn'[Peripheral]
                 /\ isNew <=> rxSn[Peripheral] = txSn[Central]
                 /\ isNew => rxSn'[Peripheral] # txSn[Central]
                 /\ ~isNew => rxSn'[Peripheral] = rxSn[Peripheral]
                 /\ ~stage => txUnacked[Peripheral] /\ air.pdu.nesn = txSn[Peripheral]
                 /\ ~txUnacked[Peripheral] => air.pdu.nesn = txSn[Peripheral]
                                              /\ rxSn[Central] = txSn[Peripheral]
  BY <1>4, <1>8, <1>9, <1>10, NodeFacts, BitFacts DEF Acks, IsNewTo, Agrees
<1> HIDE DEF acked, isNew, pdu
<1>12. BothUp => Agrees(Central)'
  <2>1. SUFFICES ASSUME BothUp PROVE Agrees(Central)'
    OBVIOUS
  <2>2. lastTx'[Central].nesn = txSn'[Peripheral]
          \/ (~acked /\ txUnacked[Peripheral] /\ txSn'[Peripheral] = txSn[Peripheral])
    BY <1>5, <1>8, <1>10, <1>11, <2>1
  <2> QED
    BY <1>4, <1>5, <1>8, <2>1, <2>2, NodeFacts DEF Agrees
<1>13. BothUp => Agrees(Peripheral)'
  <2>1. SUFFICES ASSUME BothUp PROVE Agrees(Peripheral)'
    OBVIOUS
  <2>2. lastTx'[Peripheral].sn = txSn'[Peripheral]
    BY <1>5, <1>8, <1>10, <1>11, <2>1, NodeFacts DEF Agrees
  <2>3. lastTx'[Peripheral].nesn # txSn'[Central] =>
          txUnacked'[Central] /\ rxSn'[Peripheral] # txSn'[Central]
    BY <1>4, <1>5, <1>8, <1>10, <1>11, <2>1, NodeFacts DEF Agrees
  <2> QED
    BY <1>5, <2>2, <2>3, NodeFacts DEF Agrees
<1>14. SequenceInv'
  BY <1>2, <1>12, <1>13, NodeFacts DEF SequenceInv, BothUp
<1>15. TransferFrom(Central)'
  <2>1. BothUp => sent[Central] = IF isNew THEN Plus(rcvd[Peripheral], air.pdu.body)
                                  ELSE rcvd[Peripheral]
    BY <1>0, <1>6, <1>8, <1>11, NodeFacts DEF TransferFrom, Outstanding
  <2>2. BothUp => ~Outstanding(Central)'
    BY <1>4, <1>11, NodeFacts DEF Outstanding
  <2> QED
    BY <1>2, <1>3, <1>4, <1>5, <2>1, <2>2, NodeFacts DEF TransferFrom, BothUp
<1>16. BothUp /\ stage => sent[Peripheral] = rcvd[Central] /\ rxSn[Central] = txSn'[Peripheral]
  <2>1. SUFFICES ASSUME BothUp, stage
                 PROVE  sent[Peripheral] = rcvd[Central] /\ rxSn[Central] = txSn'[Peripheral]
    OBVIOUS
  <2>2. ~Outstanding(Peripheral) /\ rxSn[Central] = txSn'[Peripheral]
    BY <1>10, <1>11, <2>1, NodeFacts DEF Outstanding
  <2> QED
    BY <1>0, <1>6, <2>1, <2>2, NodeFacts DEF TransferFrom
<1>17. TransferFrom(Peripheral)'
  <2>1. CASE stage
    BY <1>2, <1>4, <1>5, <1>6, <1>16, <2>1, NodeFacts DEF TransferFrom, Outstanding, BothUp
  <2>2. CASE ~stage
    <3>1. ~acked /\ txUnacked[Peripheral]
      BY <2>2
    <3>2. Outstanding(Peripheral)' <=> Outstanding(Peripheral)
      BY <1>4, <1>5, <3>1, NodeFacts DEF Outstanding
    <3> QED
      BY <1>0, <1>2, <1>4, <1>5, <1>6, <2>2, <3>2, NodeFacts DEF TransferFrom, BothUp
  <2> QED
    BY <2>1, <2>2
<1>18. InOrderFrom(Central)'
  BY <1>0, <1>2, <1>5, NodeFacts DEF InOrderFrom
<1>19. InOrderFrom(Peripheral)'
  <2>1. CASE stage
    <3>1. pdu.body \in Body
      BY <1>0, NodeFacts DEF TypeOK, Pdu, pdu
    <3>2. connected[Central] => sent[Peripheral] = rcvd[Central]
      BY <1>2, <1>16, <2>1 DEF BothUp
    <3> QED
      BY <1>0, <1>2, <1>5, <2>1, <3>1, <3>2, StageInOrder, NodeFacts
  <2>2. CASE ~stage
    BY <1>0, <1>2, <1>5, <2>2, NodeFacts DEF InOrderFrom
  <2> QED
    BY <2>1, <2>2
<1> QED
  BY <1>7, <1>14, <1>15, <1>17, <1>18, <1>19, NodeFacts
     DEF IInv, TransferInv, InOrderExactlyOnce

LEMMA PeripheralCrcErrorKeeps ==
  ASSUME IInv, PeripheralCrcError, TypeInv'
  PROVE  IInv'
<1> DEFINE pdu == EmptyPdu(rxSn[Peripheral], txSn[Peripheral])
<1>0. /\ TypeOK /\ AirInv /\ PendingInv
      /\ BothUp => Agrees(Central) /\ Agrees(Peripheral)
      /\ TransferFrom(Central) /\ TransferFrom(Peripheral)
      /\ InOrderFrom(Central) /\ InOrderFrom(Peripheral)
  BY IInvFacts
<1>1. air \in AirPdu
  BY <1>0, NodeFacts, HearsType DEF PeripheralCrcError
<1>2. /\ connected[Peripheral] /\ phase[Peripheral] = "WAIT_RX"
      /\ air.src = Central /\ air.at = "header" /\ air # Silence
      /\ air'.src = Central /\ air'.at = "done" /\ air'.pdu = air.pdu
      /\ UNCHANGED <<connected, txSn, rxSn, rxBody, rcvd, phase>>
      /\ rxPending' = [rxPending EXCEPT ![Peripheral] = FALSE]
  BY <1>1, NodeFacts DEF PeripheralCrcError, Hears, AirPdu
<1>3. ~rxPending[Central] /\ ~rxPending[Peripheral]
  BY <1>0, <1>2, NodeFacts DEF PendingInv, Hears
<1>4. rxPending' = rxPending
  BY <1>0, <1>2, <1>3, NodeFacts DEF TypeOK
<1>5. /\ pdu \in Pdu /\ pdu.body = EmptyBody
      /\ pdu.sn = txSn[Peripheral] /\ pdu.nesn = rxSn[Peripheral]
  BY <1>0, NodeFacts DEF TypeOK, EmptyPdu, Pdu, Body
<1>6. /\ sent' = sent
      /\ lastTx'[Central] = lastTx[Central] /\ txUnacked'[Central] = txUnacked[Central]
      /\ txUnacked'[Peripheral]
      /\ lastTx'[Peripheral] = (IF txUnacked[Peripheral] THEN lastTx[Peripheral] ELSE pdu)
  <2>0. /\ lastTx \in [Node -> Pdu] /\ txUnacked \in [Node -> BOOLEAN]
    BY <1>0, NodeFacts DEF TypeOK
  <2>1. CASE txUnacked[Peripheral]
    BY <2>0, <2>1 DEF PeripheralCrcError
  <2>2. CASE ~txUnacked[Peripheral]
    <3>1. StageNew(Peripheral, pdu, "NONE")
      BY <2>2 DEF PeripheralCrcError
    <3>2. /\ sent' = sent
          /\ lastTx' = [lastTx EXCEPT ![Peripheral] = pdu]
          /\ txUnacked' = [txUnacked EXCEPT ![Peripheral] = TRUE]
      BY <1>5, <3>1 DEF StageNew
    <3> HIDE DEF pdu
    <3> QED
      BY <2>0, <2>2, <3>2, NodeFacts
  <2> QED
    BY <2>1, <2>2
<1> HIDE DEF pdu
<1>7. AirInv' /\ PendingInv' /\ PrestageInv'
  BY <1>0, <1>2, <1>3, <1>4, <1>6, NodeFacts DEF AirInv, PendingInv, PrestageInv, Hears
<1>8. BothUp => Agrees(Central) /\ Agrees(Peripheral) /\ txUnacked[Central]
  BY <1>0, <1>2, NodeFacts DEF AirInv, BothUp
<1>9. BothUp => Agrees(Central)' /\ Agrees(Peripheral)'
  <2>1. SUFFICES ASSUME BothUp PROVE Agrees(Central)' /\ Agrees(Peripheral)'
    OBVIOUS
  <2>2. Agrees(Central)'
    BY <1>2, <1>6, <1>8, <2>1, NodeFacts DEF Agrees
  <2>3. Agrees(Peripheral)'
    BY <1>2, <1>5, <1>6, <1>8, <2>1, NodeFacts DEF Agrees
  <2> QED
    BY <2>2, <2>3
<1>10. SequenceInv'
  BY <1>2, <1>9, NodeFacts DEF SequenceInv, BothUp
<1>11. TransferFrom(Central)'
  BY <1>0, <1>2, <1>4, <1>6, NodeFacts DEF TransferFrom, Outstanding, BothUp
<1>12. TransferFrom(Peripheral)'
  <2>1. CASE txUnacked[Peripheral]
    BY <1>0, <1>2, <1>4, <1>6, <2>1, NodeFacts DEF TransferFrom, Outstanding, BothUp
  <2>2. CASE ~txUnacked[Peripheral]
    <3>1. BothUp => sent[Peripheral] = rcvd[Central]
      BY <1>0, <1>3, <2>2, NodeFacts DEF TransferFrom, Outstanding
    <3>2. Plus(rcvd[Central], lastTx'[Peripheral].body) = rcvd[Central]
      BY <1>5, <1>6, <2>2 DEF Plus
    <3> QED
      BY <1>2, <1>3, <1>4, <1>6, <3>1, <3>2, NodeFacts DEF TransferFrom, BothUp
  <2> QED
    BY <2>1, <2>2
<1>13. InOrderExactlyOnce'
  BY <1>0, <1>2, <1>6, NodeFacts DEF InOrderExactlyOnce, InOrderFrom
<1> QED
  BY <1>7, <1>10, <1>11, <1>12, <1>13, NodeFacts DEF IInv, TransferInv

(* The environment.                                                         *)
LEMMA LoseKeeps ==
  ASSUME IInv, Lose, TypeInv'
  PROVE  IInv'
<1>0. /\ TypeOK /\ AirInv /\ PendingInv
      /\ BothUp => Agrees(Central) /\ Agrees(Peripheral)
      /\ TransferFrom(Central) /\ TransferFrom(Peripheral)
      /\ InOrderFrom(Central) /\ InOrderFrom(Peripheral)
  BY IInvFacts
<1>1. /\ air.at = "start" /\ air' = Silence
      /\ UNCHANGED <<connected, txSn, rxSn, txUnacked, lastTx, rxBody, rxPending,
                     phase, sent, rcvd>>
  BY DEF Lose, sequencing, staging, receiving, history
<1>2. AirInv' /\ PendingInv' /\ PrestageInv'
  BY <1>0, <1>1, NodeFacts DEF AirInv, PendingInv, PrestageInv, Hears
<1>3. SequenceInv'
  BY <1>0, <1>1, NodeFacts DEF SequenceInv, Agrees, BothUp
<1>4. TransferFrom(Central)' /\ TransferFrom(Peripheral)'
  BY <1>0, <1>1, NodeFacts DEF TransferFrom, Outstanding, BothUp
<1>5. InOrderExactlyOnce'
  BY <1>0, <1>1, NodeFacts DEF InOrderExactlyOnce, InOrderFrom
<1> QED
  BY <1>2, <1>3, <1>4, <1>5, NodeFacts DEF IInv, TransferInv

LEMMA DisconnectKeeps ==
  ASSUME IInv, NEW n \in Node, Disconnect(n), TypeInv'
  PROVE  IInv'
<1> DEFINE m == Peer(n)
<1>0. /\ TypeOK /\ AirInv /\ PendingInv /\ PrestageInv
      /\ TransferFrom(n) /\ TransferFrom(m) /\ InOrderFrom(n) /\ InOrderFrom(m)
      /\ m \in Node /\ m # n /\ Peer(m) = n
  BY IInvFacts, NodeFacts
<1>1. /\ ~connected'[n] /\ connected'[m] = connected[m]
      /\ txUnacked'[m] = txUnacked[m] /\ phase'[m] = phase[m]
      /\ ~rxPending'[n] /\ rxPending'[m] = rxPending[m]
      /\ UNCHANGED <<txSn, rxSn, connTx, lastTx, bcmatch, rxBody, sent, rcvd>>
      /\ air' = IF air # Silence /\ (air.src = n <=> air.at = "start") THEN Silence ELSE air
  BY <1>0 DEF Disconnect, TypeOK, history
<1>2. ~BothUp'
  BY <1>1, NodeFacts DEF BothUp
<1>3. SequenceInv'
  BY <1>2 DEF SequenceInv
<1>4. air # Silence => air.src \in Node
  BY <1>0 DEF TypeOK, AirPdu
<1>5. AirInv' /\ PendingInv' /\ PrestageInv'
  <2>1. CASE n = Central
    BY <1>0, <1>1, <1>4, <2>1, NodeFacts
       DEF AirInv, PendingInv, PrestageInv, Hears, Acks, IsNewTo, AnswerSn, AnswerNesn
  <2>2. CASE n = Peripheral
    BY <1>0, <1>1, <1>4, <2>2, NodeFacts DEF AirInv, PendingInv, PrestageInv, Hears
  <2> QED
    BY <2>1, <2>2, NodeFacts
<1>6. TransferFrom(n)' /\ TransferFrom(m)'
  BY <1>0, <1>1, <1>2 DEF TransferFrom
<1>7. InOrderFrom(n)' /\ InOrderFrom(m)'
  BY <1>0, <1>1 DEF InOrderFrom
<1> QED
  BY <1>3, <1>5, <1>6, <1>7, NodeFacts DEF IInv, TransferInv, InOrderExactlyOnce

LEMMA NextIInv == IInv /\ [Next]_vars => IInv'
<1> SUFFICES ASSUME IInv, [Next]_vars PROVE IInv'
  OBVIOUS
<1>1. TypeInv'
  BY NextType DEF IInv
<1>2. TypeOK
  BY IInvFacts
<1>3. ASSUME NEW n \in Node, AppQueuesL2cap(n) PROVE IInv'
  BY <1>1, <1>3, QuietStep DEF AppQueuesL2cap, sequencing, staging, receiving
<1>4. ASSUME NEW op \in Requests, AppStartsProcedure(op) PROVE IInv'
  BY <1>1, <1>4, QuietStep DEF AppStartsProcedure, sequencing, staging, receiving
<1>5. CASE UNCHANGED vars
  BY <1>1, <1>5, QuietStep DEF vars, sequencing, staging, receiving, history
<1> QED
  BY <1>1, <1>3, <1>4, <1>5, DisconnectKeeps, CentralStartKeeps, CentralTxDisabledKeeps,
     CentralCrcOkKeeps, CentralCrcErrorKeeps, CentralRxDisabledKeeps, PeripheralStartKeeps,
     PeripheralBcmatchKeeps, PeripheralCrcOkKeeps, PeripheralCrcErrorKeeps,
     PeripheralRxDisabledKeeps, PeripheralTxDisabledKeeps, LoseKeeps
     DEF Next

(* Whatever packets are lost or corrupted, at either end and at any time,   *)
(* and however the application interleaves: the PDUs one end processes are   *)
(* those the other end put into transmission, in order, each once; and no   *)
(* PDU is put into transmission while the one before it is outstanding.      *)
THEOREM InOrder == Spec => []InOrderExactlyOnce
<1>1. IInv => InOrderExactlyOnce
  BY DEF IInv
<1> QED
  BY <1>1, InitIInv, NextIInv, PTL DEF Spec

(* The invariant the argument rests on, which the runs check too.           *)
THEOREM Inductive == Spec => []IInv
BY InitIInv, NextIInv, PTL DEF Spec
=============================================================================
