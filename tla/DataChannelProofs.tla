------------------------- MODULE DataChannelProofs -------------------------
(***************************************************************************)
(* Proofs about DataChannel, for every queue depth, every set of requests,  *)
(* every set of faults and every bound.                                     *)
(***************************************************************************)
EXTENDS DataChannelInv, TLAPS

(* Queueing an L2CAP payload or a control PDU keeps types and the depth.    *)
LEMMA QueueL2capType ==
  ASSUME TypeOK, NEW n \in Node, QueueL2capPayload(n)
  PROVE  /\ l2capQ' \in [Node -> Seq(Nat)] /\ submitted' \in [Node -> Nat]
         /\ \A k \in Node : Len(l2capQ'[k]) <= L2capQueueDepth
<1> USE DepthAssumption DEF TypeOK, QueueL2capPayload
<1>1. submitted[n] + 1 \in Nat /\ l2capQ[n] \in Seq(Nat)
  OBVIOUS
<1>2. /\ Append(l2capQ[n], submitted[n] + 1) \in Seq(Nat)
      /\ Len(Append(l2capQ[n], submitted[n] + 1)) = Len(l2capQ[n]) + 1
  BY <1>1
<1>3. l2capQ' = [l2capQ EXCEPT ![n] = Append(l2capQ[n], submitted[n] + 1)]
  OBVIOUS
<1>4. l2capQ' \in [Node -> Seq(Nat)] /\ submitted' \in [Node -> Nat]
  BY <1>1, <1>2, <1>3
<1>5. ASSUME NEW k \in Node PROVE Len(l2capQ'[k]) <= L2capQueueDepth
  <2>1. Len(l2capQ[n]) \in Nat /\ Len(l2capQ[n]) < L2capQueueDepth
    BY <1>1
  <2>2. CASE k = n
    BY <2>1, <2>2, <1>2, <1>3
  <2>3. CASE k # n
    BY <2>3, <1>3
  <2>4. QED
    BY <2>2, <2>3
<1> QED
  BY <1>4, <1>5

LEMMA QueueControlType ==
  ASSUME TypeOK, NEW n \in Node, NEW op \in Requests, QueueLlControlPayload(n, op)
  PROVE  ctrlSlot' \in [Node -> Opcodes \union {None}] /\ requests' \in Nat
<1>1. op \in Opcodes
  BY RequestsAssumption DEF Opcodes
<1> QED
  BY <1>1 DEF TypeOK, QueueLlControlPayload

(* Processing a received PDU keeps the types of what it writes.             *)
LEMMA ProcessType ==
  ASSUME TypeOK, NEW n \in Node, ProcessReceivedConnPdu(n)
  PROVE  /\ rspSlot' \in [Node -> Opcodes \union {None}]
         /\ ctrlSlot' \in [Node -> Opcodes \union {None}]
         /\ l2capQ' \in [Node -> Seq(Nat)]
         /\ \A k \in Node : Len(l2capQ'[k]) <= L2capQueueDepth
         /\ submitted' \in [Node -> Nat] /\ requests' \in Nat
         /\ rcvd' \in [Node -> Seq(Body)]
<1> USE DepthAssumption, BoundsAssumption, RequestsAssumption DEF TypeOK
<1>1. CASE UNCHANGED <<pendingTx, submitted, requests, rcvd>>
  BY <1>1 DEF pendingTx
<1>2. CASE /\ LlControlProcess(n, rxBody[n].op)
           /\ rcvd' = [rcvd EXCEPT ![n] = Append(@, rxBody[n])]
           /\ UNCHANGED <<l2capQ, submitted>>
  <2>1. PICK reply \in Replies(n, rxBody[n].op) :
          rspSlot' = IF reply # None /\ rspSlot[n] = None
                     THEN [rspSlot EXCEPT ![n] = reply] ELSE rspSlot
    BY <1>2 DEF LlControlProcess
  <2>2. reply \in Opcodes \union {None}
    BY <2>1 DEF Replies, Opcodes
  <2>3. ctrlSlot' \in [Node -> Opcodes \union {None}] /\ requests' \in Nat
    BY <1>2, QueueControlType DEF LlControlProcess
  <2>4. rspSlot' \in [Node -> Opcodes \union {None}]
    BY <2>1, <2>2
  <2>5. rcvd' \in [Node -> Seq(Body)]
    BY <1>2
  <2>6. QED
    BY <1>2, <2>3, <2>4, <2>5
<1>3. CASE /\ L2capProcess(n)
           /\ rcvd' = [rcvd EXCEPT ![n] = Append(@, rxBody[n])]
           /\ UNCHANGED <<rspSlot, ctrlSlot, requests>>
  <2>1. /\ l2capQ' \in [Node -> Seq(Nat)] /\ submitted' \in [Node -> Nat]
        /\ \A k \in Node : Len(l2capQ'[k]) <= L2capQueueDepth
    BY <1>3, QueueL2capType DEF L2capProcess
  <2>2. rcvd' \in [Node -> Seq(Body)]
    BY <1>3
  <2>3. QED
    BY <1>3, <2>1, <2>2
<1> QED
  BY <1>1, <1>2, <1>3 DEF ProcessReceivedConnPdu

(* A packet that is heard is a packet.                                      *)
LEMMA HearsType ==
  ASSUME TypeOK, NEW n \in Node, NEW at, Hears(n, at)
  PROVE  air \in AirPdu /\ air.pdu \in Pdu /\ air.at = at /\ air.src = Peer(n)
<1>1. Peer(n) \in Node /\ Peer(n) # None
  BY NodesAssumption DEF Node, Peer
<1>2. air # Silence
  BY <1>1 DEF Hears, Silence
<1> QED
  BY <1>2 DEF Hears, TypeOK, AirPdu

LEMMA BitFacts ==
  /\ 0 \in Bit /\ 1 \in Bit
  /\ \A b \in Bit : Flip(b) \in Bit /\ Flip(b) # b
  /\ \A b, c \in Bit : b # c => Flip(b) = c
BY DEF Bit, Flip

(* The PDU loaded for transmission is a PDU, from a source that has one.    *)
LEMMA LoadedType ==
  ASSUME TypeOK, NEW n \in Node, NEW nesn \in Bit, NEW sn \in Bit
  PROVE  /\ LoadedPdu(n, nesn, sn) \in Pdu
         /\ LoadedPdu(n, nesn, sn).body = BodyOf(n, PendingSource(n))
         /\ LoadedPdu(n, nesn, sn).sn = sn /\ LoadedPdu(n, nesn, sn).nesn = nesn
         /\ PendingSource(n) \in {"NONE", "RSP", "CTRL", "L2CAP"}
         /\ PendingSource(n) = "L2CAP" => l2capQ[n] # <<>>
<1>1. /\ PendingSource(n) = "RSP" => rspSlot[n] # None
      /\ PendingSource(n) = "CTRL" => ctrlSlot[n] # None
      /\ PendingSource(n) = "L2CAP" => l2capQ[n] # <<>>
      /\ PendingSource(n) \in {"NONE", "RSP", "CTRL", "L2CAP"}
  BY DEF PendingSource
<1>2. CASE PendingSource(n) = "RSP"
  <2>1. rspSlot[n] \in Opcodes
    BY <1>1, <1>2 DEF TypeOK
  <2>2. BodyOf(n, "RSP") \in CtrlBody
    BY <2>1 DEF BodyOf, CtrlBody
  <2> QED
    BY <1>1, <1>2, <2>2 DEF LoadedPdu, Pdu, Body
<1>3. CASE PendingSource(n) = "CTRL"
  <2>1. ctrlSlot[n] \in Opcodes
    BY <1>1, <1>3 DEF TypeOK
  <2>2. BodyOf(n, "CTRL") \in CtrlBody
    BY <2>1 DEF BodyOf, CtrlBody
  <2> QED
    BY <1>1, <1>3, <2>2 DEF LoadedPdu, Pdu, Body
<1>4. CASE PendingSource(n) = "L2CAP"
  <2>1. Head(l2capQ[n]) \in Nat
    BY <1>1, <1>4 DEF TypeOK
  <2>2. BodyOf(n, "L2CAP") \in L2capBody
    BY <2>1 DEF BodyOf, L2capBody
  <2> QED
    BY <1>1, <1>4, <2>2 DEF LoadedPdu, Pdu, Body
<1>5. CASE PendingSource(n) = "NONE"
  <2>1. BodyOf(n, "NONE") = EmptyBody
    BY DEF BodyOf
  <2> QED
    BY <1>1, <1>5, <2>1 DEF LoadedPdu, Pdu, Body
<1> QED
  BY <1>1, <1>2, <1>3, <1>4, <1>5

(* Staging a new PDU keeps the types of what it writes.                     *)
LEMMA StageType ==
  ASSUME TypeOK, NEW n \in Node, NEW pdu \in Pdu,
         NEW src \in {"NONE", "RSP", "CTRL", "L2CAP"},
         src = "L2CAP" => l2capQ[n] # <<>>,
         StageNew(n, pdu, src)
  PROVE  /\ lastTx' \in [Node -> Pdu] /\ txUnacked' \in [Node -> BOOLEAN]
         /\ rspSlot' \in [Node -> Opcodes \union {None}]
         /\ ctrlSlot' \in [Node -> Opcodes \union {None}]
         /\ l2capQ' \in [Node -> Seq(Nat)]
         /\ \A k \in Node : Len(l2capQ'[k]) <= L2capQueueDepth
         /\ sent' \in [Node -> Seq(Body)]
<1> USE DepthAssumption DEF TypeOK, StageNew, ConsumeSource
<1>1. /\ lastTx' \in [Node -> Pdu] /\ txUnacked' \in [Node -> BOOLEAN]
      /\ rspSlot' \in [Node -> Opcodes \union {None}]
      /\ ctrlSlot' \in [Node -> Opcodes \union {None}]
  OBVIOUS
<1>2. pdu.body \in Body
  BY DEF Pdu
<1>3. sent' \in [Node -> Seq(Body)]
  BY <1>2
<1>4. CASE src = "L2CAP"
  <2>1. l2capQ[n] \in Seq(Nat) /\ l2capQ[n] # <<>> /\ Len(l2capQ[n]) <= L2capQueueDepth
    BY <1>4
  <2>2. Tail(l2capQ[n]) \in Seq(Nat) /\ Len(Tail(l2capQ[n])) <= L2capQueueDepth
    BY <2>1
  <2>3. l2capQ' = [l2capQ EXCEPT ![n] = Tail(l2capQ[n])]
    BY <1>4
  <2>4. ASSUME NEW k \in Node PROVE Len(l2capQ'[k]) <= L2capQueueDepth
    BY <2>2, <2>3
  <2> QED
    BY <1>1, <1>3, <2>2, <2>3, <2>4
<1>5. CASE src # "L2CAP"
  BY <1>1, <1>3, <1>5
<1> QED
  BY <1>4, <1>5

LEMMA InitType == Init => TypeInv
<1> SUFFICES ASSUME Init PROVE TypeInv
  OBVIOUS
<1>1. EmptyPdu(0, 0) \in Pdu /\ EmptyBody \in Body
  BY BitFacts DEF EmptyPdu, Pdu, Body
<1>2. Silence.src # Central
  BY NodesAssumption DEF Silence
<1>3. TypeOK
  <2>1. \A n \in Node : Len(l2capQ[n]) <= L2capQueueDepth
    BY DepthAssumption DEF Init
  <2> QED
    BY <1>1, <2>1, BitFacts DEF Init, TypeOK, NoMatch
<1>4. SelectionInv
  BY <1>2, NodesAssumption DEF Init, SelectionInv, Hears, Peer
<1> QED
  BY <1>3, <1>4 DEF TypeInv

(* Each interrupt handler and each application call keeps TypeInv.          *)
LEMMA NextType == TypeInv /\ [Next]_vars => TypeInv'
<1> SUFFICES ASSUME TypeInv, [Next]_vars PROVE TypeInv'
  OBVIOUS
<1> USE DEF TypeInv, sequencing, staging, pendingTx, receiving, history
<1>0. /\ TypeOK /\ SelectionInv
      /\ Central \in Node /\ Peripheral \in Node
      /\ Peer(Central) = Peripheral /\ Peer(Peripheral) = Central
      /\ Central # Peripheral /\ EmptyBody \in Body /\ Silence.src = None
      /\ None # Central /\ None # Peripheral
  BY NodesAssumption DEF Node, Peer, Body, Silence
<1>a. ASSUME air' = Silence \/ air'.src # Central \/ air'.at # "header"
      PROVE  SelectionInv'
  BY <1>0, <1>a DEF SelectionInv, Hears, Silence
<1>1. ASSUME NEW n \in Node, AppQueuesL2cap(n) PROVE TypeInv'
  <2>1. /\ l2capQ' \in [Node -> Seq(Nat)] /\ submitted' \in [Node -> Nat]
        /\ \A k \in Node : Len(l2capQ'[k]) <= L2capQueueDepth
    BY <1>0, <1>1, QueueL2capType DEF AppQueuesL2cap
  <2>2. TypeOK'
    BY <1>0, <1>1, <2>1 DEF AppQueuesL2cap, TypeOK
  <2>3. l2capQ[Peripheral] # <<>> =>
          l2capQ'[Peripheral] # <<>> /\ Head(l2capQ'[Peripheral]) = Head(l2capQ[Peripheral])
    <3>1. l2capQ' = [l2capQ EXCEPT ![n] = Append(@, submitted[n] + 1)]
      BY <1>1 DEF AppQueuesL2cap, QueueL2capPayload
    <3>2. l2capQ[Peripheral] \in Seq(Nat) /\ submitted[Peripheral] + 1 \in Nat
      BY <1>0 DEF TypeOK
    <3>3. l2capQ'[Peripheral] = l2capQ[Peripheral]
            \/ l2capQ'[Peripheral] = Append(l2capQ[Peripheral], submitted[Peripheral] + 1)
      BY <1>0, <3>1 DEF TypeOK
    <3> QED
      BY <3>2, <3>3
  <2>4. SelectionInv'
    BY <1>0, <1>1, <2>3 DEF AppQueuesL2cap, SelectionInv, Hears, BodyOf
  <2> QED
    BY <2>2, <2>4
<1>2. ASSUME NEW op \in Requests, AppStartsProcedure(op) PROVE TypeInv'
  <2>1. ctrlSlot' \in [Node -> Opcodes \union {None}] /\ requests' \in Nat
    BY <1>0, <1>2, QueueControlType DEF AppStartsProcedure
  <2>2. TypeOK'
    BY <1>0, <1>2, <2>1 DEF AppStartsProcedure, TypeOK
  <2>3. ctrlSlot'[Peripheral] = ctrlSlot[Peripheral]
    BY <1>0, <1>2 DEF AppStartsProcedure, QueueLlControlPayload, TypeOK
  <2>4. SelectionInv'
    BY <1>0, <1>2, <2>3 DEF AppStartsProcedure, SelectionInv, Hears, BodyOf
  <2> QED
    BY <2>2, <2>4
<1>3. ASSUME NEW n \in Node, Disconnect(n) PROVE TypeInv'
  <2>1. air' \in AirPdu \union {Silence}
    BY <1>0, <1>3 DEF Disconnect, TypeOK
  <2>2. \A k \in Node : Len(l2capQ'[k]) <= L2capQueueDepth
    BY <1>0, <1>3, DepthAssumption DEF Disconnect, TypeOK
  <2>3. TypeOK'
    <3>1. /\ connected' \in [Node -> BOOLEAN] /\ txUnacked' \in [Node -> BOOLEAN]
          /\ rxPending' \in [Node -> BOOLEAN]
      BY <1>0, <1>3 DEF Disconnect, TypeOK
    <3>2. /\ rspSlot' \in [Node -> Opcodes \union {None}]
          /\ ctrlSlot' \in [Node -> Opcodes \union {None}]
      BY <1>0, <1>3 DEF Disconnect, TypeOK
    <3>3. /\ source' \in [Node -> {"NONE", "RSP", "CTRL", "L2CAP"}]
          /\ phase' \in [Node -> {"IDLE", "WAIT_RX", "WAIT_TX"}]
      BY <1>0, <1>3 DEF Disconnect, TypeOK
    <3>4. l2capQ' \in [Node -> Seq(Nat)]
      BY <1>0, <1>3 DEF Disconnect, TypeOK
    <3>5. UNCHANGED <<txSn, rxSn, connTx, lastTx, bcmatch, rxBody, history>>
      BY <1>3 DEF Disconnect
    <3> QED
      BY <1>0, <2>1, <2>2, <3>1, <3>2, <3>3, <3>4, <3>5 DEF TypeOK
  <2>4. CASE n = Peripheral
    <3>1. CASE air # Silence /\ air.src = Central /\ air.at = "header"
      <4>1. air' = Silence
        BY <1>0, <1>3, <2>4, <3>1 DEF Disconnect
      <4> QED
        BY <1>a, <2>3, <4>1
    <3>2. CASE ~(air # Silence /\ air.src = Central /\ air.at = "header")
      <4>1. air' = Silence \/ air' = air
        BY <1>3 DEF Disconnect
      <4> QED
        BY <1>a, <2>3, <3>2, <4>1
    <3> QED
      BY <3>1, <3>2
  <2>5. CASE n = Central
    <3>1. /\ l2capQ'[Peripheral] = l2capQ[Peripheral]
          /\ rspSlot'[Peripheral] = rspSlot[Peripheral]
          /\ ctrlSlot'[Peripheral] = ctrlSlot[Peripheral]
          /\ source'[Peripheral] = source[Peripheral]
          /\ txUnacked'[Peripheral] = txUnacked[Peripheral]
          /\ connTx' = connTx /\ bcmatch' = bcmatch
          /\ phase'[Peripheral] = phase[Peripheral]
          /\ air' = air \/ air' = Silence
      BY <1>0, <1>3, <2>5 DEF Disconnect, TypeOK
    <3> QED
      BY <1>0, <1>a, <2>3, <3>1 DEF SelectionInv, Hears, BodyOf
  <2> QED
    BY <2>3, <2>4, <2>5 DEF Node
<1>4. CASE CentralStartEvent
  <2>1. /\ air'.src = Central /\ air'.at = "start"
        /\ air' = [src |-> Central, pdu |-> lastTx'[Central], at |-> "start", ok |-> TRUE]
    BY <1>4 DEF CentralStartEvent
  <2>2. rxBody' \in [Node -> Body] /\ rxPending' \in [Node -> BOOLEAN]
        /\ phase' \in [Node -> {"IDLE", "WAIT_RX", "WAIT_TX"}]
    BY <1>0, <1>4 DEF CentralStartEvent, ClearReception, TypeOK
  <2>3. /\ connTx' \in [Node -> Pdu] /\ lastTx' \in [Node -> Pdu]
        /\ source' \in [Node -> {"NONE", "RSP", "CTRL", "L2CAP"}]
        /\ txUnacked' \in [Node -> BOOLEAN]
        /\ rspSlot' \in [Node -> Opcodes \union {None}]
        /\ ctrlSlot' \in [Node -> Opcodes \union {None}]
        /\ l2capQ' \in [Node -> Seq(Nat)]
        /\ \A k \in Node : Len(l2capQ'[k]) <= L2capQueueDepth
        /\ sent' \in [Node -> Seq(Body)]
    <3>1. CASE txUnacked[Central]
      BY <1>0, <1>4, <3>1 DEF CentralStartEvent, TypeOK
    <3>2. CASE ~txUnacked[Central]
      <4> DEFINE pdu == LoadedPdu(Central, rxSn[Central], txSn[Central])
                 src == PendingSource(Central)
      <4>1. /\ connTx' = [connTx EXCEPT ![Central] = pdu]
            /\ source' = [source EXCEPT ![Central] = src]
            /\ StageNew(Central, pdu, src)
        BY <1>4, <3>2 DEF CentralStartEvent
      <4>2. rxSn[Central] \in Bit /\ txSn[Central] \in Bit
        BY <1>0 DEF TypeOK
      <4>3. /\ pdu \in Pdu /\ src \in {"NONE", "RSP", "CTRL", "L2CAP"}
            /\ src = "L2CAP" => l2capQ[Central] # <<>>
        BY <1>0, <4>2, LoadedType
      <4> HIDE DEF pdu, src
      <4>4. connTx' \in [Node -> Pdu]
            /\ source' \in [Node -> {"NONE", "RSP", "CTRL", "L2CAP"}]
        BY <1>0, <4>1, <4>3 DEF TypeOK
      <4> QED
        BY <1>0, <4>1, <4>3, <4>4, StageType
    <3> QED
      BY <3>1, <3>2
  <2>4. air' \in AirPdu
    BY <1>0, <2>1, <2>3 DEF AirPdu
  <2>5. TypeOK'
    BY <1>0, <1>4, <2>2, <2>3, <2>4 DEF CentralStartEvent, TypeOK
  <2> QED
    BY <1>a, <2>1, <2>5
<1>5. CASE CentralTxDisabled
  <2>1. TypeOK'
    BY <1>0, <1>5 DEF CentralTxDisabled, TypeOK
  <2>2. SelectionInv'
    BY <1>0, <1>5 DEF CentralTxDisabled, SelectionInv, Hears, BodyOf
  <2> QED
    BY <2>1, <2>2
<1>6. CASE CentralCrcOk
  <2>1. air \in AirPdu /\ air.pdu.body \in Body /\ air'.src = Peripheral /\ air' \in AirPdu
    BY <1>0, <1>6, HearsType DEF CentralCrcOk, AirPdu, Pdu
  <2>2. /\ txSn' \in [Node -> Bit] /\ rxSn' \in [Node -> Bit]
        /\ rxPending' \in [Node -> BOOLEAN] /\ rxBody' \in [Node -> Body]
    <3>1. Flip(txSn[Central]) \in Bit /\ Flip(rxSn[Central]) \in Bit
      BY <1>0, BitFacts DEF TypeOK
    <3>2. IsNewTo(Central, air.pdu) \in BOOLEAN
      BY DEF IsNewTo
    <3> QED
      BY <1>0, <1>6, <2>1, <3>1, <3>2 DEF CentralCrcOk, TypeOK
  <2>3. txUnacked' \in [Node -> BOOLEAN]
    BY <1>0, <1>6 DEF CentralCrcOk, TypeOK
  <2>4. TypeOK'
    BY <1>0, <1>6, <2>1, <2>2, <2>3 DEF CentralCrcOk, TypeOK
  <2> QED
    BY <1>0, <1>a, <2>1, <2>4
<1>7. CASE CentralCrcError
  <2>1. air'.src = Peripheral /\ air' \in AirPdu
    BY <1>0, <1>7, HearsType DEF CentralCrcError, AirPdu
  <2>2. TypeOK'
    BY <1>0, <1>7, <2>1 DEF CentralCrcError, TypeOK
  <2> QED
    BY <1>0, <1>a, <2>1, <2>2
<1>8. ASSUME NEW n \in Node, FinishEvent(n),
             UNCHANGED <<connected, txSn, rxSn, txUnacked, connTx, lastTx, rxBody, sent>>,
             source' \in [Node -> {"NONE", "RSP", "CTRL", "L2CAP"}],
             bcmatch' \in [txAcked : BOOLEAN, isNew : BOOLEAN],
             air' \in AirPdu \union {Silence}
      PROVE  TypeOK'
  <2>1. phase' \in [Node -> {"IDLE", "WAIT_RX", "WAIT_TX"}]
        /\ rxPending' \in [Node -> BOOLEAN]
    BY <1>0, <1>8 DEF FinishEvent, TypeOK
  <2>2. CASE rxPending[n]
    BY <1>0, <1>8, <2>1, <2>2, ProcessType DEF FinishEvent, TypeOK
  <2>3. CASE ~rxPending[n]
    <3>1. UNCHANGED <<pendingTx, submitted, requests, rcvd>>
      BY <1>8, <2>3 DEF FinishEvent
    <3> QED
      BY <1>0, <1>8, <2>1, <3>1 DEF TypeOK
  <2> QED
    BY <2>2, <2>3
<1>9. CASE CentralRxDisabled
  <2>1. TypeOK'
    BY <1>0, <1>8, <1>9 DEF CentralRxDisabled, TypeOK
  <2> QED
    BY <1>a, <1>9, <2>1 DEF CentralRxDisabled
<1>10. CASE PeripheralStartEvent
  <2>1. TypeOK'
    BY <1>0, <1>10 DEF PeripheralStartEvent, ClearReception, TypeOK, NoMatch
  <2> QED
    BY <1>a, <1>10, <2>1 DEF PeripheralStartEvent
<1>11. ASSUME NEW ok \in BOOLEAN, PeripheralBcmatch(ok) PROVE TypeInv'
  <2>1. PICK header \in [sn : Bit, nesn : Bit] \union Pdu : PrestageFromHeader(header)
    <3>1. air.pdu \in Pdu
      BY <1>0, <1>11, HearsType DEF PeripheralBcmatch
    <3> QED
      BY <1>11, <3>1 DEF PeripheralBcmatch
  <2>2. air \in AirPdu /\ air' \in AirPdu
    BY <1>0, <1>11, HearsType DEF PeripheralBcmatch, AirPdu
  <2>3. /\ Acks(Peripheral, header) \in BOOLEAN /\ IsNewTo(Peripheral, header) \in BOOLEAN
        /\ AnswerNesn(Peripheral, header) \in Bit /\ AnswerSn(Peripheral, header) \in Bit
    BY <1>0, BitFacts DEF Acks, IsNewTo, AnswerNesn, AnswerSn, TypeOK
  <2>4. bcmatch' = [txAcked |-> Acks(Peripheral, header), isNew |-> IsNewTo(Peripheral, header)]
    BY <2>1 DEF PrestageFromHeader
  <2>5. CASE txUnacked[Peripheral] /\ ~Acks(Peripheral, header)
    <3>1. source' = [source EXCEPT ![Peripheral] = "NONE"] /\ connTx' = connTx
      BY <2>1, <2>5 DEF PrestageFromHeader
    <3>2. TypeOK'
      BY <1>0, <1>11, <2>2, <2>3, <2>4, <3>1 DEF PeripheralBcmatch, TypeOK
    <3>3. phase'[Peripheral] = "WAIT_RX"
          /\ source'[Peripheral] = "NONE" /\ ~bcmatch'.txAcked /\ txUnacked'[Peripheral]
      BY <1>0, <1>11, <2>4, <2>5, <3>1 DEF PeripheralBcmatch, TypeOK
    <3>4. SelectionInv'
      BY <3>3 DEF SelectionInv
    <3> QED
      BY <3>2, <3>4
  <2>6. CASE ~(txUnacked[Peripheral] /\ ~Acks(Peripheral, header))
    <3> DEFINE pdu == LoadedPdu(Peripheral, AnswerNesn(Peripheral, header),
                                            AnswerSn(Peripheral, header))
               src == PendingSource(Peripheral)
    <3>1. source' = [source EXCEPT ![Peripheral] = src]
          /\ connTx' = [connTx EXCEPT ![Peripheral] = pdu]
      BY <2>1, <2>6 DEF PrestageFromHeader
    <3>2. /\ pdu \in Pdu /\ pdu.body = BodyOf(Peripheral, src)
          /\ src \in {"NONE", "RSP", "CTRL", "L2CAP"}
          /\ src = "L2CAP" => l2capQ[Peripheral] # <<>>
      BY <1>0, <2>3, LoadedType
    <3>3. UNCHANGED <<l2capQ, rspSlot, ctrlSlot>> /\ phase'[Peripheral] = "WAIT_RX"
      BY <1>11 DEF PeripheralBcmatch
    <3> HIDE DEF pdu, src
    <3>4. TypeOK'
      BY <1>0, <1>11, <2>2, <2>3, <2>4, <3>1, <3>2 DEF PeripheralBcmatch, TypeOK
    <3>5. source'[Peripheral] = src /\ connTx'[Peripheral] = pdu
      BY <1>0, <3>1 DEF TypeOK
    <3>6. SelectionInv'
      BY <3>2, <3>3, <3>5 DEF SelectionInv, BodyOf
    <3> QED
      BY <3>4, <3>6
  <2> QED
    BY <2>5, <2>6
<1>12. CASE PeripheralCrcOk
  <2>1. /\ air \in AirPdu /\ air.pdu.body \in Body
        /\ air' \in AirPdu /\ air'.at = "done"
    BY <1>0, <1>12, HearsType DEF PeripheralCrcOk, AirPdu, Pdu
  <2>2. /\ txSn' \in [Node -> Bit] /\ rxSn' \in [Node -> Bit]
        /\ rxPending' \in [Node -> BOOLEAN] /\ rxBody' \in [Node -> Body]
        /\ source' \in [Node -> {"NONE", "RSP", "CTRL", "L2CAP"}]
        /\ bcmatch' \in [txAcked : BOOLEAN, isNew : BOOLEAN]
    <3>1. Flip(txSn[Peripheral]) \in Bit /\ Flip(rxSn[Peripheral]) \in Bit
      BY <1>0, BitFacts DEF TypeOK
    <3> QED
      BY <1>0, <1>12, <2>1, <3>1 DEF PeripheralCrcOk, TypeOK, NoMatch
  <2>3. /\ lastTx' \in [Node -> Pdu] /\ txUnacked' \in [Node -> BOOLEAN]
        /\ rspSlot' \in [Node -> Opcodes \union {None}]
        /\ ctrlSlot' \in [Node -> Opcodes \union {None}]
        /\ l2capQ' \in [Node -> Seq(Nat)]
        /\ \A k \in Node : Len(l2capQ'[k]) <= L2capQueueDepth
        /\ sent' \in [Node -> Seq(Body)]
    <3>1. CASE bcmatch.txAcked \/ ~txUnacked[Peripheral]
      <4>1. /\ connTx[Peripheral] \in Pdu
            /\ source[Peripheral] \in {"NONE", "RSP", "CTRL", "L2CAP"}
            /\ source[Peripheral] = "L2CAP" => l2capQ[Peripheral] # <<>>
        BY <1>0, <1>12 DEF PeripheralCrcOk, TypeOK, SelectionInv
      <4>2. StageNew(Peripheral, connTx[Peripheral], source[Peripheral])
        BY <1>12, <3>1 DEF PeripheralCrcOk
      <4> QED
        BY <1>0, <4>1, <4>2, StageType
    <3>2. CASE ~(bcmatch.txAcked \/ ~txUnacked[Peripheral])
      BY <1>0, <1>12, <3>2 DEF PeripheralCrcOk, TypeOK
    <3> QED
      BY <3>1, <3>2
  <2>4. TypeOK'
    BY <1>0, <1>12, <2>1, <2>2, <2>3 DEF PeripheralCrcOk, TypeOK
  <2> QED
    BY <1>a, <2>1, <2>4
<1>13. CASE PeripheralCrcError
  <2>1. air \in AirPdu /\ air' \in AirPdu /\ air'.at = "done"
    BY <1>0, <1>13, HearsType DEF PeripheralCrcError, AirPdu
  <2>2. /\ rxPending' \in [Node -> BOOLEAN]
        /\ source' \in [Node -> {"NONE", "RSP", "CTRL", "L2CAP"}]
        /\ bcmatch' \in [txAcked : BOOLEAN, isNew : BOOLEAN]
    BY <1>0, <1>13 DEF PeripheralCrcError, TypeOK, NoMatch
  <2>3. /\ lastTx' \in [Node -> Pdu] /\ txUnacked' \in [Node -> BOOLEAN]
        /\ connTx' \in [Node -> Pdu]
        /\ rspSlot' \in [Node -> Opcodes \union {None}]
        /\ ctrlSlot' \in [Node -> Opcodes \union {None}]
        /\ l2capQ' \in [Node -> Seq(Nat)]
        /\ \A k \in Node : Len(l2capQ'[k]) <= L2capQueueDepth
        /\ sent' \in [Node -> Seq(Body)]
    <3>1. CASE txUnacked[Peripheral]
      BY <1>0, <1>13, <3>1 DEF PeripheralCrcError, TypeOK
    <3>2. CASE ~txUnacked[Peripheral]
      <4> DEFINE pdu == EmptyPdu(rxSn[Peripheral], txSn[Peripheral])
      <4>1. pdu \in Pdu
        BY <1>0 DEF TypeOK, EmptyPdu, Pdu
      <4>2. StageNew(Peripheral, pdu, "NONE")
            /\ connTx' = [connTx EXCEPT ![Peripheral] = pdu]
        BY <1>13, <3>2 DEF PeripheralCrcError
      <4> HIDE DEF pdu
      <4>3. connTx' \in [Node -> Pdu]
        BY <1>0, <4>1, <4>2 DEF TypeOK
      <4> QED
        BY <1>0, <4>1, <4>2, <4>3, StageType
    <3> QED
      BY <3>1, <3>2
  <2>4. TypeOK'
    BY <1>0, <1>13, <2>1, <2>2, <2>3 DEF PeripheralCrcError, TypeOK
  <2> QED
    BY <1>a, <2>1, <2>4
<1>14. CASE PeripheralRxDisabled
  <2>1. /\ air' = [src |-> Peripheral, pdu |-> lastTx[Peripheral], at |-> "start", ok |-> TRUE]
        /\ air'.src # Central
    BY <1>0, <1>14 DEF PeripheralRxDisabled
  <2>2. air' \in AirPdu
    BY <1>0, <2>1 DEF AirPdu, TypeOK
  <2>3. TypeOK'
    BY <1>0, <1>14, <2>2 DEF PeripheralRxDisabled, TypeOK
  <2> QED
    BY <1>a, <2>1, <2>3
<1>15. CASE PeripheralTxDisabled
  <2>1. /\ source' \in [Node -> {"NONE", "RSP", "CTRL", "L2CAP"}]
        /\ bcmatch' = NoMatch /\ bcmatch' \in [txAcked : BOOLEAN, isNew : BOOLEAN]
        /\ source'[Peripheral] = "NONE"
    BY <1>0, <1>15 DEF PeripheralTxDisabled, TypeOK, NoMatch
  <2>2. TypeOK'
    BY <1>0, <1>8, <1>15, <2>1 DEF PeripheralTxDisabled, TypeOK
  <2>3. SelectionInv'
    BY <1>0, <1>15 DEF PeripheralTxDisabled, SelectionInv, Hears
  <2> QED
    BY <2>2, <2>3
<1>16. CASE Lose
  <2>1. TypeOK'
    BY <1>0, <1>16 DEF Lose, TypeOK
  <2> QED
    BY <1>a, <1>16, <2>1 DEF Lose
<1>17. CASE UNCHANGED vars
  BY <1>17 DEF vars, TypeOK, SelectionInv, Hears, BodyOf
<1> QED
  BY <1>1, <1>2, <1>3, <1>4, <1>5, <1>6, <1>7, <1>9, <1>10, <1>11, <1>12, <1>13,
     <1>14, <1>15, <1>16, <1>17 DEF Next

(* Every variable of the data channel keeps its type, and the L2CAP queue   *)
(* never grows past BLE_CONN_TX_L2CAP_QUEUE_DEPTH.                          *)
THEOREM TypeCorrect == Spec => []TypeOK
<1>1. TypeInv => TypeOK
  BY DEF TypeInv
<1> QED
  BY <1>1, InitType, NextType, PTL DEF Spec

(* What CRCOK consumes is what BCMATCH prepared: no PDU is taken from a     *)
(* slot or the queue without being the one transmitted.                     *)
THEOREM SelectionCorrect == Spec => []SelectionStillPending
<1>1. TypeInv => SelectionStillPending
  BY DEF TypeInv, SelectionInv, SelectionStillPending
<1> QED
  BY <1>1, InitType, NextType, PTL DEF Spec
=============================================================================
