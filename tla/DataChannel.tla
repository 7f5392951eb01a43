---------------------------- MODULE DataChannel ----------------------------
(***************************************************************************)
(* The connected data channel of the link layer: a central and a           *)
(* peripheral, both running this stack, exchange one data PDU each per     *)
(* connection event.  ble_controller_common.c holds the transmit slots,    *)
(* the L2CAP queue and the one-bit acknowledgement state;                  *)
(* ble_controller_central.c and ble_controller_peripheral.c hold the radio *)
(* event handlers that drive them.                                         *)
(*                                                                         *)
(* One action is one interrupt handler: TIMER0 (start of a connection      *)
(* event), one radio event (BCMATCH, CRCOK, CRCERROR, DISABLED), or one    *)
(* call of the application between two interrupts.                         *)
(***************************************************************************)
EXTENDS Integers, Sequences

CONSTANTS Central, Peripheral,  \* the two ends of the link
          L2capQueueDepth,      \* BLE_CONN_TX_L2CAP_QUEUE_DEPTH
          Requests,             \* LL control PDUs the central starts
          Faults,               \* what may go wrong, a subset of FaultKinds
          MaxL2cap,             \* bound: L2CAP payloads accepted per node
          MaxRequests           \* bound: LL control procedures started

None == "none"
Opcodes == {"FEATURE_REQ", "FEATURE_RSP", "LENGTH_REQ", "LENGTH_RSP",
            "PHY_REQ", "PHY_RSP", "PHY_UPDATE_IND", "CONN_UPDATE_IND"}

(* loss: no access address match; crcCentral, crcPeripheral: a CRC error at *)
(* that end; crcOpening: a CRC error at a peripheral that owes no           *)
(* acknowledgement yet, so before its first answer; disconnect: the         *)
(* application or the supervision timer ends the link at one end.           *)
FaultKinds == {"loss", "crcCentral", "crcPeripheral", "crcOpening", "disconnect"}

ASSUME NodesAssumption == Central # Peripheral /\ None \notin {Central, Peripheral}
ASSUME DepthAssumption == L2capQueueDepth \in Nat \ {0}
ASSUME BoundsAssumption == MaxL2cap \in [{Central, Peripheral} -> Nat] /\ MaxRequests \in Nat
ASSUME RequestsAssumption ==
  Requests \subseteq {"FEATURE_REQ", "LENGTH_REQ", "PHY_REQ", "CONN_UPDATE_IND"}
ASSUME FaultsAssumption == Faults \subseteq FaultKinds

Node == {Central, Peripheral}
Peer(n) == IF n = Central THEN Peripheral ELSE Central
Bit == {0, 1}
Flip(b) == 1 - b

CtrlBody == [llid : {"CTRL"}, op : Opcodes]
L2capBody == [llid : {"L2CAP"}, id : Nat]
EmptyBody == [llid |-> "EMPTY"]
Body == CtrlBody \union L2capBody \union {EmptyBody}
Pdu == [sn : Bit, nesn : Bit, body : Body]

Silence == [src |-> None]

VARIABLES
  connected,        \* m_link.connected
  txSn,             \* m_link.packet.tx_sn
  rxSn,             \* m_link.packet.next_expected_rx_sn
  txUnacked,        \* m_ctrl_rt.conn.tx_unacked
  connTx,           \* m_ctrl_rt.conn.conn_tx_pdu
  lastTx,           \* m_ctrl_rt.conn.last_conn_tx_pdu
  source,           \* m_ctrl_rt.conn.selected_conn_tx_source
  rspSlot,          \* pending_conn_ctrl_rsp_pdu with its has_ flag
  ctrlSlot,         \* pending_conn_ctrl_pdu with its has_ flag
  l2capQ,           \* l2cap_tx_queue, head first
  bcmatch,          \* conn_bcmatch of the peripheral
  rxBody,           \* what conn_rx_pdu carries
  rxPending,        \* conn_rx_process_pending
  phase,            \* conn_radio_phase
  air,              \* the packet on the air and how far its reception went
  submitted,        \* history: number of L2CAP payloads accepted
  requests,         \* history: number of LL control procedures started
  sent,             \* history: non-empty PDUs put into transmission
  rcvd              \* history: non-empty PDUs processed

sequencing == <<txSn, rxSn, txUnacked>>
staging == <<connTx, lastTx, source>>
pendingTx == <<rspSlot, ctrlSlot, l2capQ>>
receiving == <<rxBody, rxPending>>
history == <<submitted, requests, sent, rcvd>>
vars == <<connected, sequencing, staging, pendingTx, bcmatch, receiving,
          phase, air, history>>

NoMatch == [txAcked |-> FALSE, isNew |-> FALSE]
EmptyPdu(nesn, sn) == [sn |-> sn, nesn |-> nesn, body |-> EmptyBody]

Init ==
  /\ connected = [n \in Node |-> TRUE]
  /\ txSn = [n \in Node |-> 0]
  /\ rxSn = [n \in Node |-> 0]
  /\ txUnacked = [n \in Node |-> FALSE]
  /\ connTx = [n \in Node |-> EmptyPdu(0, 0)]
  /\ lastTx = [n \in Node |-> EmptyPdu(0, 0)]
  /\ source = [n \in Node |-> "NONE"]
  /\ rspSlot = [n \in Node |-> None]
  /\ ctrlSlot = [n \in Node |-> None]
  /\ l2capQ = [n \in Node |-> <<>>]
  /\ bcmatch = NoMatch
  /\ rxBody = [n \in Node |-> EmptyBody]
  /\ rxPending = [n \in Node |-> FALSE]
  /\ phase = [n \in Node |-> "IDLE"]
  /\ air = Silence
  /\ submitted = [n \in Node |-> 0]
  /\ requests = 0
  /\ sent = [n \in Node |-> <<>>]
  /\ rcvd = [n \in Node |-> <<>>]

----------------------------------------------------------------------------
(* What is transmitted next.                                               *)

(* The source a free transmitter takes: responses, then control, then L2CAP. *)
PendingSource(n) ==
  CASE rspSlot[n] # None  -> "RSP"
    [] rspSlot[n] = None /\ ctrlSlot[n] # None -> "CTRL"
    [] rspSlot[n] = None /\ ctrlSlot[n] = None /\ l2capQ[n] # <<>> -> "L2CAP"
    [] OTHER -> "NONE"

BodyOf(n, src) ==
  CASE src = "RSP"   -> [llid |-> "CTRL", op |-> rspSlot[n]]
    [] src = "CTRL"  -> [llid |-> "CTRL", op |-> ctrlSlot[n]]
    [] src = "L2CAP" -> [llid |-> "L2CAP", id |-> Head(l2capQ[n])]
    [] OTHER         -> EmptyBody

(* controller_load_pending_conn_tx_pdu_for_state and the empty PDU its     *)
(* callers fall back to; the header is fixed here, once.                   *)
LoadedPdu(n, nesn, sn) ==
  [sn |-> sn, nesn |-> nesn, body |-> BodyOf(n, PendingSource(n))]

(* Slips of the slot bookkeeping, for the mutants: the L2CAP head or the      *)
(* response is transmitted and stays queued.                               *)
ConsumeSourceKeepsL2cap(n, src) ==
  /\ rspSlot' = IF src = "RSP" THEN [rspSlot EXCEPT ![n] = None] ELSE rspSlot
  /\ ctrlSlot' = IF src = "CTRL" THEN [ctrlSlot EXCEPT ![n] = None] ELSE ctrlSlot
  /\ UNCHANGED l2capQ
ConsumeSourceKeepsResponse(n, src) ==
  /\ ctrlSlot' = IF src = "CTRL" THEN [ctrlSlot EXCEPT ![n] = None] ELSE ctrlSlot
  /\ l2capQ' = IF src = "L2CAP" THEN [l2capQ EXCEPT ![n] = Tail(@)] ELSE l2capQ
  /\ UNCHANGED rspSlot

(* controller_stage_conn_response: a new PDU becomes the last one and its   *)
(* source is consumed; otherwise the last one goes out again as it was.     *)
ConsumeSource(n, src) ==
  /\ rspSlot' = IF src = "RSP" THEN [rspSlot EXCEPT ![n] = None] ELSE rspSlot
  /\ ctrlSlot' = IF src = "CTRL" THEN [ctrlSlot EXCEPT ![n] = None] ELSE ctrlSlot
  /\ l2capQ' = IF src = "L2CAP" THEN [l2capQ EXCEPT ![n] = Tail(@)] ELSE l2capQ

StageNew(n, pdu, src) ==
  /\ lastTx' = [lastTx EXCEPT ![n] = pdu]
  /\ txUnacked' = [txUnacked EXCEPT ![n] = TRUE]
  /\ ConsumeSource(n, src)
  /\ sent' = IF pdu.body = EmptyBody THEN sent
             ELSE [sent EXCEPT ![n] = Append(@, pdu.body)]

----------------------------------------------------------------------------
(* Queueing, from the application or from a handler.                       *)

(* Slips for the mutants: no depth check; the newest payload at the head.   *)
QueueL2capPayloadUnbounded(n) ==
  /\ submitted[n] < MaxL2cap[n]
  /\ submitted' = [submitted EXCEPT ![n] = @ + 1]
  /\ l2capQ' = [l2capQ EXCEPT ![n] = Append(@, submitted[n] + 1)]
QueueL2capPayloadAtHead(n) ==
  /\ submitted[n] < MaxL2cap[n]
  /\ Len(l2capQ[n]) < L2capQueueDepth
  /\ submitted' = [submitted EXCEPT ![n] = @ + 1]
  /\ l2capQ' = [l2capQ EXCEPT ![n] = <<submitted[n] + 1>> \o @]

(* controller_queue_l2cap_payload *)
QueueL2capPayload(n) ==
  /\ submitted[n] < MaxL2cap[n]
  /\ Len(l2capQ[n]) < L2capQueueDepth
  /\ submitted' = [submitted EXCEPT ![n] = @ + 1]
  /\ l2capQ' = [l2capQ EXCEPT ![n] = Append(@, submitted[n] + 1)]

(* controller_queue_ll_control_payload: refused while the slot is taken *)
QueueLlControlPayload(n, op) ==
  /\ requests < MaxRequests
  /\ ctrlSlot[n] = None
  /\ requests' = requests + 1
  /\ ctrlSlot' = [ctrlSlot EXCEPT ![n] = op]

AppQueuesL2cap(n) ==
  /\ connected[n]
  /\ QueueL2capPayload(n)
  /\ UNCHANGED <<connected, sequencing, staging, rspSlot, ctrlSlot, bcmatch,
                 receiving, phase, air, requests, sent, rcvd>>

AppStartsProcedure(op) ==
  /\ connected[Central]
  /\ QueueLlControlPayload(Central, op)
  /\ UNCHANGED <<connected, sequencing, staging, rspSlot, l2capQ, bcmatch,
                 receiving, phase, air, submitted, sent, rcvd>>

----------------------------------------------------------------------------
(* Processing a received PDU, at the end of the connection event.          *)

(* The answers ll_control_process may produce for a PDU of the other end.  *)
Replies(n, op) ==
  CASE op = "FEATURE_REQ" -> {"FEATURE_RSP"}
    [] op = "LENGTH_REQ"  -> {"LENGTH_RSP"}
    [] op = "PHY_REQ"     -> {"PHY_RSP"}
    [] op = "PHY_RSP" /\ n = Central -> {"PHY_UPDATE_IND", None}
    [] OTHER -> {None}

(* A completed procedure lets the central queue the next one.              *)
Completions == {"FEATURE_RSP", "LENGTH_RSP"}

LlControlProcess(n, op) ==
  /\ \E reply \in Replies(n, op) :
       rspSlot' = IF reply # None /\ rspSlot[n] = None
                  THEN [rspSlot EXCEPT ![n] = reply] ELSE rspSlot
  /\ \/ UNCHANGED <<ctrlSlot, requests>>
     \/ /\ n = Central /\ op \in Completions
        /\ \E next \in Requests : QueueLlControlPayload(n, next)

(* ble_l2cap_process_conn_data_pdu: the host may answer at once; an answer  *)
(* that finds the queue full is dropped.                                    *)
L2capProcess(n) == QueueL2capPayload(n) \/ UNCHANGED <<l2capQ, submitted>>

ProcessReceivedConnPdu(n) ==
  \/ /\ rxBody[n].llid = "EMPTY"
     /\ UNCHANGED <<pendingTx, submitted, requests, rcvd>>
  \/ /\ rxBody[n].llid = "CTRL"
     /\ LlControlProcess(n, rxBody[n].op)
     /\ rcvd' = [rcvd EXCEPT ![n] = Append(@, rxBody[n])]
     /\ UNCHANGED <<l2capQ, submitted>>
  \/ /\ rxBody[n].llid = "L2CAP"
     /\ L2capProcess(n)
     /\ rcvd' = [rcvd EXCEPT ![n] = Append(@, rxBody[n])]
     /\ UNCHANGED <<rspSlot, ctrlSlot, requests>>

(* The end of either role's DISABLED handler. *)
FinishEvent(n) ==
  /\ phase' = [phase EXCEPT ![n] = "IDLE"]
  /\ rxPending' = [rxPending EXCEPT ![n] = FALSE]
  /\ IF rxPending[n]
     THEN ProcessReceivedConnPdu(n)
     ELSE UNCHANGED <<pendingTx, submitted, requests, rcvd>>

(* Start of either role's connection event: the receive side is cleared.   *)
ClearReception(n) ==
  /\ rxBody' = [rxBody EXCEPT ![n] = EmptyBody]
  /\ rxPending' = [rxPending EXCEPT ![n] = FALSE]

(* Slips for the mutants: any header acknowledges; every PDU is new.        *)
AcksAlways(n, pdu) == txUnacked[n]
IsAlwaysNewTo(n, pdu) == TRUE

(* A received header: what it acknowledges, and whether it is new.         *)
Acks(n, pdu) == txUnacked[n] /\ pdu.nesn # txSn[n]
IsNewTo(n, pdu) == pdu.sn = rxSn[n]

Hears(n, at) == air.src = Peer(n) /\ air.at = at

----------------------------------------------------------------------------
(* The central.                                                            *)

(* controller_central_start_connection_event.  The peripheral opens its    *)
(* window BLE_CONN_EVENT_GUARD_US before the anchor, so it listens first.  *)
CentralStartEvent ==
  /\ connected[Central]
  /\ air = Silence
  /\ phase[Central] # "WAIT_TX"
  /\ connected[Peripheral] => phase[Peripheral] = "WAIT_RX"
  /\ ClearReception(Central)
  /\ phase' = [phase EXCEPT ![Central] = "WAIT_TX"]
  /\ \/ /\ ~txUnacked[Central]
        /\ LET pdu == LoadedPdu(Central, rxSn[Central], txSn[Central])
           IN  /\ connTx' = [connTx EXCEPT ![Central] = pdu]
               /\ source' = [source EXCEPT ![Central] = PendingSource(Central)]
               /\ StageNew(Central, pdu, PendingSource(Central))
     \/ /\ txUnacked[Central]
        /\ source' = [source EXCEPT ![Central] = "NONE"]
        /\ UNCHANGED <<connTx, lastTx, txUnacked, pendingTx, sent>>
  /\ air' = [src |-> Central, pdu |-> lastTx'[Central], at |-> "start", ok |-> TRUE]
  /\ UNCHANGED <<connected, txSn, rxSn, bcmatch, submitted, requests, rcvd>>

CentralTxDisabled ==
  /\ connected[Central]
  /\ phase[Central] = "WAIT_TX"
  /\ phase' = [phase EXCEPT ![Central] = "WAIT_RX"]
  /\ UNCHANGED <<connected, sequencing, staging, pendingTx, bcmatch, receiving,
                 air, history>>

(* controller_central_handle_connected_packet *)
CentralCrcOk ==
  /\ connected[Central] /\ phase[Central] = "WAIT_RX" /\ Hears(Central, "start")
  /\ LET acked == Acks(Central, air.pdu)
         isNew == IsNewTo(Central, air.pdu)
     IN  /\ txUnacked' = IF acked THEN [txUnacked EXCEPT ![Central] = FALSE] ELSE txUnacked
         /\ txSn' = IF acked THEN [txSn EXCEPT ![Central] = Flip(@)] ELSE txSn
         /\ rxSn' = IF isNew THEN [rxSn EXCEPT ![Central] = Flip(@)] ELSE rxSn
         /\ rxPending' = [rxPending EXCEPT ![Central] = isNew]
  /\ rxBody' = [rxBody EXCEPT ![Central] = air.pdu.body]
  /\ source' = [source EXCEPT ![Central] = "NONE"]
  /\ air' = [air EXCEPT !.at = "done"]
  /\ UNCHANGED <<connected, connTx, lastTx, pendingTx, bcmatch, phase, history>>

(* controller_central_handle_crc_error; conn_rx_pdu keeps nothing usable   *)
CentralCrcError ==
  /\ "crcCentral" \in Faults
  /\ connected[Central] /\ phase[Central] = "WAIT_RX" /\ Hears(Central, "start")
  /\ rxPending' = [rxPending EXCEPT ![Central] = FALSE]
  /\ source' = [source EXCEPT ![Central] = "NONE"]
  /\ air' = [air EXCEPT !.at = "done"]
  /\ UNCHANGED <<connected, sequencing, connTx, lastTx, pendingTx, bcmatch, rxBody,
                 phase, history>>

CentralRxDisabled ==
  /\ connected[Central] /\ phase[Central] = "WAIT_RX" /\ Hears(Central, "done")
  /\ FinishEvent(Central)
  /\ air' = Silence
  /\ UNCHANGED <<connected, sequencing, staging, bcmatch, rxBody, sent>>

----------------------------------------------------------------------------
(* The peripheral.                                                         *)

(* controller_peripheral_start_connection_event *)
PeripheralStartEvent ==
  /\ connected[Peripheral]
  /\ air = Silence
  /\ phase[Peripheral] # "WAIT_TX"
  /\ ClearReception(Peripheral)
  /\ bcmatch' = NoMatch
  /\ source' = [source EXCEPT ![Peripheral] = "NONE"]
  /\ phase' = [phase EXCEPT ![Peripheral] = "WAIT_RX"]
  /\ UNCHANGED <<connected, sequencing, connTx, lastTx, pendingTx, air, history>>

(* Slips for the mutants: the answer carries the state before the packet.   *)
AnswerNesnStale(n, pdu) == rxSn[n]
AnswerSnStale(n, pdu) == txSn[n]

(* The sequence state the peripheral will be in once the CRC is confirmed, *)
(* and which its answer to this header has to carry.                       *)
AnswerNesn(n, pdu) == IF IsNewTo(n, pdu) THEN Flip(rxSn[n]) ELSE rxSn[n]
AnswerSn(n, pdu) == IF Acks(n, pdu) THEN Flip(txSn[n]) ELSE txSn[n]

(* controller_peripheral_prestage_conn_response_from_header, on the header *)
(* as received: the true one, or any when the CRC is going to fail.        *)
PrestageFromHeader(header) ==
  LET n == Peripheral
      acked == Acks(n, header)
      isNew == IsNewTo(n, header)
  IN  /\ bcmatch' = [txAcked |-> acked, isNew |-> isNew]
      /\ \/ /\ txUnacked[n] /\ ~acked
            /\ source' = [source EXCEPT ![n] = "NONE"]
            /\ UNCHANGED connTx
         \/ /\ txUnacked[n] => acked
            /\ source' = [source EXCEPT ![n] = PendingSource(n)]
            /\ connTx' = [connTx EXCEPT ![n] =
                 LoadedPdu(n, AnswerNesn(n, header), AnswerSn(n, header))]

CrcMayFailAtPeripheral ==
  IF txUnacked[Peripheral] THEN "crcPeripheral" \in Faults ELSE "crcOpening" \in Faults

PeripheralBcmatch(ok) ==
  /\ connected[Peripheral] /\ phase[Peripheral] = "WAIT_RX"
  /\ Hears(Peripheral, "start")
  /\ \/ ok /\ PrestageFromHeader(air.pdu)
     \/ /\ ~ok /\ CrcMayFailAtPeripheral
        /\ \E header \in [sn : Bit, nesn : Bit] : PrestageFromHeader(header)
  /\ air' = [air EXCEPT !.at = "header", !.ok = ok]
  /\ UNCHANGED <<connected, sequencing, lastTx, pendingTx, receiving, phase, history>>

(* controller_peripheral_handle_connected_packet *)
PeripheralCrcOk ==
  /\ connected[Peripheral] /\ phase[Peripheral] = "WAIT_RX"
  /\ Hears(Peripheral, "header") /\ air.ok
  /\ txSn' = IF bcmatch.txAcked THEN [txSn EXCEPT ![Peripheral] = Flip(@)] ELSE txSn
  /\ rxSn' = IF bcmatch.isNew THEN [rxSn EXCEPT ![Peripheral] = Flip(@)] ELSE rxSn
  /\ rxPending' = [rxPending EXCEPT ![Peripheral] = bcmatch.isNew]
  /\ rxBody' = [rxBody EXCEPT ![Peripheral] = air.pdu.body]
  /\ IF bcmatch.txAcked \/ ~txUnacked[Peripheral]
     THEN StageNew(Peripheral, connTx[Peripheral], source[Peripheral])
     ELSE UNCHANGED <<lastTx, txUnacked, pendingTx, sent>>
  /\ bcmatch' = NoMatch
  /\ source' = [source EXCEPT ![Peripheral] = "NONE"]
  /\ air' = [air EXCEPT !.at = "done"]
  /\ UNCHANGED <<connected, connTx, phase, submitted, requests, rcvd>>

(* controller_peripheral_handle_connected_crc_error *)
PeripheralCrcError ==
  /\ connected[Peripheral] /\ phase[Peripheral] = "WAIT_RX"
  /\ Hears(Peripheral, "header") /\ ~air.ok
  /\ bcmatch' = NoMatch
  /\ source' = [source EXCEPT ![Peripheral] = "NONE"]
  /\ rxPending' = [rxPending EXCEPT ![Peripheral] = FALSE]
  /\ IF txUnacked[Peripheral]
     THEN UNCHANGED <<connTx, lastTx, txUnacked, pendingTx, sent>>
     ELSE LET pdu == EmptyPdu(rxSn[Peripheral], txSn[Peripheral])
          IN  /\ connTx' = [connTx EXCEPT ![Peripheral] = pdu]
              /\ StageNew(Peripheral, pdu, "NONE")
  /\ air' = [air EXCEPT !.at = "done"]
  /\ UNCHANGED <<connected, txSn, rxSn, rxBody, phase, submitted, requests, rcvd>>

(* controller_peripheral_handle_connected_disabled after the reception: the *)
(* radio's DISABLED_TXEN shortcut sends what was staged, T_IFS later, when  *)
(* the central has long turned around.                                      *)
PeripheralRxDisabled ==
  /\ connected[Peripheral] /\ phase[Peripheral] = "WAIT_RX"
  /\ connected[Central] => phase[Central] = "WAIT_RX"
  /\ Hears(Peripheral, "done")
  /\ phase' = [phase EXCEPT ![Peripheral] = "WAIT_TX"]
  /\ air' = [src |-> Peripheral, pdu |-> lastTx[Peripheral], at |-> "start", ok |-> TRUE]
  /\ UNCHANGED <<connected, sequencing, staging, pendingTx, bcmatch, receiving, history>>

(* ... and after its own transmission *)
PeripheralTxDisabled ==
  /\ connected[Peripheral] /\ phase[Peripheral] = "WAIT_TX"
  /\ FinishEvent(Peripheral)
  /\ bcmatch' = NoMatch
  /\ source' = [source EXCEPT ![Peripheral] = "NONE"]
  /\ UNCHANGED <<connected, sequencing, connTx, lastTx, rxBody, air, sent>>

----------------------------------------------------------------------------
(* The environment.                                                        *)

(* A packet nobody hears. *)
Lose ==
  /\ air # Silence /\ air.at = "start"
  /\ "loss" \in Faults \/ ~connected[Peer(air.src)]
  /\ air' = Silence
  /\ UNCHANGED <<connected, sequencing, staging, pendingTx, bcmatch, receiving,
                 phase, history>>

(* controller_disconnect_internal, run to its end: nothing tells the peer.  *)
(* The radio stops: what n has not finished sending or receiving is lost.   *)
Disconnect(n) ==
  /\ "disconnect" \in Faults
  /\ connected[n]
  /\ connected' = [connected EXCEPT ![n] = FALSE]
  /\ txUnacked' = [txUnacked EXCEPT ![n] = FALSE]
  /\ rspSlot' = [rspSlot EXCEPT ![n] = None]
  /\ ctrlSlot' = [ctrlSlot EXCEPT ![n] = None]
  /\ l2capQ' = [l2capQ EXCEPT ![n] = <<>>]
  /\ rxPending' = [rxPending EXCEPT ![n] = FALSE]
  /\ phase' = [phase EXCEPT ![n] = "IDLE"]
  /\ source' = [source EXCEPT ![n] = "NONE"]
  /\ air' = IF air # Silence /\ (air.src = n <=> air.at = "start") THEN Silence ELSE air
  /\ UNCHANGED <<txSn, rxSn, connTx, lastTx, bcmatch, rxBody, history>>

Next ==
  \/ \E n \in Node : AppQueuesL2cap(n) \/ Disconnect(n)
  \/ \E op \in Requests : AppStartsProcedure(op)
  \/ CentralStartEvent \/ CentralTxDisabled
  \/ CentralCrcOk \/ CentralCrcError \/ CentralRxDisabled
  \/ PeripheralStartEvent
  \/ \E ok \in BOOLEAN : PeripheralBcmatch(ok)
  \/ PeripheralCrcOk \/ PeripheralCrcError
  \/ PeripheralRxDisabled \/ PeripheralTxDisabled
  \/ Lose

Spec == Init /\ [][Next]_vars

(* Every interrupt that is due is taken, and a link that keeps trying is    *)
(* heard infinitely often in both directions.                              *)
Fairness ==
  /\ WF_vars(CentralStartEvent) /\ WF_vars(PeripheralStartEvent)
  /\ WF_vars(CentralTxDisabled) /\ WF_vars(CentralRxDisabled)
  /\ WF_vars(PeripheralCrcOk) /\ WF_vars(PeripheralCrcError)
  /\ WF_vars(PeripheralRxDisabled) /\ WF_vars(PeripheralTxDisabled)
  /\ SF_vars(PeripheralBcmatch(TRUE)) /\ SF_vars(CentralCrcOk)

FairSpec == Spec /\ Fairness

----------------------------------------------------------------------------
(* Properties.                                                             *)

AirPdu == [src : Node, pdu : Pdu, at : {"start", "header", "done"}, ok : BOOLEAN]

(* Every variable keeps its type; the L2CAP queue keeps to its depth.      *)
TypeOK ==
  /\ connected \in [Node -> BOOLEAN]
  /\ txSn \in [Node -> Bit] /\ rxSn \in [Node -> Bit]
  /\ txUnacked \in [Node -> BOOLEAN]
  /\ connTx \in [Node -> Pdu] /\ lastTx \in [Node -> Pdu]
  /\ source \in [Node -> {"NONE", "RSP", "CTRL", "L2CAP"}]
  /\ rspSlot \in [Node -> Opcodes \union {None}]
  /\ ctrlSlot \in [Node -> Opcodes \union {None}]
  /\ l2capQ \in [Node -> Seq(Nat)]
  /\ \A n \in Node : Len(l2capQ[n]) <= L2capQueueDepth
  /\ bcmatch \in [txAcked : BOOLEAN, isNew : BOOLEAN]
  /\ rxBody \in [Node -> Body] /\ rxPending \in [Node -> BOOLEAN]
  /\ phase \in [Node -> {"IDLE", "WAIT_RX", "WAIT_TX"}]
  /\ air \in AirPdu \union {Silence}
  /\ submitted \in [Node -> Nat] /\ requests \in Nat
  /\ sent \in [Node -> Seq(Body)] /\ rcvd \in [Node -> Seq(Body)]

(* got is a prefix of s *)
Follows(got, s) == Len(got) <= Len(s) /\ \A i \in 1..Len(got) : s[i] = got[i]

InOrderFrom(n) ==
  /\ Follows(rcvd[Peer(n)], sent[n])
  /\ connected[Peer(n)] => Len(sent[n]) <= Len(rcvd[Peer(n)]) + 1

(* The PDUs one end processes are exactly those the other end put into     *)
(* transmission, in order; while the receiver stays connected at most one   *)
(* is outstanding: the sequence bits, the staging and the deferred          *)
(* processing never lose, repeat or reorder a PDU, whatever packets are     *)
(* lost or corrupted.                                                      *)
InOrderExactlyOnce == \A n \in Node : InOrderFrom(n)

IsL2cap(b) == b.llid = "L2CAP"

L2cap(k) == [llid |-> "L2CAP", id |-> k]

(* The L2CAP payloads in s are 1, 2, ... in this order, and none is missing. *)
InSubmissionOrder(s) ==
  \A i \in 1..Len(s) : IsL2cap(s[i]) =>
    /\ s[i].id > 0
    /\ \A j \in 1..(i - 1) : IsL2cap(s[j]) => s[j].id < s[i].id
    /\ \A k \in 1..(s[i].id - 1) : \E j \in 1..(i - 1) : s[j] = L2cap(k)

UpTo(s, k) == \A i \in 1..Len(s) : IsL2cap(s[i]) => s[i].id <= k

(* The L2CAP payloads processed at one end are the first ones accepted by  *)
(* controller_queue_l2cap_payload at the other, none skipped or overtaken, *)
(* whatever control PDUs jump ahead of the queue.                          *)
L2capFifo ==
  \A n \in Node : InSubmissionOrder(rcvd[n]) /\ UpTo(rcvd[n], submitted[Peer(n)])

(* A PDU whose processing needs an answer finds the one response slot      *)
(* free, so the discarded result of                                        *)
(* controller_queue_ll_control_response_payload hides no lost answer.      *)
ResponseSlotFree ==
  \A n \in Node :
    rxPending[n] /\ rxBody[n].llid = "CTRL" /\ Replies(n, rxBody[n].op) # {None}
      => rspSlot[n] = None

(* Between BCMATCH and CRCOK the application may queue more, yet the source *)
(* CRCOK will consume still holds exactly the PDU that BCMATCH prepared.    *)
SelectionStillPending ==
  (/\ Hears(Peripheral, "header") /\ air.ok
   /\ bcmatch.txAcked \/ ~txUnacked[Peripheral])
    => connTx[Peripheral].body = BodyOf(Peripheral, source[Peripheral])

(* What the peripheral puts on the air acknowledges all it has accepted     *)
(* ("answer with the current NESN", ble_controller_peripheral.c).           *)
AnswerCarriesCurrentNesn ==
  air # Silence /\ air.src = Peripheral /\ air.at = "start" /\ connected[Peripheral]
    => air.pdu.nesn = rxSn[Peripheral]

(* Every L2CAP payload accepted is eventually processed by the other end.   *)
L2capDelivered ==
  \A n \in Node : \A k \in 1..MaxL2cap[n] :
    submitted[n] >= k ~> Len(SelectSeq(rcvd[Peer(n)], IsL2cap)) >= k

(* The data channel implements the stop-and-wait link.                     *)
Link == INSTANCE ReliableLink
ImplementsReliableLink == Link!Spec
=============================================================================
