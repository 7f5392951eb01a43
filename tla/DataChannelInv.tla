--------------------------- MODULE DataChannelInv ---------------------------
(***************************************************************************)
(* The inductive invariants of DataChannel: IInv is the one behind          *)
(* InOrderExactlyOnce and the refinement; NesnInv, SlotInv and FifoInv, each *)
(* inductive with IInv, are behind AnswerCarriesCurrentNesn, ResponseSlotFree *)
(* and L2capFifo.  TLC checks them on small instances, the modules           *)
(* DataChannel...Proofs prove them.                                         *)
(***************************************************************************)
EXTENDS DataChannel

BothUp == connected[Central] /\ connected[Peripheral]

(* s with b appended, unless b is the empty PDU's *)
Plus(s, b) == IF b = EmptyBody THEN s ELSE Append(s, b)

(* The source BCMATCH chose still holds what it loaded: handlers and         *)
(* application calls in between append behind it, and its event goes on.     *)
SelectionInv ==
  Hears(Peripheral, "header") =>
    /\ phase[Peripheral] = "WAIT_RX"
    /\ source[Peripheral] = "L2CAP" => l2capQ[Peripheral] # <<>>
    /\ bcmatch.txAcked \/ ~txUnacked[Peripheral] =>
         connTx[Peripheral].body = BodyOf(Peripheral, source[Peripheral])

TypeInv == TypeOK /\ SelectionInv

(* The two ends agree on the one-bit state: an end that owes nothing is the *)
(* end its peer waits for, a retransmission carries the bit of the PDU it    *)
(* repeats, and a header acknowledges a PDU only if it has been accepted.    *)
Agrees(n) ==
  LET m == Peer(n)
  IN  /\ ~txUnacked[n] => rxSn[m] = txSn[n]
      /\ txUnacked[n] => lastTx[n].sn = txSn[n]
      /\ txUnacked[n] /\ lastTx[n].nesn # txSn[m] =>
           txUnacked[m] /\ rxSn[n] # txSn[m]

SequenceInv == BothUp => \A n \in Node : Agrees(n)

(* What is on the air is the sender's last PDU, still unacknowledged; a     *)
(* reception under way has a receiver, and a peripheral that has received   *)
(* owes an answer.                                                          *)
AirInv ==
  /\ air # Silence =>
       /\ air.at = "start" => connected[air.src]
       /\ air.at # "start" => connected[Peer(air.src)]
       /\ connected[air.src] =>
            /\ air.pdu = lastTx[air.src]
            /\ air.at # "done" => txUnacked[air.src]
  /\ Hears(Peripheral, "done") => txUnacked[Peripheral]

(* An accepted PDU waits for its processing only between CRCOK and the end  *)
(* of the event in which it arrived.                                        *)
PendingInv ==
  /\ rxPending[Central] => Hears(Central, "done") /\ connected[Central]
  /\ rxPending[Peripheral] =>
       /\ connected[Peripheral]
       /\ phase[Peripheral] = "WAIT_TX"
            \/ (phase[Peripheral] = "WAIT_RX" /\ Hears(Peripheral, "done"))

(* What BCMATCH decided is what the header says, and the answer it prepared  *)
(* carries the state CRCOK will move to.                                    *)
PrestageInv ==
  Hears(Peripheral, "header") /\ air.ok =>
    /\ bcmatch = [txAcked |-> Acks(Peripheral, air.pdu),
                  isNew |-> IsNewTo(Peripheral, air.pdu)]
    /\ bcmatch.txAcked \/ ~txUnacked[Peripheral] =>
         /\ connTx[Peripheral].sn = AnswerSn(Peripheral, air.pdu)
         /\ connTx[Peripheral].nesn = AnswerNesn(Peripheral, air.pdu)
    /\ IsNewTo(Peripheral, air.pdu) =>
         sent[Central] = Plus(rcvd[Peripheral], air.pdu.body)

(* Where the one PDU is that n has sent and its peer m has not processed.    *)
Outstanding(n) == txUnacked[n] /\ rxSn[Peer(n)] = txSn[n]

TransferFrom(n) ==
  LET m == Peer(n)
  IN  /\ connected[m] /\ rxPending[m] => sent[n] = Plus(rcvd[m], rxBody[m])
      /\ BothUp /\ ~rxPending[m] =>
           sent[n] = IF Outstanding(n) THEN Plus(rcvd[m], lastTx[n].body) ELSE rcvd[m]
      /\ BothUp /\ rxPending[m] => ~Outstanding(n)

TransferInv == \A n \in Node : TransferFrom(n)

IInv ==
  /\ TypeInv /\ InOrderExactlyOnce
  /\ SequenceInv /\ AirInv /\ PendingInv /\ PrestageInv /\ TransferInv

(* An end that has had its last PDU acknowledged has heard the peripheral's. *)
HeardInv ==
  BothUp /\ ~txUnacked[Central] /\ txUnacked[Peripheral] =>
    rxSn[Central] # txSn[Peripheral]

(* The acknowledgement a new PDU of the central carries reaches the         *)
(* peripheral before the peripheral accepts it, so that every acceptance     *)
(* builds a new answer.                                                     *)
NesnInv ==
  /\ connected[Peripheral] /\ txUnacked[Peripheral] =>
       lastTx[Peripheral].nesn = rxSn[Peripheral]
  /\ BothUp /\ txUnacked[Peripheral] /\ Outstanding(Central) =>
       lastTx[Central].nesn # txSn[Peripheral]
  /\ /\ Hears(Peripheral, "header") /\ air.ok
     /\ txUnacked[Peripheral] /\ bcmatch.isNew
     => bcmatch.txAcked
  /\ Hears(Peripheral, "header") /\ ~air.ok => txUnacked[Peripheral]

Answers(n) == rxPending[n] \/ rspSlot[n] # None

(* While the central owes a response, or is about to, nothing it sends      *)
(* acknowledges the peripheral's last PDU: no other one can arrive.         *)
CentralSlotInv ==
  BothUp /\ Answers(Central) =>
    /\ txUnacked[Peripheral] /\ rxSn[Central] # txSn[Peripheral]
    /\ txUnacked[Central] => lastTx[Central].nesn = txSn[Peripheral]

(* A peripheral that owes one sends it in answer to the next new PDU.       *)
PeripheralSlotInv ==
  /\ connected[Peripheral] /\ Answers(Peripheral) => txUnacked[Peripheral]
  /\ BothUp /\ rspSlot[Peripheral] # None /\ Outstanding(Central) =>
       lastTx[Central].nesn # txSn[Peripheral]
  /\ Hears(Peripheral, "header") /\ rspSlot[Peripheral] # None =>
       /\ bcmatch.txAcked => source[Peripheral] = "RSP"
       /\ air.ok /\ bcmatch.isNew => bcmatch.txAcked

SlotInv ==
  /\ \A n \in Node : rxPending[n] => rspSlot[n] = None
  /\ HeardInv /\ CentralSlotInv /\ PeripheralSlotInv

(* The payloads n has put into transmission are the first ones accepted, and *)
(* its queue holds the others.                                              *)
FifoFrom(n) ==
  LET k == submitted[n] - Len(l2capQ[n])
  IN  /\ InSubmissionOrder(sent[n]) /\ UpTo(sent[n], submitted[n])
      /\ connected[n] =>
           /\ k >= 0 /\ UpTo(sent[n], k)
           /\ \A x \in 1..k : \E i \in 1..Len(sent[n]) : sent[n][i] = L2cap(x)
           /\ \A i \in 1..Len(l2capQ[n]) : l2capQ[n][i] = k + i

FifoInv == \A n \in Node : FifoFrom(n)
=============================================================================
