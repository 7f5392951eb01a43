------------------------------ MODULE LLControl ------------------------------
(***************************************************************************)
(* Link layer control procedures on one connection: the central's chain of *)
(* feature exchange, data length update and PHY update after connecting,   *)
(* connection parameter updates started by its application or requested by *)
(* the peripheral, and the instants at which both ends change their        *)
(* parameters.                                                             *)
(*                                                                         *)
(* The link below is the stop-and-wait link DataChannel implements: each   *)
(* connection event carries a packet of the central and, if it was heard,  *)
(* the peripheral's answer; what is not acknowledged goes out again.  One  *)
(* step runs both ends' TIMER0 handlers and the exchange that follows; the *)
(* packets received are processed afterwards, at the end of the event.     *)
(* controller_central_initiate_conn_update, called by the application, is  *)
(* split where these handlers can preempt it.                              *)
(*                                                                         *)
(* The peer may be a device that does not know a request of the chain and  *)
(* answers LL_UNKNOWN_RSP; no request is sent twice.  The behaviour ends   *)
(* with the connection.                                                    *)
(***************************************************************************)
EXTENDS Integers, FiniteSets

CONSTANTS
    Params,         \* connection parameters an update may ask for
    InstantOffset,  \* BLE_LL_CTRL_INSTANT_OFFSET_EVENTS
    CounterMod,     \* width of event_counter: 2^16 in the code
    MissLimit,      \* intervals without a packet that end the link
    MaxCalls,       \* bound: calls of ble_gap_initiate_conn_update
    MaxAsks,        \* bound: parameter requests of the peripheral
    MaxPreempt      \* bound: handlers that preempt one such call

Central == "central"
Peripheral == "peripheral"
Node == {Central, Peripheral}

Initial == "initial"
None == "none"
Phys == {"1M", "2M"}
Counters == 0 .. CounterMod - 1

\* The procedures of the automatic chain and the stages that wait for them.
Chain == {"FEATURE", "LENGTH", "PHY"}
Kinds == Chain \cup {"CONN_UPDATE"}

\* controller_central_ctrl_proc_request_opcode
Request == [FEATURE |-> "FEATURE_REQ", LENGTH |-> "LENGTH_REQ", PHY |-> "PHY_REQ"]
Response == [FEATURE |-> "FEATURE_RSP", LENGTH |-> "LENGTH_RSP", PHY |-> "PHY_RSP"]
Requests == {Request[k] : k \in Chain}
KindOf(op) == CHOOSE k \in Chain : op \in {Request[k], Response[k]}

Ops == Requests \cup {Response[k] : k \in Chain}
       \cup {"EMPTY", "UNKNOWN_RSP", "PHY_UPDATE_IND", "CONN_UPDATE_IND", "PARAM_REQ"}
Values == Params \cup Phys \cup Requests \cup {None}
Pdus == [op : Ops, instant : Counters, value : Values]

ASSUME ParamsAssumption ==
    Params # {} /\ Params \cap (Phys \cup Requests \cup {None, Initial}) = {}
ASSUME CounterAssumption ==
    /\ InstantOffset \in Nat \ {0}
    /\ MissLimit \in Nat \ {0}
    /\ CounterMod \in Nat /\ CounterMod > InstantOffset + MissLimit
ASSUME BoundAssumption == MaxCalls \in Nat /\ MaxAsks \in Nat /\ MaxPreempt \in Nat

Carrying(op, value) == [op |-> op, instant |-> 0, value |-> value]
Plain(op) == Carrying(op, None)
Update(op, instant, value) == [op |-> op, instant |-> instant, value |-> value]

\* A free slot, and what an end with nothing to say transmits.
Empty == Plain("EMPTY")

NoProc == [kind |-> None, waits |-> "IDLE"]
NoUpdate == [valid |-> FALSE, instant |-> 0, value |-> None]
Pending(instant, value) == [valid |-> TRUE, instant |-> instant, value |-> value]
NoCall == [instant |-> 0, value |-> None]

VARIABLES
    up,          \* m_link.connected
    counter,     \* m_link.event_counter
    started,     \* m_link.supervision.started
    rxSeen,      \* m_link.supervision.rx_seen_this_interval
    missed,      \* m_link.supervision.missed_interval_count
    conn,        \* m_link.conn: interval, latency and timeout in use
    phy,         \* m_link.phy, equal in both directions
    pendingConn, \* m_link.pending_conn_update
    pendingPhy,  \* m_link.pending_phy_update
    proc,        \* m_ctrl_rt.central.central_ctrl_proc
    stage,       \* m_ctrl_rt.central.auto_ctrl_stage, None for IDLE
    rspSlot,     \* pending_conn_ctrl_rsp_pdu
    ctrlSlot,    \* pending_conn_ctrl_pdu of the central
    l2capSlot,   \* the peripheral's parameter request in its L2CAP queue
    onAir,       \* last_conn_tx_pdu; Empty once the other end has heard it
    unacked,     \* tx_unacked of the central
    unanswered,  \* tx_unacked of the peripheral, once it has transmitted
    frozen,      \* what the ends repeat acknowledges nothing, and never will
    rx,          \* the PDU to be processed at the end of the event
    pc,          \* where the application's call is
    call,        \* its instant and parameters
    preempted,   \* handlers that preempted it
    requested,   \* history: procedures of the chain the central started
    late,        \* history: an instant passed before its PDU was heard
    calls, asks  \* history: how many so far

linkVars == <<up, counter, started, rxSeen, missed>>
paramVars == <<conn, phy, pendingConn, pendingPhy>>
procVars == <<proc, stage, requested>>
slotVars == <<rspSlot, ctrlSlot, l2capSlot>>
airVars == <<onAir, unacked, unanswered, frozen>>
callVars == <<pc, call, preempted>>
boundVars == <<calls, asks>>
vars == <<linkVars, paramVars, procVars, slotVars, airVars, rx, callVars,
          late, boundVars>>

TypeOK ==
    /\ up \in [Node -> BOOLEAN]
    /\ counter \in [Node -> Counters]
    /\ started \in [Node -> BOOLEAN] /\ rxSeen \in [Node -> BOOLEAN]
    /\ missed \in [Node -> 0 .. MissLimit]
    /\ conn \in [Node -> Params \cup {Initial}]
    /\ phy \in [Node -> Phys]
    /\ pendingConn \in [Node -> [valid : BOOLEAN, instant : Counters,
                                 value : Params \cup {None}]]
    /\ pendingPhy \in [Node -> [valid : BOOLEAN, instant : Counters,
                                value : Phys \cup {None}]]
    /\ proc \in [kind : Kinds, waits : {"RSP", "INSTANT"}] \cup {NoProc}
    /\ stage \in Chain \cup {None}
    /\ rspSlot \in [Node -> Pdus] /\ ctrlSlot \in Pdus /\ l2capSlot \in Pdus
    /\ onAir \in [Node -> Pdus]
    /\ unacked \in BOOLEAN /\ unanswered \in BOOLEAN /\ frozen \in BOOLEAN
    /\ rx \in [Node -> Pdus]
    /\ pc \in {"idle", "queue", "mark"}
    /\ call \in [instant : Counters, value : Params \cup {None}]
    /\ preempted \in 0 .. MaxPreempt
    /\ requested \subseteq Chain
    /\ late \in BOOLEAN
    /\ calls \in 0 .. MaxCalls /\ asks \in 0 .. MaxAsks

\* A connection has just been made: controller_prepare_connected_link has
\* started the chain, with the feature request in the control slot.
Init ==
    /\ up = [n \in Node |-> TRUE]
    /\ counter = [n \in Node |-> 0]
    /\ started = [n \in Node |-> FALSE]
    /\ rxSeen = [n \in Node |-> FALSE]
    /\ missed = [n \in Node |-> 0]
    /\ conn = [n \in Node |-> Initial]
    /\ phy = [n \in Node |-> "1M"]
    /\ pendingConn = [n \in Node |-> NoUpdate]
    /\ pendingPhy = [n \in Node |-> NoUpdate]
    /\ proc = [kind |-> "FEATURE", waits |-> "RSP"]
    /\ stage = "FEATURE"
    /\ rspSlot = [n \in Node |-> Empty]
    /\ ctrlSlot = Plain("FEATURE_REQ")
    /\ l2capSlot = Empty
    /\ onAir = [n \in Node |-> Empty]
    /\ unacked = FALSE /\ unanswered = FALSE /\ frozen = FALSE
    /\ rx = [n \in Node |-> Empty]
    /\ pc = "idle" /\ call = NoCall /\ preempted = 0
    /\ requested = {"FEATURE"}
    /\ late = FALSE
    /\ calls = 0 /\ asks = 0

-----------------------------------------------------------------------------
(***************************************************************************)
(* TIMER0_IRQHandler of both ends: updates at their instant, supervision,  *)
(* the event counter.                                                      *)
(***************************************************************************)

\* An update takes effect at the event whose counter equals its instant.
Due(u, n) == up[n] /\ u.valid /\ u.instant = counter[n]

ConnDue(n) == Due(pendingConn[n], n)

MissedSoFar(n) == IF ConnDue(n) THEN 0 ELSE missed[n]

\* Mutant of MissedNow: an interval without a packet is not counted.
MissedNowNever(n) == IF rxSeen[n] THEN 0 ELSE MissedSoFar(n)

\* The missed intervals, the one that ends counted.
MissedNow(n) ==
    IF ~started[n] THEN MissedSoFar(n)
    ELSE IF rxSeen[n] THEN 0 ELSE MissedSoFar(n) + 1

\* The end whose link outlives this interval's supervision.
Survives(n) == up[n] /\ ~(started[n] /\ ~rxSeen[n] /\ MissedNow(n) >= MissLimit)

PhyDue(n) == Survives(n) /\ Due(pendingPhy[n], n)

\* Mutant of ConnAtInstantEnds: the procedure is left waiting.
ConnAtInstantEndsNothing == FALSE

\* controller_central_handle_conn_update_instant_complete
ConnAtInstantEnds ==
    ConnDue(Central) /\ proc = [kind |-> "CONN_UPDATE", waits |-> "INSTANT"]

\* controller_central_handle_phy_update_instant_complete
PhyAtInstantEnds ==
    PhyDue(Central) /\ proc = [kind |-> "PHY", waits |-> "INSTANT"]

\* A connection that ends takes its pending updates, its slots and the central's
\* procedure along (controller_disconnect_internal).
Timers ==
    /\ up' = [n \in Node |-> Survives(n)]
    /\ counter' = [n \in Node |-> IF Survives(n) THEN (counter[n] + 1) % CounterMod
                                  ELSE counter[n]]
    /\ missed' = [n \in Node |-> IF up[n] THEN MissedNow(n) ELSE missed[n]]
    /\ conn' = [n \in Node |-> IF ConnDue(n) THEN pendingConn[n].value ELSE conn[n]]
    /\ phy' = [n \in Node |-> IF PhyDue(n) THEN pendingPhy[n].value ELSE phy[n]]
    /\ pendingConn' = [n \in Node |-> IF Survives(n) /\ ~ConnDue(n)
                                      THEN pendingConn[n] ELSE NoUpdate]
    /\ pendingPhy' = [n \in Node |-> IF Survives(n) /\ ~PhyDue(n)
                                     THEN pendingPhy[n] ELSE NoUpdate]
    /\ proc' = IF ~Survives(Central) \/ ConnAtInstantEnds \/ PhyAtInstantEnds
               THEN NoProc ELSE proc
    /\ stage' = IF ~Survives(Central) \/ (PhyDue(Central) /\ stage = "PHY")
                THEN None ELSE stage
    /\ UNCHANGED requested

\* The update PDU that takes effect at the central now and that the peripheral
\* has not heard yet.
Undelivered(op) ==
    \/ rspSlot[Central].op = op \/ ctrlSlot.op = op
    \/ onAir[Central].op = op

TooLate ==
    \/ ConnDue(Central) /\ Undelivered("CONN_UPDATE_IND")
    \/ PhyDue(Central) /\ Undelivered("PHY_UPDATE_IND")

-----------------------------------------------------------------------------
(***************************************************************************)
(* The exchange of one connection event.                                   *)
(***************************************************************************)

\* Packets queued for n, the most urgent first, an empty one at last.
Urgent(n) ==
    IF rspSlot[n] # Empty THEN rspSlot[n]
    ELSE IF n = Central THEN ctrlSlot ELSE l2capSlot

\* Does the central, or the peripheral that hears its peer, send a new packet?
CentralLoads == Survives(Central) /\ ~unacked
PeripheralLoads(heard) == heard /\ ~unanswered

\* Mutant of Slots: a response is sent and kept.
SlotsKeepResponse(heard) ==
    /\ UNCHANGED rspSlot
    /\ ctrlSlot' = IF ~Survives(Central) \/ (CentralLoads /\ rspSlot[Central] = Empty)
                   THEN Empty ELSE ctrlSlot
    /\ l2capSlot' = IF \/ ~Survives(Peripheral)
                       \/ PeripheralLoads(heard) /\ rspSlot[Peripheral] = Empty
                    THEN Empty ELSE l2capSlot

\* The slot a new packet came from is free again.
Slots(heard) ==
    /\ rspSlot' = [n \in Node |->
                    IF \/ ~Survives(n)
                       \/ IF n = Central THEN CentralLoads ELSE PeripheralLoads(heard)
                    THEN Empty ELSE rspSlot[n]]
    /\ ctrlSlot' = IF ~Survives(Central) \/ (CentralLoads /\ rspSlot[Central] = Empty)
                   THEN Empty ELSE ctrlSlot
    /\ l2capSlot' = IF \/ ~Survives(Peripheral)
                       \/ PeripheralLoads(heard) /\ rspSlot[Peripheral] = Empty
                    THEN Empty ELSE l2capSlot

\* A peripheral that has not transmitted yet answers a packet with a CRC error
\* by an empty one that acknowledges nothing.  Both ends then repeat what they
\* sent first, header included (controller_stage_conn_response).
Freezes(corrupt) == frozen \/ (Peripheral \in corrupt /\ ~started[Peripheral])

\* The answer acknowledges the central's packet: it was built for it, now or,
\* if the packet was not intact this time, in an earlier event.
Acknowledges(heard, corrupt) == ~Freezes(corrupt) /\ (heard \/ unanswered)

\* What is transmitted, and what is new to the end that hears it.  The ends in
\* corrupt receive a packet with a CRC error.
Exchange(heard, answered, corrupt) ==
    LET sent  == [n \in Node |->
                    IF IF n = Central THEN CentralLoads ELSE PeripheralLoads(heard)
                    THEN Urgent(n) ELSE onAir[n]]
        hears == [n \in Node |-> IF n = Central THEN answered ELSE heard]
        Other(n) == IF n = Central THEN Peripheral ELSE Central
    IN  /\ onAir' = [n \in Node |->
                        IF hears[Other(n)] \/ ~Survives(n) THEN Empty ELSE sent[n]]
        /\ rx' = [n \in Node |-> IF hears[n] THEN sent[Other(n)] ELSE Empty]
        /\ unacked' = (Survives(Central)
                          /\ ~(answered /\ Acknowledges(heard, corrupt)))
        /\ unanswered' = (Survives(Peripheral) /\
                             \/ Freezes(corrupt)
                             \/ ~answered /\ (heard \/ unanswered))
        /\ frozen' = Freezes(corrupt)
        /\ started' = [n \in Node |-> started[n] \/ hears[n] \/ n \in corrupt]
        /\ rxSeen' = [n \in Node |-> IF Survives(n) THEN hears[n] ELSE rxSeen[n]]

\* A handler may preempt the application's call.
Preempts ==
    IF pc = "idle" THEN UNCHANGED preempted
    ELSE preempted < MaxPreempt /\ preempted' = preempted + 1

\* Both TIMER0 interrupts and the event they open.  Whoever is received is on
\* the same PHY; with different connection parameters the ends may still meet.
ConnectionEvent(heard, answered) ==
    /\ \E n \in Node : up[n]
    /\ rx = [n \in Node |-> Empty]
    /\ Timers
    /\ \E corrupt \in SUBSET Node :
         LET atPeripheral == heard \/ Peripheral \in corrupt
             atCentral == answered \/ Central \in corrupt
         IN  /\ heard => Peripheral \notin corrupt
             /\ answered => Central \notin corrupt
             /\ atCentral => atPeripheral
             /\ atPeripheral => /\ \A n \in Node : Survives(n)
                                /\ phy'[Central] = phy'[Peripheral]
             /\ Exchange(heard, answered, corrupt)
    /\ Slots(heard)
    /\ late' = (late \/ TooLate)
    /\ Preempts
    /\ UNCHANGED <<pc, call, boundVars>>

-----------------------------------------------------------------------------
(***************************************************************************)
(* The automatic chain (controller_central_auto_ctrl_advance).             *)
(***************************************************************************)

\* Mutant of NextStage: the data length update is left out.
NextStageSkips(st) == IF st = "FEATURE" THEN "PHY" ELSE None

NextStage(st) ==
    CASE st = "FEATURE" -> "LENGTH"
      [] st = "LENGTH"  -> "PHY"
      [] OTHER          -> None

\* The chain stands at st with procedure p going on: start the procedure of st,
\* or go on to the stages after it, all of which need the same free slot.
Advance(st, p) ==
    IF st = None \/ p # NoProc
    THEN /\ stage' = st
         /\ proc' = p
         /\ UNCHANGED <<ctrlSlot, requested>>
    ELSE IF ctrlSlot = Empty /\ ~(st = "PHY" /\ pendingPhy[Central].valid)
    THEN /\ stage' = st
         /\ proc' = [kind |-> st, waits |-> "RSP"]
         /\ ctrlSlot' = Plain(Request[st])
         /\ requested' = requested \cup {st}
    ELSE /\ stage' = IF pendingPhy[Central].valid THEN "PHY" ELSE None
         /\ proc' = NoProc
         /\ UNCHANGED <<ctrlSlot, requested>>

\* Mutant of Complete: the chain moves on before the procedure is cleared.
CompleteLate(kind) ==
    IF stage = kind
    THEN Advance(NextStage(kind), proc)
    ELSE /\ proc' = IF proc = [kind |-> kind, waits |-> "RSP"] THEN NoProc ELSE proc
         /\ UNCHANGED <<stage, ctrlSlot, requested>>

\* A procedure of the chain is answered, or turns out to be unsupported.
Complete(kind) ==
    LET p == IF proc = [kind |-> kind, waits |-> "RSP"] THEN NoProc ELSE proc
    IN  IF stage = kind
        THEN Advance(NextStage(kind), p)
        ELSE proc' = p /\ UNCHANGED <<stage, ctrlSlot, requested>>

-----------------------------------------------------------------------------
(***************************************************************************)
(* Processing a PDU at the end of the event (ll_control_process).          *)
(***************************************************************************)

\* A response that finds its slot taken is dropped.
Answer(n, pdu) ==
    rspSlot' = IF rspSlot[n] = Empty THEN [rspSlot EXCEPT ![n] = pdu] ELSE rspSlot

\* Mutant of AcceptUpdate: the peripheral changes over at once.
AcceptUpdateNow(pdu) ==
    IF pdu.op = "CONN_UPDATE_IND"
    THEN /\ conn' = [conn EXCEPT ![Peripheral] = pdu.value]
         /\ UNCHANGED <<phy, pendingConn, pendingPhy>>
    ELSE /\ phy' = [phy EXCEPT ![Peripheral] = pdu.value]
         /\ UNCHANGED <<conn, pendingConn, pendingPhy>>

\* controller_schedule_conn_update and controller_schedule_phy_update.
AcceptUpdate(pdu) ==
    /\ IF pdu.op = "CONN_UPDATE_IND"
       THEN /\ pendingConn' = [pendingConn EXCEPT
                                 ![Peripheral] = Pending(pdu.instant, pdu.value)]
            /\ UNCHANGED pendingPhy
       ELSE /\ pendingPhy' = [pendingPhy EXCEPT
                                 ![Peripheral] = Pending(pdu.instant, pdu.value)]
            /\ UNCHANGED pendingConn
    /\ UNCHANGED <<conn, phy>>

PeripheralProcesses ==
    LET pdu == rx[Peripheral]
    IN  /\ pdu # Empty
        /\ rx' = [rx EXCEPT ![Peripheral] = Empty]
        /\ \/ /\ pdu.op \in Requests
              /\ \E value \in IF pdu.op = "PHY_REQ" THEN Phys ELSE {None} :
                    Answer(Peripheral, Carrying(Response[KindOf(pdu.op)], value))
              /\ UNCHANGED paramVars
           \/ /\ pdu.op \in Requests
              /\ Answer(Peripheral, Carrying("UNKNOWN_RSP", pdu.op))
              /\ UNCHANGED paramVars
           \/ /\ pdu.op \in {"CONN_UPDATE_IND", "PHY_UPDATE_IND"}
              /\ AcceptUpdate(pdu)
              /\ UNCHANGED rspSlot
        /\ UNCHANGED <<linkVars, procVars, ctrlSlot, l2capSlot, airVars,
                       callVars, late, boundVars>>

\* Mutant of InstantFromNow: the sum is not cut to the counter's width.
InstantUnwrapped == counter[Central] + InstantOffset

\* Six events ahead in the code: time for the announcement to be heard.
InstantFromNow == (counter[Central] + InstantOffset) % CounterMod

\* No procedure and no update goes on at the central.
MayUpdate == proc = NoProc /\ ~pendingConn[Central].valid

\* controller_schedule_conn_update and the marking of the procedure.
MarkUpdate(instant, value) ==
    /\ pendingConn' = [pendingConn EXCEPT ![Central] = Pending(instant, value)]
    /\ proc' = [kind |-> "CONN_UPDATE", waits |-> "INSTANT"]

\* controller_central_initiate_conn_update, called to answer a parameter request
\* of the peripheral; what the answer says is of no consequence here.
InitiateUpdate(value) ==
    /\ IF MayUpdate /\ ctrlSlot = Empty
       THEN /\ ctrlSlot' = Update("CONN_UPDATE_IND", InstantFromNow, value)
            /\ MarkUpdate(InstantFromNow, value)
       ELSE UNCHANGED <<ctrlSlot, pendingConn, proc>>
    /\ UNCHANGED <<stage, requested, rspSlot, conn, phy, pendingPhy>>

\* controller_central_process_phy_rsp
DecidePhy(value) ==
    /\ IF proc = [kind |-> "PHY", waits |-> "RSP"]
       THEN /\ pendingPhy' = [pendingPhy EXCEPT
                                ![Central] = Pending(InstantFromNow, value)]
            /\ proc' = [kind |-> "PHY", waits |-> "INSTANT"]
            /\ Answer(Central, Update("PHY_UPDATE_IND", InstantFromNow, value))
       ELSE UNCHANGED <<pendingPhy, proc, rspSlot>>
    /\ UNCHANGED <<stage, requested, ctrlSlot, conn, phy, pendingConn>>

\* controller_central_handle_unknown_rsp
Unsupported(op) ==
    /\ IF proc.waits = "RSP" /\ op = Request[proc.kind]
       THEN Complete(proc.kind)
       ELSE UNCHANGED <<proc, stage, ctrlSlot, requested>>
    /\ UNCHANGED <<rspSlot, paramVars>>

\* The ends share nothing while they process: the peripheral may as well go first.
CentralProcesses ==
    LET pdu == rx[Central]
    IN  /\ pdu # Empty /\ rx[Peripheral] = Empty
        /\ rx' = [rx EXCEPT ![Central] = Empty]
        /\ \/ /\ pdu.op \in {"FEATURE_RSP", "LENGTH_RSP"}
              /\ Complete(KindOf(pdu.op))
              /\ UNCHANGED <<rspSlot, paramVars>>
           \/ pdu.op = "PHY_RSP" /\ DecidePhy(pdu.value)
           \/ pdu.op = "UNKNOWN_RSP" /\ Unsupported(pdu.value)
           \/ pdu.op = "PARAM_REQ" /\ InitiateUpdate(pdu.value)
        /\ Preempts
        /\ UNCHANGED <<linkVars, l2capSlot, airVars, pc, call, late,
                       boundVars>>

-----------------------------------------------------------------------------
(***************************************************************************)
(* The applications.                                                       *)
(***************************************************************************)

\* ble_gap_initiate_conn_update at the central: its tests and its instant, ...
CallTests(value) ==
    /\ pc = "idle" /\ calls < MaxCalls
    /\ up[Central] /\ MayUpdate
    /\ pc' = "queue"
    /\ call' = [instant |-> InstantFromNow, value |-> value]
    /\ calls' = calls + 1
    /\ UNCHANGED <<linkVars, paramVars, procVars, slotVars, airVars, rx, preempted,
                   late, asks>>

\* ... the control slot, if it is free, ...
CallQueues ==
    /\ pc = "queue"
    /\ IF up[Central] /\ ctrlSlot = Empty
       THEN /\ ctrlSlot' = Update("CONN_UPDATE_IND", call.instant, call.value)
            /\ pc' = "mark"
            /\ UNCHANGED <<call, preempted>>
       ELSE /\ pc' = "idle" /\ call' = NoCall /\ preempted' = 0
            /\ UNCHANGED ctrlSlot
    /\ UNCHANGED <<linkVars, paramVars, procVars, rspSlot, l2capSlot, airVars,
                   rx, late, boundVars>>

\* ... and the update and the procedure, without another look at the link.
CallMarks ==
    /\ pc = "mark"
    /\ pc' = "idle" /\ call' = NoCall /\ preempted' = 0
    /\ MarkUpdate(call.instant, call.value)
    /\ UNCHANGED <<linkVars, conn, phy, pendingPhy, stage, requested, slotVars,
                   airVars, rx, late, boundVars>>

\* ble_gap_request_conn_params_update at the peripheral, from its application or
\* its timer.
AsksForParams(value) ==
    /\ asks < MaxAsks
    /\ up[Peripheral] /\ l2capSlot = Empty
    /\ l2capSlot' = Carrying("PARAM_REQ", value)
    /\ asks' = asks + 1
    /\ UNCHANGED <<linkVars, paramVars, procVars, rspSlot, ctrlSlot, airVars, rx,
                   callVars, late, calls>>

Handlers ==
    \/ \E heard, answered \in BOOLEAN : ConnectionEvent(heard, answered)
    \/ PeripheralProcesses
    \/ CentralProcesses

Next ==
    \/ Handlers
    \/ \E value \in Params : CallTests(value) \/ AsksForParams(value)
    \/ CallQueues
    \/ CallMarks

Spec == Init /\ [][Next]_vars

(***************************************************************************)
(* Timers and radio interrupts come while a link is up, and a call goes on *)
(* between them.  Of the channel it is assumed that a central which hears  *)
(* its peer again and again is also heard at last: what its peer receives  *)
(* is not corrupt for ever.                                                *)
(***************************************************************************)
Fairness ==
    /\ WF_vars(Handlers)
    /\ WF_vars(CallQueues)
    /\ WF_vars(CallMarks)
    /\ []<><<\E heard \in BOOLEAN : ConnectionEvent(heard, TRUE)>>_vars
           => []<><<ConnectionEvent(TRUE, TRUE)>>_vars

FairSpec == Spec /\ Fairness

-----------------------------------------------------------------------------
(***************************************************************************)
(* Properties.                                                             *)
(***************************************************************************)

\* The chain never waits for a procedure that is not going on: at every stage
\* the procedure recorded is the one of the stage.
ChainInStep == stage # None => proc.kind = stage

\* The chain that is over has started each of its procedures, also with a peer
\* that supports none of them.
ChainComplete == up[Central] /\ stage = None => requested = Chain

\* While the central waits for a response, exactly one of the request and its
\* response is queued, on the air or waiting to be processed: neither is lost
\* and no second one is on its way, whatever goes out again.
RequestUnderWay ==
    up[Central] /\ up[Peripheral] /\ proc.waits = "RSP" =>
        LET req == {Request[proc.kind]}
            rsp == {Response[proc.kind], "UNKNOWN_RSP"}
            places == {<<"ctrlSlot", ctrlSlot.op \in req>>,
                       <<"request on air", onAir[Central].op \in req>>,
                       <<"request received", rx[Peripheral].op \in req>>,
                       <<"rspSlot", rspSlot[Peripheral].op \in rsp>>,
                       <<"response on air", onAir[Peripheral].op \in rsp>>,
                       <<"response received", rx[Central].op \in rsp>>}
        IN  Cardinality({p \in places : p[2]}) = 1

\* Both ends use the same parameters and PHY in every connection event, unless
\* the PDU that announced an update was not heard before its instant.
ParametersAgree ==
    (\A n \in Node : up[n]) /\ ~late =>
        conn[Central] = conn[Peripheral] /\ phy[Central] = phy[Peripheral]

\* Every procedure of a central that has heard its peer ends, at the latest with
\* the connection, unless a CRC error on the link's first packet froze what the
\* ends acknowledge: then each hears the other and supervision ends nothing.
\* (Supervision starts with the first packet: a central whose peer is gone before
\* that waits for ever too.)
ProceduresEnd ==
    proc # NoProc /\ started[Central] /\ ~frozen ~> proc = NoProc \/ ~up[Central]

\* An announcement of a new PHY that was heard too late ends the connection at
\* both ends, which no longer understand each other.
PhyDisagreementEnds ==
    phy[Central] # phy[Peripheral] ~> ~up[Central] /\ ~up[Peripheral]

=============================================================================
