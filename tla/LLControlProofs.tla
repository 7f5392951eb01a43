--------------------------- MODULE LLControlProofs ---------------------------
(***************************************************************************)
(* Proofs about LLControl: type correctness, and that the automatic chain  *)
(* of procedures neither stalls, skips a procedure, nor loses or doubles a *)
(* request or its response, and that both ends change over together.       *)
(***************************************************************************)
EXTENDS LLControl, FiniteSetTheorems, TLAPS

-----------------------------------------------------------------------------
(***************************************************************************)
(* The inductive invariant.                                                *)
(***************************************************************************)

Answers == {Response[k] : k \in Chain} \cup {"UNKNOWN_RSP"}

\* What a PDU carries fits its opcode.
WellFormed(pdu) ==
    /\ pdu.op \in {"CONN_UPDATE_IND", "PARAM_REQ"} => pdu.value \in Params
    /\ pdu.op \in {"PHY_RSP", "PHY_UPDATE_IND"} => pdu.value \in Phys
    /\ pdu.op = "EMPTY" => pdu = Empty

\* What TypeOK does not say of PDUs, updates, calls, missed intervals and the
\* procedures that wait for a response.
DataInv ==
    /\ \A n \in Node : /\ WellFormed(rspSlot[n])
                       /\ WellFormed(onAir[n])
                       /\ WellFormed(rx[n])
    /\ WellFormed(ctrlSlot) /\ WellFormed(l2capSlot)
    /\ \A n \in Node : /\ pendingConn[n].valid => pendingConn[n].value \in Params
                       /\ pendingPhy[n].valid => pendingPhy[n].value \in Phys
                       /\ up[n] => missed[n] < MissLimit
    /\ pc # "idle" => call.value \in Params
    /\ proc.waits = "RSP" => proc.kind \in Chain

\* What each slot holds.
SlotInv ==
    /\ rspSlot[Central].op \in {"EMPTY", "PHY_UPDATE_IND"}
    /\ rspSlot[Peripheral].op \in {"EMPTY"} \cup Answers
    /\ ctrlSlot.op \in {"EMPTY", "CONN_UPDATE_IND"} \cup Requests
    /\ l2capSlot.op \in {"EMPTY", "PARAM_REQ"}

\* How a procedure waits, and that no other one goes on while a PHY update is
\* pending or the application's call has passed its tests.
ProcInv ==
    /\ proc.kind \in {"FEATURE", "LENGTH"} => proc.waits = "RSP"
    /\ pendingPhy[Central].valid => proc = [kind |-> "PHY", waits |-> "INSTANT"]
    /\ pc # "idle" => stage = None /\ proc.kind \in {None, "CONN_UPDATE"}

\* The chain has the control slot for itself, and has started what is behind it.
ChainInv ==
    /\ stage # None => ctrlSlot.op # "CONN_UPDATE_IND"
    /\ up[Central] =>
           /\ stage = "FEATURE" => requested = {"FEATURE"}
           /\ stage = "LENGTH"  => requested = {"FEATURE", "LENGTH"}
           /\ stage \in {"PHY", None} => requested = Chain

\* The places of a request and its response, on their way.
RequestQueued == ctrlSlot.op \in Requests
RequestOnAir == onAir[Central].op \in Requests
RequestReceived == rx[Peripheral].op \in Requests
ResponseQueued == rspSlot[Peripheral].op \in Answers
ResponseOnAir == onAir[Peripheral].op \in Answers
ResponseReceived == rx[Central].op \in Answers

\* At most one place is taken.
OnePlaceInv ==
    /\ RequestQueued => ~(RequestOnAir \/ RequestReceived \/ ResponseQueued
                            \/ ResponseOnAir \/ ResponseReceived)
    /\ RequestOnAir => ~(RequestReceived \/ ResponseQueued \/ ResponseOnAir
                            \/ ResponseReceived)
    /\ RequestReceived => ~(ResponseQueued \/ ResponseOnAir \/ ResponseReceived)
    /\ ResponseQueued => ~(ResponseOnAir \/ ResponseReceived)
    /\ ResponseOnAir => ~ResponseReceived

Asks(kind, pdu) == pdu.op = Request[kind]
Responds(kind, pdu) ==
    \/ pdu.op = Response[kind]
    \/ pdu.op = "UNKNOWN_RSP" /\ pdu.value = Request[kind]

\* While a response is awaited, what is on its way belongs to the procedure.
MatchInv ==
    proc.waits = "RSP" =>
        /\ RequestQueued => Asks(proc.kind, ctrlSlot)
        /\ RequestOnAir => Asks(proc.kind, onAir[Central])
        /\ RequestReceived => Asks(proc.kind, rx[Peripheral])
        /\ ResponseQueued => Responds(proc.kind, rspSlot[Peripheral])
        /\ ResponseOnAir => Responds(proc.kind, onAir[Peripheral])
        /\ ResponseReceived => Responds(proc.kind, rx[Central])

\* A packet that was acknowledged is not on the air, the central repeats what the
\* peripheral has heard and answered, and while a response is awaited between two
\* live ends some place is taken.
UnderWayInv ==
    /\ ~unacked => onAir[Central] = Empty
    /\ ~unanswered => onAir[Peripheral] = Empty
    /\ up[Central] /\ unanswered /\ ~frozen => unacked /\ onAir[Central] = Empty
    /\ up[Central] /\ up[Peripheral] /\ proc.waits = "RSP" =>
           \/ RequestQueued \/ RequestOnAir \/ RequestReceived
           \/ ResponseQueued \/ ResponseOnAir \/ ResponseReceived

\* The places, taken together.
WayInv == ChainInv /\ OnePlaceInv /\ MatchInv /\ UnderWayInv

TypeInv == TypeOK /\ DataInv
StepInv == ProcInv /\ ChainInStep

-----------------------------------------------------------------------------
(***************************************************************************)
(* Type correctness.                                                       *)
(***************************************************************************)

\* The two ends are different, and so are the procedures of the chain.
LEMMA NodesDiffer == Central # Peripheral /\ Node = {Central, Peripheral}
  BY DEF Central, Peripheral, Node

\* The constants of the module have the types the variables need.
LEMMA Constants ==
    /\ 0 \in Counters
    /\ \A i \in Nat : i % CounterMod \in Counters
    /\ Empty \in Pdus /\ WellFormed(Empty)
    /\ \A k \in Chain : Plain(Request[k]) \in Pdus /\ WellFormed(Plain(Request[k]))
    /\ {None} \cup Phys \cup Requests \cup Params \subseteq Values
    /\ Chain \subseteq Kinds
<1>1. CounterMod \in Nat /\ CounterMod > 0
  BY CounterAssumption
<1>2. 0 \in Counters /\ \A i \in Nat : i % CounterMod \in Counters
  BY <1>1 DEF Counters
<1>3. {None} \cup Phys \cup Requests \cup Params \subseteq Values
  BY DEF Values
<1>4. Empty \in Pdus /\ WellFormed(Empty)
  BY <1>2 DEF Empty, Plain, Carrying, Pdus, Ops, Values, WellFormed
<1>5. ASSUME NEW k \in Chain
      PROVE  Plain(Request[k]) \in Pdus /\ WellFormed(Plain(Request[k]))
  <2>1. Request[k] \in Requests
    BY <1>5 DEF Requests
  <2>2. Request[k] \notin {"CONN_UPDATE_IND", "PARAM_REQ", "PHY_RSP",
                           "PHY_UPDATE_IND", "EMPTY"}
    BY <1>5 DEF Request, Chain
  <2> QED
    BY <2>1, <2>2, <1>2 DEF Plain, Carrying, Pdus, Ops, Values, WellFormed
<1> QED
  BY <1>2, <1>3, <1>4, <1>5 DEF Kinds

\* A request is of one procedure of the chain, and so is its response.
LEMMA RequestOfOne ==
    /\ KindOf("FEATURE_REQ") = "FEATURE" /\ KindOf("FEATURE_RSP") = "FEATURE"
    /\ KindOf("LENGTH_REQ") = "LENGTH" /\ KindOf("LENGTH_RSP") = "LENGTH"
    /\ KindOf("PHY_REQ") = "PHY" /\ KindOf("PHY_RSP") = "PHY"
    /\ Requests = {"FEATURE_REQ", "LENGTH_REQ", "PHY_REQ"}
    /\ \A k \in Chain : KindOf(Request[k]) = k /\ KindOf(Response[k]) = k
  BY DEF KindOf, Request, Response, Chain, Requests

LEMMA ResponseType ==
    ASSUME NEW op \in Requests,
           NEW value \in IF op = "PHY_REQ" THEN Phys ELSE {None}
    PROVE  /\ Carrying(Response[KindOf(op)], value) \in Pdus
           /\ WellFormed(Carrying(Response[KindOf(op)], value))
<1>1. Response[KindOf(op)] \in Ops
  BY RequestOfOne DEF Response, Ops, Chain
<1>2. Response[KindOf(op)] \in {"FEATURE_RSP", "LENGTH_RSP", "PHY_RSP"}
      /\ (Response[KindOf(op)] = "PHY_RSP" => op = "PHY_REQ")
  BY RequestOfOne DEF Response, Chain
<1>3. value \in Values
  BY Constants
<1> QED
  BY <1>1, <1>2, <1>3, Constants DEF Carrying, Pdus, WellFormed

LEMMA InitType == Init => TypeInv
<1> SUFFICES ASSUME Init PROVE TypeInv
  OBVIOUS
<1>1. DataInv
  <2>1. Plain("FEATURE_REQ") = Plain(Request["FEATURE"]) /\ "FEATURE" \in Chain
    BY DEF Request, Chain
  <2>2. WellFormed(ctrlSlot) /\ WellFormed(l2capSlot)
    BY <2>1, Constants DEF Init
  <2>3. \A n \in Node : WellFormed(rspSlot[n]) /\ WellFormed(onAir[n]) /\ WellFormed(rx[n])
    BY Constants DEF Init
  <2> QED
    BY <2>2, <2>3, CounterAssumption DEF Init, DataInv, NoUpdate, Chain
<1>2. ctrlSlot \in Pdus /\ "FEATURE" \in Chain
  BY Constants DEF Init, Chain, Request
<1>3. pendingConn \in [Node -> [valid : BOOLEAN, instant : Counters,
                                value : Params \cup {None}]]
  BY Constants DEF Init, NoUpdate
<1>4. pendingPhy \in [Node -> [valid : BOOLEAN, instant : Counters,
                               value : Phys \cup {None}]]
  BY Constants DEF Init, NoUpdate
<1>5. /\ proc \in [kind : Kinds, waits : {"RSP", "INSTANT"}] \cup {NoProc}
      /\ stage \in Chain \cup {None} /\ requested \subseteq Chain
  BY <1>2 DEF Init, Kinds
<1>6. phy \in [Node -> Phys] /\ missed \in [Node -> 0 .. MissLimit]
  BY CounterAssumption DEF Init, Phys
<1>7. /\ calls \in 0 .. MaxCalls /\ asks \in 0 .. MaxAsks
      /\ preempted \in 0 .. MaxPreempt
  BY BoundAssumption DEF Init
<1>8. call \in [instant : Counters, value : Params \cup {None}]
  BY Constants DEF Init, NoCall
<1> QED
  BY <1>1, <1>2, <1>3, <1>4, <1>5, <1>6, <1>7, <1>8, Constants
  DEF Init, TypeInv, TypeOK

\* What the timers do to types.
LEMMA TimersType ==
    ASSUME TypeInv, Timers
    PROVE  /\ up' \in [Node -> BOOLEAN]
           /\ counter' \in [Node -> Counters]
           /\ missed' \in [Node -> 0 .. MissLimit]
           /\ conn' \in [Node -> Params \cup {Initial}]
           /\ phy' \in [Node -> Phys]
           /\ pendingConn' \in [Node -> [valid : BOOLEAN, instant : Counters,
                                         value : Params \cup {None}]]
           /\ pendingPhy' \in [Node -> [valid : BOOLEAN, instant : Counters,
                                        value : Phys \cup {None}]]
           /\ proc' \in [kind : Kinds, waits : {"RSP", "INSTANT"}] \cup {NoProc}
           /\ proc'.waits = "RSP" => proc'.kind \in Chain
           /\ stage' \in Chain \cup {None}
           /\ requested' \subseteq Chain
           /\ \A n \in Node : up'[n] = Survives(n)
           /\ \A n \in Node :
                /\ pendingConn'[n].valid => pendingConn'[n].value \in Params
                /\ pendingPhy'[n].valid => pendingPhy'[n].value \in Phys
                /\ up'[n] => missed'[n] < MissLimit
<1> USE DEF TypeInv, TypeOK, DataInv, Timers
<1>1. \A n \in Node : Survives(n) \in BOOLEAN /\ PhyDue(n) \in BOOLEAN
                      /\ ConnDue(n) \in BOOLEAN
  BY DEF Survives, PhyDue, ConnDue, Due
<1>2. \A n \in Node : MissedSoFar(n) \in 0 .. MissLimit
                      /\ (up[n] => MissedSoFar(n) < MissLimit)
  BY CounterAssumption DEF MissedSoFar
<1>3. \A n \in Node : up[n] => MissedNow(n) \in 0 .. MissLimit
  BY <1>2, CounterAssumption DEF MissedNow
<1>4. \A n \in Node : Survives(n) => MissedNow(n) < MissLimit
  BY <1>2, CounterAssumption DEF MissedNow, Survives
<1>5. missed' \in [Node -> 0 .. MissLimit]
  BY <1>3
<1>6. counter' \in [Node -> Counters]
  <2>1. \A n \in Node : counter[n] + 1 \in Nat
    BY CounterAssumption DEF Counters
  <2> QED
    BY <2>1, Constants
<1>7. NoUpdate \in [valid : BOOLEAN, instant : Counters, value : Params \cup {None}]
      /\ NoUpdate \in [valid : BOOLEAN, instant : Counters, value : Phys \cup {None}]
      /\ ~NoUpdate.valid
  BY Constants DEF NoUpdate
<1>8. \A n \in Node : ConnDue(n) => pendingConn[n].value \in Params
  BY DEF ConnDue, Due
<1>9. \A n \in Node : PhyDue(n) => pendingPhy[n].value \in Phys
  BY DEF PhyDue, Due
<1>10. conn' \in [Node -> Params \cup {Initial}] /\ phy' \in [Node -> Phys]
  BY <1>8, <1>9
<1>11. /\ pendingConn' \in [Node -> [valid : BOOLEAN, instant : Counters,
                                     value : Params \cup {None}]]
       /\ pendingPhy' \in [Node -> [valid : BOOLEAN, instant : Counters,
                                    value : Phys \cup {None}]]
  BY <1>7
<1>12. \A n \in Node :
          /\ pendingConn'[n].valid => pendingConn'[n].value \in Params
          /\ pendingPhy'[n].valid => pendingPhy'[n].value \in Phys
  BY <1>7
<1>13. \A n \in Node : up'[n] = Survives(n)
  OBVIOUS
<1>14. \A n \in Node : up'[n] => missed'[n] < MissLimit
  BY <1>4 DEF Survives
<1>15. up' \in [Node -> BOOLEAN]
  BY <1>1
<1>16. proc'.waits = "RSP" => proc'.kind \in Chain
  BY DEF NoProc
<1> QED
  BY <1>5, <1>6, <1>10, <1>11, <1>12, <1>13, <1>14, <1>15,
     <1>16

\* What the exchange does to types.
LEMMA ExchangeType ==
    ASSUME TypeInv, NEW heard \in BOOLEAN, NEW answered \in BOOLEAN,
           NEW corrupt \in SUBSET Node,
           Slots(heard), Exchange(heard, answered, corrupt)
    PROVE  /\ rspSlot' \in [Node -> Pdus] /\ ctrlSlot' \in Pdus /\ l2capSlot' \in Pdus
           /\ onAir' \in [Node -> Pdus] /\ rx' \in [Node -> Pdus]
           /\ unacked' \in BOOLEAN /\ unanswered' \in BOOLEAN /\ frozen' \in BOOLEAN
           /\ started' \in [Node -> BOOLEAN] /\ rxSeen' \in [Node -> BOOLEAN]
           /\ \A n \in Node : WellFormed(rspSlot'[n]) /\ WellFormed(onAir'[n])
                             /\ WellFormed(rx'[n])
           /\ WellFormed(ctrlSlot') /\ WellFormed(l2capSlot')
<1> USE DEF TypeInv
<1> DEFINE loads(n) == IF n = Central THEN CentralLoads ELSE PeripheralLoads(heard)
           sent == [n \in Node |-> IF loads(n) THEN Urgent(n) ELSE onAir[n]]
           hears == [n \in Node |-> IF n = Central THEN answered ELSE heard]
           other(n) == IF n = Central THEN Peripheral ELSE Central
<1>1. /\ rspSlot' \in [Node -> Pdus] /\ ctrlSlot' \in Pdus /\ l2capSlot' \in Pdus
      /\ \A n \in Node : WellFormed(rspSlot'[n])
      /\ WellFormed(ctrlSlot') /\ WellFormed(l2capSlot')
  BY Constants DEF Slots, TypeOK, DataInv
<1>2. sent \in [Node -> Pdus] /\ \A n \in Node : WellFormed(sent[n])
  BY DEF Urgent, TypeOK, DataInv
<1>3. \A n \in Node : other(n) \in Node
  BY NodesDiffer
<1>4. /\ onAir' = [n \in Node |-> IF hears[other(n)] \/ ~Survives(n)
                                  THEN Empty ELSE sent[n]]
      /\ rx' = [n \in Node |-> IF hears[n] THEN sent[other(n)] ELSE Empty]
      /\ started' = [n \in Node |-> started[n] \/ hears[n] \/ n \in corrupt]
      /\ rxSeen' = [n \in Node |-> IF Survives(n) THEN hears[n] ELSE rxSeen[n]]
      /\ unacked' = (Survives(Central)
                        /\ ~(answered /\ Acknowledges(heard, corrupt)))
      /\ unanswered' = (Survives(Peripheral) /\
                           \/ Freezes(corrupt)
                           \/ ~answered /\ (heard \/ unanswered))
      /\ frozen' = Freezes(corrupt)
  BY Zenon DEF Exchange
<1> HIDE DEF sent, other
<1>5. /\ onAir' \in [Node -> Pdus] /\ rx' \in [Node -> Pdus]
      /\ \A n \in Node : WellFormed(onAir'[n]) /\ WellFormed(rx'[n])
  BY <1>2, <1>3, <1>4, Constants
<1>6. /\ unacked' \in BOOLEAN /\ unanswered' \in BOOLEAN /\ frozen' \in BOOLEAN
      /\ started' \in [Node -> BOOLEAN] /\ rxSeen' \in [Node -> BOOLEAN]
  BY <1>4 DEF TypeOK, Freezes, Acknowledges, Survives
<1> QED
  BY <1>1, <1>5, <1>6

LEMMA ConnectionEventType ==
    ASSUME TypeInv, NEW heard \in BOOLEAN, NEW answered \in BOOLEAN,
           ConnectionEvent(heard, answered)
    PROVE  TypeInv'
<1>1. PICK corrupt \in SUBSET Node : Exchange(heard, answered, corrupt)
  BY DEF ConnectionEvent
<1>2. /\ preempted' \in 0 .. MaxPreempt /\ late' \in BOOLEAN
      /\ Timers /\ Slots(heard) /\ UNCHANGED <<pc, call, boundVars>>
  <2>1. preempted' \in 0 .. MaxPreempt
    BY BoundAssumption DEF ConnectionEvent, Preempts, TypeInv, TypeOK
  <2>2. late' \in BOOLEAN
    BY DEF ConnectionEvent, TypeInv, TypeOK, TooLate, PhyDue, ConnDue, Due
  <2> QED
    BY <2>1, <2>2 DEF ConnectionEvent
<1>3. TypeOK'
  BY <1>1, <1>2, TimersType, ExchangeType DEF TypeInv, TypeOK, boundVars
<1>4. DataInv'
  BY <1>1, <1>2, TimersType, ExchangeType DEF TypeInv, DataInv
<1> QED
  BY <1>3, <1>4 DEF TypeInv

LEMMA PeripheralProcessesType ==
    ASSUME TypeInv, PeripheralProcesses
    PROVE  TypeInv'
<1> USE DEF TypeInv
<1> DEFINE pdu == rx[Peripheral]
<1>1. rx' \in [Node -> Pdus] /\ \A n \in Node : WellFormed(rx'[n])
  BY Constants DEF PeripheralProcesses, TypeOK, DataInv
<1>2. /\ rspSlot' \in [Node -> Pdus] /\ \A n \in Node : WellFormed(rspSlot'[n])
      /\ conn' \in [Node -> Params \cup {Initial}] /\ phy' \in [Node -> Phys]
      /\ pendingConn' \in [Node -> [valid : BOOLEAN, instant : Counters,
                                    value : Params \cup {None}]]
      /\ pendingPhy' \in [Node -> [valid : BOOLEAN, instant : Counters,
                                   value : Phys \cup {None}]]
      /\ \A n \in Node :
            /\ pendingConn'[n].valid => pendingConn'[n].value \in Params
            /\ pendingPhy'[n].valid => pendingPhy'[n].value \in Phys
  <2>0. pdu \in Pdus /\ WellFormed(pdu) /\ Peripheral \in Node
    BY NodesDiffer DEF TypeOK, DataInv
  <2>1. CASE pdu.op \in Requests /\ UNCHANGED paramVars
             /\ \E value \in IF pdu.op = "PHY_REQ" THEN Phys ELSE {None} :
                    Answer(Peripheral, Carrying(Response[KindOf(pdu.op)], value))
    <3>1. PICK value \in IF pdu.op = "PHY_REQ" THEN Phys ELSE {None} :
             Answer(Peripheral, Carrying(Response[KindOf(pdu.op)], value))
      BY <2>1
    <3>2. Carrying(Response[KindOf(pdu.op)], value) \in Pdus
          /\ WellFormed(Carrying(Response[KindOf(pdu.op)], value))
      BY <2>1, <3>1, ResponseType
    <3> QED
      BY <2>1, <3>1, <3>2 DEF Answer, TypeOK, DataInv, paramVars
  <2>2. CASE pdu.op \in Requests /\ UNCHANGED paramVars
             /\ Answer(Peripheral, Carrying("UNKNOWN_RSP", pdu.op))
    <3>1. Carrying("UNKNOWN_RSP", pdu.op) \in Pdus
          /\ WellFormed(Carrying("UNKNOWN_RSP", pdu.op))
      BY <2>2, Constants DEF Carrying, Pdus, Ops, WellFormed
    <3> QED
      BY <2>2, <3>1 DEF Answer, TypeOK, DataInv, paramVars
  <2>3. CASE /\ pdu.op \in {"CONN_UPDATE_IND", "PHY_UPDATE_IND"}
             /\ AcceptUpdate(pdu) /\ UNCHANGED rspSlot
    <3>1. /\ pdu.op = "CONN_UPDATE_IND" => pdu.value \in Params
          /\ pdu.op = "PHY_UPDATE_IND" => pdu.value \in Phys
          /\ pdu.instant \in Counters
      BY <2>0 DEF WellFormed, Pdus
    <3>2. CASE pdu.op = "CONN_UPDATE_IND"
      <4> DEFINE u == Pending(pdu.instant, pdu.value)
      <4>1. pendingConn' = [pendingConn EXCEPT ![Peripheral] = u]
            /\ UNCHANGED <<pendingPhy, conn, phy, rspSlot>>
        BY <2>3, <3>2 DEF AcceptUpdate
      <4>2. u \in [valid : BOOLEAN, instant : Counters, value : Params \cup {None}]
            /\ u.value \in Params
        BY <3>1, <3>2 DEF Pending
      <4> HIDE DEF u
      <4> QED
        BY <4>1, <4>2 DEF TypeOK, DataInv
    <3>3. CASE pdu.op = "PHY_UPDATE_IND"
      <4> DEFINE u == Pending(pdu.instant, pdu.value)
      <4>1. pendingPhy' = [pendingPhy EXCEPT ![Peripheral] = u]
            /\ UNCHANGED <<pendingConn, conn, phy, rspSlot>>
        BY <2>3, <3>3 DEF AcceptUpdate
      <4>2. u \in [valid : BOOLEAN, instant : Counters, value : Phys \cup {None}]
            /\ u.value \in Phys
        BY <3>1, <3>3 DEF Pending
      <4> HIDE DEF u
      <4> QED
        BY <4>1, <4>2 DEF TypeOK, DataInv
    <3> QED
      BY <2>3, <3>2, <3>3
  <2> QED
    BY <2>1, <2>2, <2>3 DEF PeripheralProcesses
<1> QED
  BY <1>1, <1>2
  DEF PeripheralProcesses, TypeOK, DataInv, linkVars, procVars, airVars, callVars,
      boundVars

\* What the chain does to types.
LEMMA CompleteType ==
    ASSUME TypeInv, NEW kind \in Chain, Complete(kind)
    PROVE  /\ proc' \in [kind : Kinds, waits : {"RSP", "INSTANT"}] \cup {NoProc}
           /\ proc'.waits = "RSP" => proc'.kind \in Chain
           /\ stage' \in Chain \cup {None}
           /\ ctrlSlot' \in Pdus /\ WellFormed(ctrlSlot')
           /\ requested' \subseteq Chain
<1> USE DEF TypeInv
<1> DEFINE p == IF proc = [kind |-> kind, waits |-> "RSP"] THEN NoProc ELSE proc
<1>1. p \in [kind : Kinds, waits : {"RSP", "INSTANT"}] \cup {NoProc}
      /\ (p.waits = "RSP" => p.kind \in Chain)
  BY DEF TypeOK, DataInv, NoProc
<1>2. NextStage(kind) \in Chain \cup {None}
  BY DEF NextStage, Chain
<1>3. CASE stage = kind
  <2>1. Advance(NextStage(kind), p)
    BY <1>3 DEF Complete
  <2> HIDE DEF p
  <2> DEFINE st == NextStage(kind)
  <2>2. CASE st = None \/ p # NoProc
    BY <1>1, <1>2, <2>1, <2>2 DEF Advance, TypeOK, DataInv
  <2>3. CASE st \in Chain /\ p = NoProc /\ proc'.waits = "RSP"
    <3>1. /\ stage' = st /\ proc' = [kind |-> st, waits |-> "RSP"]
          /\ ctrlSlot' = Plain(Request[st]) /\ requested' = requested \cup {st}
      BY <2>1, <2>3 DEF Advance, NoProc, Chain, None
    <3>2. st \in Kinds
      BY <2>3, Constants
    <3> QED
      BY <2>3, <3>1, <3>2, Constants DEF TypeOK
  <2>4. CASE st \in Chain /\ p = NoProc /\ proc'.waits # "RSP"
    <3>1. /\ stage' \in {"PHY", None} /\ proc' = NoProc
          /\ UNCHANGED <<ctrlSlot, requested>>
      BY <2>1, <2>4 DEF Advance, NoProc, Chain, None
    <3> QED
      BY <3>1, <2>4 DEF TypeOK, DataInv, Chain
  <2> QED
    BY <1>2, <2>2, <2>3, <2>4
<1>4. CASE stage # kind
  BY <1>1, <1>4 DEF Complete, TypeOK, DataInv
<1> QED
  BY <1>3, <1>4

\* An update decided now is a PDU for an instant within the counter's range.
LEMMA UpdateType ==
    ASSUME NEW instant \in Counters
    PROVE  /\ \A value \in Params :
                 /\ Update("CONN_UPDATE_IND", instant, value) \in Pdus
                 /\ WellFormed(Update("CONN_UPDATE_IND", instant, value))
           /\ \A value \in Phys :
                 /\ Update("PHY_UPDATE_IND", instant, value) \in Pdus
                 /\ WellFormed(Update("PHY_UPDATE_IND", instant, value))
  BY Constants DEF Update, Pdus, Ops, WellFormed

LEMMA InstantType ==
    ASSUME TypeInv
    PROVE  InstantFromNow \in Counters
<1>1. counter[Central] + InstantOffset \in Nat
  BY CounterAssumption, NodesDiffer DEF TypeInv, TypeOK, Counters
<1> QED
  BY <1>1, Constants DEF InstantFromNow

\* Marking an update that was tested for.
LEMMA MarkType ==
    ASSUME TypeInv, NEW instant \in Counters, NEW value \in Params,
           MarkUpdate(instant, value)
    PROVE  /\ proc' \in [kind : Kinds, waits : {"RSP", "INSTANT"}] \cup {NoProc}
           /\ proc'.waits # "RSP"
           /\ pendingConn' \in [Node -> [valid : BOOLEAN, instant : Counters,
                                         value : Params \cup {None}]]
           /\ \A n \in Node : pendingConn'[n].valid => pendingConn'[n].value \in Params
<1> DEFINE u == Pending(instant, value)
<1>1. u \in [valid : BOOLEAN, instant : Counters, value : Params \cup {None}]
      /\ u.value \in Params
  BY DEF Pending
<1>2. pendingConn' = [pendingConn EXCEPT ![Central] = u]
  BY DEF MarkUpdate
<1>3. proc' \in [kind : Kinds, waits : {"RSP", "INSTANT"}] /\ proc'.waits # "RSP"
  BY DEF MarkUpdate, Kinds
<1> HIDE DEF u
<1> QED
  BY <1>1, <1>2, <1>3 DEF TypeInv, TypeOK, DataInv

LEMMA CentralProcessesType ==
    ASSUME TypeInv, CentralProcesses
    PROVE  TypeInv'
<1> USE DEF TypeInv
<1> DEFINE pdu == rx[Central]
<1>0. pdu \in Pdus /\ WellFormed(pdu) /\ Central \in Node
  BY NodesDiffer DEF TypeOK, DataInv
<1>1. /\ rx' \in [Node -> Pdus] /\ \A n \in Node : WellFormed(rx'[n])
      /\ preempted' \in 0 .. MaxPreempt
      /\ UNCHANGED <<linkVars, l2capSlot, airVars, pc, call, late, boundVars>>
  <2>1. preempted' \in 0 .. MaxPreempt
    BY BoundAssumption DEF CentralProcesses, Preempts, TypeOK
  <2>2. rx' \in [Node -> Pdus] /\ \A n \in Node : WellFormed(rx'[n])
    BY Constants DEF CentralProcesses, TypeOK, DataInv
  <2> QED
    BY <2>1, <2>2 DEF CentralProcesses
<1>2. /\ proc' \in [kind : Kinds, waits : {"RSP", "INSTANT"}] \cup {NoProc}
      /\ proc'.waits = "RSP" => proc'.kind \in Chain
      /\ stage' \in Chain \cup {None}
      /\ ctrlSlot' \in Pdus /\ WellFormed(ctrlSlot')
      /\ requested' \subseteq Chain
      /\ rspSlot' \in [Node -> Pdus] /\ \A n \in Node : WellFormed(rspSlot'[n])
      /\ UNCHANGED <<conn, phy>>
      /\ pendingConn' \in [Node -> [valid : BOOLEAN, instant : Counters,
                                    value : Params \cup {None}]]
      /\ pendingPhy' \in [Node -> [valid : BOOLEAN, instant : Counters,
                                   value : Phys \cup {None}]]
      /\ \A n \in Node :
            /\ pendingConn'[n].valid => pendingConn'[n].value \in Params
            /\ pendingPhy'[n].valid => pendingPhy'[n].value \in Phys
  <2>1. CASE /\ pdu.op \in {"FEATURE_RSP", "LENGTH_RSP"}
             /\ Complete(KindOf(pdu.op)) /\ UNCHANGED <<rspSlot, paramVars>>
    <3>1. KindOf(pdu.op) \in Chain
      BY <2>1, RequestOfOne DEF Chain
    <3> QED
      BY <2>1, <3>1, CompleteType DEF paramVars, TypeOK, DataInv
  <2>2. CASE pdu.op = "PHY_RSP" /\ DecidePhy(pdu.value)
    <3>1. pdu.value \in Phys /\ InstantFromNow \in Counters
      BY <1>0, <2>2, InstantType DEF WellFormed
    <3>2. CASE proc = [kind |-> "PHY", waits |-> "RSP"]
      <4> DEFINE u == Pending(InstantFromNow, pdu.value)
                 d == Update("PHY_UPDATE_IND", InstantFromNow, pdu.value)
      <4>1. /\ pendingPhy' = [pendingPhy EXCEPT ![Central] = u]
            /\ proc' = [kind |-> "PHY", waits |-> "INSTANT"]
            /\ Answer(Central, d)
            /\ UNCHANGED <<stage, requested, ctrlSlot, conn, phy, pendingConn>>
        BY <2>2, <3>2 DEF DecidePhy
      <4>2. u \in [valid : BOOLEAN, instant : Counters, value : Phys \cup {None}]
            /\ u.value \in Phys
        BY <3>1 DEF Pending
      <4>3. d \in Pdus /\ WellFormed(d)
        BY <3>1, UpdateType
      <4>4. proc' \in [kind : Kinds, waits : {"RSP", "INSTANT"}] /\ proc'.waits # "RSP"
        BY <4>1 DEF Kinds, Chain
      <4> HIDE DEF u, d
      <4>5. rspSlot' \in [Node -> Pdus] /\ \A n \in Node : WellFormed(rspSlot'[n])
        BY <1>0, <4>1, <4>3 DEF Answer, TypeOK, DataInv
      <4> QED
        BY <1>0, <4>1, <4>2, <4>4, <4>5 DEF TypeOK, DataInv
    <3>3. CASE proc # [kind |-> "PHY", waits |-> "RSP"]
      BY <2>2, <3>3 DEF DecidePhy, TypeOK, DataInv
    <3> QED
      BY <3>2, <3>3
  <2>3. CASE pdu.op = "UNKNOWN_RSP" /\ Unsupported(pdu.value)
    <3>1. CASE proc.waits = "RSP" /\ pdu.value = Request[proc.kind]
      <4>1. proc.kind \in Chain
        BY <3>1 DEF DataInv
      <4> QED
        BY <2>3, <3>1, <4>1, CompleteType DEF Unsupported, paramVars, TypeOK, DataInv
    <3>2. CASE ~(proc.waits = "RSP" /\ pdu.value = Request[proc.kind])
      BY <2>3, <3>2 DEF Unsupported, paramVars, TypeOK, DataInv
    <3> QED
      BY <3>1, <3>2
  <2>4. CASE pdu.op = "PARAM_REQ" /\ InitiateUpdate(pdu.value)
    <3>1. pdu.value \in Params /\ InstantFromNow \in Counters
      BY <1>0, <2>4, InstantType DEF WellFormed
    <3>2. CASE MayUpdate /\ ctrlSlot = Empty
      <4>1. MarkUpdate(InstantFromNow, pdu.value)
            /\ ctrlSlot' = Update("CONN_UPDATE_IND", InstantFromNow, pdu.value)
            /\ UNCHANGED <<stage, requested, rspSlot, conn, phy, pendingPhy>>
        BY <2>4, <3>2 DEF InitiateUpdate
      <4>2. ctrlSlot' \in Pdus /\ WellFormed(ctrlSlot')
        BY <3>1, <4>1, UpdateType
      <4> QED
        BY <3>1, <4>1, <4>2, MarkType DEF TypeOK, DataInv
    <3>3. CASE ~(MayUpdate /\ ctrlSlot = Empty)
      BY <2>4, <3>3 DEF InitiateUpdate, TypeOK, DataInv
    <3> QED
      BY <3>2, <3>3
  <2> QED
    BY <2>1, <2>2, <2>3, <2>4 DEF CentralProcesses
<1> QED
  BY <1>1, <1>2 DEF TypeOK, DataInv, linkVars, airVars, boundVars

\* The steps of the applications.
LEMMA ApplicationsType ==
    ASSUME TypeInv,
           \/ \E value \in Params : CallTests(value) \/ AsksForParams(value)
           \/ CallQueues \/ CallMarks
    PROVE  TypeInv'
<1> USE DEF TypeInv
<1>1. ASSUME NEW value \in Params, CallTests(value) PROVE TypeInv'
  <2>1. call' \in [instant : Counters, value : Params \cup {None}]
        /\ call'.value \in Params
    BY <1>1, InstantType DEF CallTests
  <2>2. calls' \in 0 .. MaxCalls
    BY <1>1, BoundAssumption DEF CallTests, TypeOK
  <2>3. /\ pc' = "queue"
        /\ UNCHANGED <<linkVars, paramVars, procVars, slotVars, airVars, rx,
                       preempted, late, asks>>
    BY <1>1 DEF CallTests
  <2> QED
    BY <2>1, <2>2, <2>3
    DEF TypeOK, DataInv, linkVars, paramVars, procVars, slotVars, airVars
<1>2. ASSUME NEW value \in Params, AsksForParams(value) PROVE TypeInv'
  <2>1. l2capSlot' \in Pdus /\ WellFormed(l2capSlot')
    BY <1>2, Constants DEF AsksForParams, Carrying, Pdus, Ops, WellFormed
  <2>2. asks' \in 0 .. MaxAsks
    BY <1>2, BoundAssumption DEF AsksForParams, TypeOK
  <2>3. UNCHANGED <<linkVars, paramVars, procVars, rspSlot, ctrlSlot, airVars, rx,
                    callVars, late, calls>>
    BY <1>2 DEF AsksForParams
  <2> QED
    BY <2>1, <2>2, <2>3
    DEF TypeOK, DataInv, linkVars, paramVars, procVars, airVars, callVars
<1>3. ASSUME CallQueues PROVE TypeInv'
  <2>1. NoCall \in [instant : Counters, value : Params \cup {None}]
        /\ 0 \in 0 .. MaxPreempt
    BY Constants, BoundAssumption DEF NoCall
  <2>2. Update("CONN_UPDATE_IND", call.instant, call.value) \in Pdus
        /\ WellFormed(Update("CONN_UPDATE_IND", call.instant, call.value))
    <3>1. call.instant \in Counters /\ call.value \in Params
      BY <1>3 DEF CallQueues, TypeOK, DataInv
    <3> QED
      BY <3>1, UpdateType
  <2>3. /\ pc' \in {"idle", "mark"} /\ preempted' \in 0 .. MaxPreempt
        /\ call' \in [instant : Counters, value : Params \cup {None}]
        /\ pc' # "idle" => call'.value \in Params
        /\ ctrlSlot' \in Pdus /\ WellFormed(ctrlSlot')
    BY <1>3, <2>1, <2>2 DEF CallQueues, TypeOK, DataInv
  <2>4. UNCHANGED <<linkVars, paramVars, procVars, rspSlot, l2capSlot, airVars, rx,
                    late, boundVars>>
    BY <1>3 DEF CallQueues
  <2> QED
    BY <2>3, <2>4
    DEF TypeOK, DataInv, linkVars, paramVars, procVars, airVars, boundVars
<1>4. ASSUME CallMarks PROVE TypeInv'
  <2>1. NoCall \in [instant : Counters, value : Params \cup {None}]
        /\ 0 \in 0 .. MaxPreempt
    BY Constants, BoundAssumption DEF NoCall
  <2>2. call.instant \in Counters /\ call.value \in Params
        /\ MarkUpdate(call.instant, call.value)
    BY <1>4 DEF CallMarks, TypeOK, DataInv
  <2>3. /\ proc' \in [kind : Kinds, waits : {"RSP", "INSTANT"}] \cup {NoProc}
        /\ proc'.waits # "RSP"
        /\ pendingConn' \in [Node -> [valid : BOOLEAN, instant : Counters,
                                      value : Params \cup {None}]]
        /\ \A n \in Node : pendingConn'[n].valid => pendingConn'[n].value \in Params
    BY <2>2, MarkType
  <2>4. pc' = "idle" /\ call' = NoCall /\ preempted' = 0
        /\ UNCHANGED <<linkVars, conn, phy, pendingPhy, stage, requested, slotVars,
                       airVars, rx, late, boundVars>>
    BY <1>4 DEF CallMarks
  <2> QED
    BY <2>1, <2>3, <2>4
    DEF TypeOK, DataInv, linkVars, slotVars, airVars, boundVars
<1> QED
  BY <1>1, <1>2, <1>3, <1>4

\* Every variable keeps its type: an update PDU always carries parameters or a
\* PHY, an instant stays within the counter's width, and the missed intervals
\* never pass their limit.
THEOREM TypeInvariant == Spec => []TypeInv
<1>1. TypeInv /\ [Next]_vars => TypeInv'
  <2> SUFFICES ASSUME TypeInv, [Next]_vars PROVE TypeInv'
    OBVIOUS
  <2>1. CASE Handlers
    BY <2>1, ConnectionEventType, PeripheralProcessesType, CentralProcessesType
    DEF Handlers
  <2>2. CASE \/ \E value \in Params : CallTests(value) \/ AsksForParams(value)
             \/ CallQueues \/ CallMarks
    BY <2>2, ApplicationsType
  <2>3. CASE UNCHANGED vars
    BY <2>3 DEF TypeInv, TypeOK, DataInv, vars, linkVars, paramVars, procVars,
                slotVars, airVars, callVars, boundVars
  <2> QED
    BY <2>1, <2>2, <2>3 DEF Next
<1> QED
  BY InitType, <1>1, PTL DEF Spec

THEOREM TypeCorrect == Spec => []TypeOK
  BY TypeInvariant, PTL DEF TypeInv

-----------------------------------------------------------------------------
(***************************************************************************)
(* The chain is in step with the procedure.                                *)
(***************************************************************************)

LEMMA ConnectionEventStep ==
    ASSUME TypeInv, StepInv, NEW heard \in BOOLEAN, NEW answered \in BOOLEAN,
           ConnectionEvent(heard, answered)
    PROVE  StepInv'
<1>1. Timers /\ UNCHANGED pc
  BY DEF ConnectionEvent
<1>2. Central \in Node /\ Survives(Central) \in BOOLEAN
  BY NodesDiffer DEF Survives, TypeInv, TypeOK
<1>3. pendingPhy'[Central] = IF Survives(Central) /\ ~PhyDue(Central)
                             THEN pendingPhy[Central] ELSE NoUpdate
  BY <1>1, <1>2 DEF Timers
<1>4. CASE proc' = NoProc
  <2>1. stage' = None
    <3>1. CASE stage = None \/ ~Survives(Central)
      BY <1>1, <3>1 DEF Timers
    <3>2. CASE stage # None /\ Survives(Central)
      <4>1. stage = proc.kind /\ stage \in Chain
        BY <3>2 DEF StepInv, ChainInStep, TypeInv, TypeOK
      <4>2. proc # NoProc
        BY <4>1 DEF NoProc, None, Chain
      <4>3. PhyAtInstantEnds \/ ConnAtInstantEnds
        BY <1>1, <1>4, <3>2, <4>2 DEF Timers
      <4>4. ~ConnAtInstantEnds
        BY <4>1 DEF ConnAtInstantEnds, Chain
      <4> QED
        BY <1>1, <4>1, <4>3, <4>4 DEF Timers, PhyAtInstantEnds
    <3> QED
      BY <3>1, <3>2
  <2>2. ~pendingPhy'[Central].valid
    <3>1. CASE Survives(Central) /\ ~PhyDue(Central)
      <4>1. proc # [kind |-> "PHY", waits |-> "INSTANT"]
        BY <1>1, <1>4, <3>1 DEF Timers, ConnAtInstantEnds, PhyAtInstantEnds, NoProc
      <4> QED
        BY <1>3, <3>1, <4>1 DEF StepInv, ProcInv
    <3>2. CASE ~(Survives(Central) /\ ~PhyDue(Central))
      BY <1>3, <3>2 DEF NoUpdate
    <3> QED
      BY <3>1, <3>2
  <2> QED
    BY <1>1, <1>4, <2>1, <2>2 DEF StepInv, ProcInv, ChainInStep, NoProc, None
<1>5. CASE proc' # NoProc
  <2>1. proc' = proc /\ Survives(Central)
        /\ stage' = IF PhyDue(Central) /\ stage = "PHY" THEN None ELSE stage
    BY <1>1, <1>5 DEF Timers
  <2>2. pendingPhy'[Central].valid => pendingPhy[Central].valid
    BY <1>3 DEF NoUpdate
  <2> QED
    BY <1>1, <2>1, <2>2 DEF StepInv, ProcInv, ChainInStep
<1> QED
  BY <1>4, <1>5

\* A procedure of the chain that ends makes room for the next one.
LEMMA CompleteStep ==
    ASSUME TypeInv, StepInv, NEW kind \in Chain, Complete(kind),
           kind \in {"FEATURE", "LENGTH"} \/ proc.waits = "RSP",
           UNCHANGED <<pendingPhy, pc>>
    PROVE  StepInv'
<1> DEFINE done == [kind |-> kind, waits |-> "RSP"]
           p == IF proc = done THEN NoProc ELSE proc
           st == NextStage(kind)
<1>1. CASE stage # kind
  <2>1. UNCHANGED stage /\ proc' = p
    BY <1>1 DEF Complete
  <2>2. CASE proc = done
    <3>1. stage = None /\ ~pendingPhy[Central].valid
      BY <1>1, <2>2 DEF StepInv, ChainInStep, ProcInv
    <3> QED
      BY <2>1, <2>2, <3>1 DEF StepInv, ProcInv, ChainInStep, NoProc, None
  <2>3. CASE proc # done
    BY <2>1, <2>3 DEF StepInv, ProcInv, ChainInStep
  <2> QED
    BY <2>2, <2>3
<1>2. CASE stage = kind
  <2>1. proc = done
    <3>1. proc.kind = kind /\ kind # None
      BY <1>2 DEF StepInv, ChainInStep, Chain, None
    <3>2. proc.waits = "RSP"
      BY <3>1 DEF StepInv, ProcInv
    <3> QED
      BY <3>1, <3>2 DEF TypeInv, TypeOK, NoProc
  <2>2. ~pendingPhy[Central].valid /\ pc = "idle"
    BY <1>2, <2>1 DEF StepInv, ProcInv, Chain, None
  <2>3. Advance(st, NoProc)
    BY <1>2, <2>1 DEF Complete
  <2>4. \/ stage' = None /\ proc' = NoProc
        \/ st \in Chain /\ stage' = st /\ proc' = [kind |-> st, waits |-> "RSP"]
    BY <2>2, <2>3 DEF Advance, NextStage, Chain
  <2> QED
    BY <2>2, <2>4 DEF StepInv, ProcInv, ChainInStep, NoProc, None, Chain
<1> QED
  BY <1>1, <1>2

LEMMA CentralProcessesStep ==
    ASSUME TypeInv, StepInv, CentralProcesses
    PROVE  StepInv'
<1> DEFINE pdu == rx[Central]
<1>0. pc' = pc /\ Central \in Node
  BY NodesDiffer DEF CentralProcesses
<1>1. CASE /\ pdu.op \in {"FEATURE_RSP", "LENGTH_RSP"}
           /\ Complete(KindOf(pdu.op)) /\ UNCHANGED <<rspSlot, paramVars>>
  <2>1. KindOf(pdu.op) \in {"FEATURE", "LENGTH"} /\ KindOf(pdu.op) \in Chain
    BY <1>1, RequestOfOne DEF Chain
  <2> QED
    BY <1>0, <1>1, <2>1, CompleteStep DEF paramVars
<1>2. CASE DecidePhy(pdu.value)
  <2>1. CASE proc = [kind |-> "PHY", waits |-> "RSP"]
    <3>1. proc' = [kind |-> "PHY", waits |-> "INSTANT"] /\ UNCHANGED stage
      BY <1>2, <2>1 DEF DecidePhy
    <3> QED
      BY <1>0, <2>1, <3>1 DEF StepInv, ProcInv, ChainInStep, None
  <2>2. CASE proc # [kind |-> "PHY", waits |-> "RSP"]
    BY <1>0, <1>2, <2>2 DEF DecidePhy, StepInv, ProcInv, ChainInStep
  <2> QED
    BY <2>1, <2>2
<1>3. CASE Unsupported(pdu.value)
  <2>1. CASE proc.waits = "RSP" /\ pdu.value = Request[proc.kind]
    <3>1. proc.kind \in Chain
      BY <2>1 DEF TypeInv, DataInv
    <3> QED
      BY <1>0, <1>3, <2>1, <3>1, CompleteStep DEF Unsupported, paramVars
  <2>2. CASE ~(proc.waits = "RSP" /\ pdu.value = Request[proc.kind])
    BY <1>0, <1>3, <2>2 DEF Unsupported, paramVars, StepInv, ProcInv, ChainInStep
  <2> QED
    BY <2>1, <2>2
<1>4. CASE InitiateUpdate(pdu.value)
  <2>1. CASE MayUpdate /\ ctrlSlot = Empty
    <3>1. proc = NoProc /\ proc' = [kind |-> "CONN_UPDATE", waits |-> "INSTANT"]
          /\ UNCHANGED <<stage, pendingPhy>>
      BY <1>4, <2>1 DEF InitiateUpdate, MayUpdate, MarkUpdate
    <3>2. stage = None /\ ~pendingPhy[Central].valid
      BY <3>1 DEF StepInv, ProcInv, ChainInStep, NoProc, TypeInv, TypeOK, None, Chain
    <3> QED
      BY <1>0, <3>1, <3>2 DEF StepInv, ProcInv, ChainInStep
  <2>2. CASE ~(MayUpdate /\ ctrlSlot = Empty)
    BY <1>0, <1>4, <2>2 DEF InitiateUpdate, StepInv, ProcInv, ChainInStep
  <2> QED
    BY <2>1, <2>2
<1> QED
  BY <1>1, <1>2, <1>3, <1>4 DEF CentralProcesses

LEMMA ApplicationsStep ==
    ASSUME TypeInv, StepInv,
           \/ \E value \in Params : CallTests(value) \/ AsksForParams(value)
           \/ CallQueues \/ CallMarks
    PROVE  StepInv'
<1>1. ASSUME NEW value \in Params, CallTests(value) PROVE StepInv'
  <2>1. proc = NoProc /\ UNCHANGED <<proc, stage, pendingPhy>>
    BY <1>1 DEF CallTests, MayUpdate, procVars, paramVars
  <2>2. stage = None
    BY <2>1 DEF StepInv, ChainInStep, NoProc, TypeInv, TypeOK, None, Chain
  <2> QED
    BY <2>1, <2>2 DEF StepInv, ProcInv, ChainInStep, NoProc
<1>2. ASSUME NEW value \in Params, AsksForParams(value) PROVE StepInv'
  BY <1>2 DEF AsksForParams, StepInv, ProcInv, ChainInStep, procVars, paramVars, callVars
<1>3. ASSUME CallQueues PROVE StepInv'
  BY <1>3 DEF CallQueues, StepInv, ProcInv, ChainInStep, procVars, paramVars
<1>4. ASSUME CallMarks PROVE StepInv'
  <2>1. stage = None /\ ~pendingPhy[Central].valid
    BY <1>4 DEF CallMarks, StepInv, ProcInv, None
  <2>2. /\ proc' = [kind |-> "CONN_UPDATE", waits |-> "INSTANT"] /\ pc' = "idle"
        /\ UNCHANGED <<stage, pendingPhy>>
    BY <1>4 DEF CallMarks, MarkUpdate
  <2> QED
    BY <2>1, <2>2 DEF StepInv, ProcInv, ChainInStep
<1> QED
  BY <1>1, <1>2, <1>3, <1>4

LEMMA StepInvariant == Spec => []StepInv
<1>1. Init => StepInv
  BY NodesDiffer DEF Init, StepInv, ProcInv, ChainInStep, NoUpdate
<1>2. TypeInv /\ StepInv /\ [Next]_vars => StepInv'
  <2> SUFFICES ASSUME TypeInv, StepInv, [Next]_vars PROVE StepInv'
    OBVIOUS
  <2>1. ASSUME PeripheralProcesses PROVE StepInv'
    <3>1. UNCHANGED <<proc, stage, pc>>
      BY <2>1 DEF PeripheralProcesses, procVars, callVars
    <3>2. pendingPhy'[Central] = pendingPhy[Central]
      BY <2>1, NodesDiffer
      DEF PeripheralProcesses, AcceptUpdate, paramVars, TypeInv, TypeOK
    <3> QED
      BY <3>1, <3>2 DEF StepInv, ProcInv, ChainInStep
  <2>2. CASE Handlers
    BY <2>1, <2>2, ConnectionEventStep, CentralProcessesStep DEF Handlers
  <2>3. CASE \/ \E value \in Params : CallTests(value) \/ AsksForParams(value)
             \/ CallQueues \/ CallMarks
    BY <2>3, ApplicationsStep
  <2>4. CASE UNCHANGED vars
    BY <2>4 DEF vars, StepInv, ProcInv, ChainInStep, procVars, paramVars, callVars
  <2> QED
    BY <2>2, <2>3, <2>4 DEF Next
<1> QED
  BY <1>1, <1>2, TypeInvariant, PTL DEF Spec

\* The chain never waits for a procedure that is not going on, whatever the peer
\* supports and whenever updates of the application and of the peer come.
THEOREM ChainKept == Spec => []ChainInStep
  BY StepInvariant, PTL DEF StepInv

-----------------------------------------------------------------------------
(***************************************************************************)
(* One request or response of the chain is under way.                      *)
(***************************************************************************)

\* Opcodes that tell the PDUs of the chain from all others.
LEMMA Opcodes ==
    /\ Answers = {"FEATURE_RSP", "LENGTH_RSP", "PHY_RSP", "UNKNOWN_RSP"}
    /\ Requests = {"FEATURE_REQ", "LENGTH_REQ", "PHY_REQ"}
    /\ Empty.op = "EMPTY" /\ "EMPTY" \notin Requests /\ "EMPTY" \notin Answers
    /\ \A k \in Chain : Plain(Request[k]).op = Request[k] /\ Request[k] \in Requests
  BY DEF Answers, Requests, Response, Request, Chain, Empty, Plain, Carrying

\* The event moves a packet from its slot to the air and from there to the other
\* end, or leaves it where it is.
LEMMA Moves ==
    ASSUME TypeInv, NEW heard \in BOOLEAN, NEW answered \in BOOLEAN,
           ConnectionEvent(heard, answered),
           NEW sentC, sentC = IF CentralLoads THEN Urgent(Central) ELSE onAir[Central],
           NEW sentP, sentP = IF PeripheralLoads(heard) THEN Urgent(Peripheral)
                              ELSE onAir[Peripheral]
    PROVE  /\ onAir'[Central] = IF heard \/ ~Survives(Central) THEN Empty ELSE sentC
           /\ onAir'[Peripheral] =
                  IF answered \/ ~Survives(Peripheral) THEN Empty ELSE sentP
           /\ rx'[Central] = IF answered THEN sentP ELSE Empty
           /\ rx'[Peripheral] = IF heard THEN sentC ELSE Empty
           /\ rspSlot'[Central] = IF ~Survives(Central) \/ CentralLoads
                                  THEN Empty ELSE rspSlot[Central]
           /\ rspSlot'[Peripheral] = IF ~Survives(Peripheral) \/ PeripheralLoads(heard)
                                     THEN Empty ELSE rspSlot[Peripheral]
           /\ ~unacked' => \/ heard \/ ~Survives(Central)
                           \/ answered /\ unanswered /\ ~frozen
           /\ ~unanswered' => \/ answered \/ ~Survives(Peripheral)
                              \/ ~heard /\ ~unanswered
           /\ unanswered' /\ ~frozen' /\ Survives(Central) =>
                  unacked' /\ ~frozen /\ (heard \/ unanswered)
<1> DEFINE loads(n) == IF n = Central THEN CentralLoads ELSE PeripheralLoads(heard)
           sent == [n \in Node |-> IF loads(n) THEN Urgent(n) ELSE onAir[n]]
           hears == [n \in Node |-> IF n = Central THEN answered ELSE heard]
           other(n) == IF n = Central THEN Peripheral ELSE Central
<1>0. PICK corrupt \in SUBSET Node : Exchange(heard, answered, corrupt)
  BY DEF ConnectionEvent
<1>1. /\ onAir' = [n \in Node |-> IF hears[other(n)] \/ ~Survives(n)
                                  THEN Empty ELSE sent[n]]
      /\ rx' = [n \in Node |-> IF hears[n] THEN sent[other(n)] ELSE Empty]
      /\ unacked' = (Survives(Central)
                        /\ ~(answered /\ Acknowledges(heard, corrupt)))
      /\ unanswered' = (Survives(Peripheral) /\
                           \/ Freezes(corrupt)
                           \/ ~answered /\ (heard \/ unanswered))
      /\ frozen' = Freezes(corrupt)
  BY <1>0, Zenon DEF Exchange
<1>2. sent[Central] = sentC /\ sent[Peripheral] = sentP
  BY NodesDiffer
<1>3. hears[Central] = answered /\ hears[Peripheral] = heard
      /\ other(Central) = Peripheral /\ other(Peripheral) = Central
  BY NodesDiffer
<1> HIDE DEF sent, hears, other
<1>4. /\ onAir'[Central] = IF heard \/ ~Survives(Central) THEN Empty ELSE sentC
      /\ onAir'[Peripheral] = IF answered \/ ~Survives(Peripheral) THEN Empty ELSE sentP
      /\ rx'[Central] = IF answered THEN sentP ELSE Empty
      /\ rx'[Peripheral] = IF heard THEN sentC ELSE Empty
  BY <1>1, <1>2, <1>3, NodesDiffer
<1>5. Slots(heard)
  BY DEF ConnectionEvent
<1>6. /\ rspSlot'[Central] = IF ~Survives(Central) \/ CentralLoads
                             THEN Empty ELSE rspSlot[Central]
      /\ rspSlot'[Peripheral] = IF ~Survives(Peripheral) \/ PeripheralLoads(heard)
                                THEN Empty ELSE rspSlot[Peripheral]
  BY <1>5, NodesDiffer DEF Slots
<1>7. /\ ~unacked' => \/ heard \/ ~Survives(Central)
                      \/ answered /\ unanswered /\ ~frozen
      /\ ~unanswered' => \/ answered \/ ~Survives(Peripheral)
                         \/ ~heard /\ ~unanswered
      /\ unanswered' /\ ~frozen' /\ Survives(Central) =>
             unacked' /\ ~frozen /\ (heard \/ unanswered)
  BY <1>1 DEF Freezes, Acknowledges
<1> QED
  BY <1>4, <1>6, <1>7

LEMMA SlotInvariant == Spec => []SlotInv
<1>1. Init => SlotInv
  BY NodesDiffer, Opcodes DEF Init, SlotInv, Plain, Carrying
<1>2. TypeInv /\ TypeInv' /\ SlotInv /\ [Next]_vars => SlotInv'
  <2> SUFFICES ASSUME TypeInv, TypeInv', SlotInv, [Next]_vars PROVE SlotInv'
    OBVIOUS
  <2>1. ASSUME NEW heard \in BOOLEAN, NEW answered \in BOOLEAN,
               ConnectionEvent(heard, answered)
        PROVE  SlotInv'
    <3>1. /\ rspSlot'[Central] \in {rspSlot[Central], Empty}
          /\ rspSlot'[Peripheral] \in {rspSlot[Peripheral], Empty}
      BY <2>1, Moves
    <3>2. ctrlSlot' \in {ctrlSlot, Empty} /\ l2capSlot' \in {l2capSlot, Empty}
      BY <2>1 DEF ConnectionEvent, Slots
    <3> QED
      BY <3>1, <3>2, Opcodes DEF SlotInv
  <2>2. ASSUME PeripheralProcesses PROVE SlotInv'
    <3>1. UNCHANGED <<ctrlSlot, l2capSlot>>
      BY <2>2 DEF PeripheralProcesses
    <3>2. PICK pdu : /\ pdu.op \in Answers
                     /\ Answer(Peripheral, pdu) \/ UNCHANGED rspSlot
      <4>1. ASSUME rx[Peripheral].op \in Requests, NEW value
            PROVE  Carrying(Response[KindOf(rx[Peripheral].op)], value).op \in Answers
        BY <4>1, RequestOfOne, Opcodes DEF Carrying, Response, Chain
      <4>2. ASSUME NEW value PROVE Carrying("UNKNOWN_RSP", value).op \in Answers
        BY Opcodes DEF Carrying
      <4> QED
        BY <2>2, <4>1, <4>2 DEF PeripheralProcesses
    <3>3. rspSlot'[Central] = rspSlot[Central]
          /\ rspSlot'[Peripheral] \in {rspSlot[Peripheral], pdu}
      BY <3>2, NodesDiffer DEF Answer, TypeInv, TypeOK
    <3> QED
      BY <3>1, <3>2, <3>3 DEF SlotInv
  <2>3. ASSUME CentralProcesses PROVE SlotInv'
    <3>1. l2capSlot' = l2capSlot
      BY <2>3 DEF CentralProcesses
    <3>2. rspSlot'[Peripheral] = rspSlot[Peripheral]
          /\ rspSlot'[Central].op \in {rspSlot[Central].op, "PHY_UPDATE_IND"}
      <4>1. UNCHANGED rspSlot
            \/ \E value : Answer(Central, Update("PHY_UPDATE_IND", InstantFromNow, value))
        BY <2>3 DEF CentralProcesses, DecidePhy, Unsupported, InitiateUpdate
      <4> QED
        BY <4>1, NodesDiffer DEF Answer, Update, TypeInv, TypeOK
    <3>3. ctrlSlot'.op \in {ctrlSlot.op, "CONN_UPDATE_IND"} \cup Requests
      <4>1. ASSUME NEW kind \in Chain, Complete(kind)
            PROVE  ctrlSlot'.op \in {ctrlSlot.op} \cup Requests
        <5>1. ASSUME NEW st \in Chain \cup {None}, NEW p, Advance(st, p)
              PROVE  ctrlSlot'.op \in {ctrlSlot.op} \cup Requests
          BY <5>1, Opcodes DEF Advance
        <5>2. NextStage(kind) \in Chain \cup {None}
          BY DEF NextStage, Chain
        <5> QED
          BY <4>1, <5>1, <5>2 DEF Complete
      <4>2. ASSUME proc.waits = "RSP" PROVE proc.kind \in Chain
        BY <4>2 DEF TypeInv, DataInv
      <4>3. ASSUME rx[Central].op \in {"FEATURE_RSP", "LENGTH_RSP"}
            PROVE  KindOf(rx[Central].op) \in Chain
        BY <4>3, RequestOfOne DEF Chain
      <4>4. ASSUME NEW value, Update("CONN_UPDATE_IND", InstantFromNow, value) = ctrlSlot'
            PROVE  ctrlSlot'.op = "CONN_UPDATE_IND"
        BY <4>4 DEF Update
      <4> QED
        BY <2>3, <4>1, <4>2, <4>3, <4>4
        DEF CentralProcesses, DecidePhy, Unsupported, InitiateUpdate
    <3> QED
      BY <3>1, <3>2, <3>3 DEF SlotInv
  <2>4. ASSUME NEW value \in Params, CallTests(value) PROVE SlotInv'
    BY <2>4 DEF CallTests, SlotInv, slotVars
  <2>5. ASSUME NEW value \in Params, AsksForParams(value) PROVE SlotInv'
    BY <2>5 DEF AsksForParams, SlotInv, Carrying
  <2>6. ASSUME CallQueues PROVE SlotInv'
    BY <2>6 DEF CallQueues, SlotInv, Update
  <2>7. ASSUME CallMarks PROVE SlotInv'
    BY <2>7 DEF CallMarks, SlotInv, slotVars
  <2>8. CASE UNCHANGED vars
    BY <2>8 DEF vars, slotVars, SlotInv
  <2> QED
    BY <2>1, <2>2, <2>3, <2>4, <2>5, <2>6, <2>7, <2>8 DEF Next, Handlers
<1> QED
  BY <1>1, <1>2, TypeInvariant, PTL DEF Spec

\* A procedure of the chain that waits for its response is [kind, "RSP"].
LEMMA Waiting ==
    ASSUME TypeInv, proc.waits = "RSP"
    PROVE  proc = [kind |-> proc.kind, waits |-> "RSP"] /\ proc.kind \in Chain
  BY DEF TypeInv, TypeOK, DataInv, NoProc

LEMMA ConnectionEventWay ==
    ASSUME TypeInv, StepInv, SlotInv, WayInv,
           NEW heard \in BOOLEAN, NEW answered \in BOOLEAN,
           ConnectionEvent(heard, answered)
    PROVE  WayInv'
<1> DEFINE sentC == IF CentralLoads THEN Urgent(Central) ELSE onAir[Central]
           sentP == IF PeripheralLoads(heard) THEN Urgent(Peripheral)
                    ELSE onAir[Peripheral]
<1>1. /\ onAir'[Central] = IF heard \/ ~Survives(Central) THEN Empty ELSE sentC
      /\ onAir'[Peripheral] = IF answered \/ ~Survives(Peripheral) THEN Empty ELSE sentP
      /\ rx'[Central] = IF answered THEN sentP ELSE Empty
      /\ rx'[Peripheral] = IF heard THEN sentC ELSE Empty
      /\ rspSlot'[Peripheral] = IF ~Survives(Peripheral) \/ PeripheralLoads(heard)
                                THEN Empty ELSE rspSlot[Peripheral]
      /\ ~unacked' => \/ heard \/ ~Survives(Central)
                      \/ answered /\ unanswered /\ ~frozen
      /\ ~unanswered' => \/ answered \/ ~Survives(Peripheral)
                         \/ ~heard /\ ~unanswered
      /\ unanswered' /\ ~frozen' /\ Survives(Central) =>
             unacked' /\ ~frozen /\ (heard \/ unanswered)
  BY Moves
<1>2. ctrlSlot' = IF ~Survives(Central) \/ (CentralLoads /\ rspSlot[Central] = Empty)
                  THEN Empty ELSE ctrlSlot
  BY DEF ConnectionEvent, Slots
<1>3. /\ heard \/ answered => Survives(Central) /\ Survives(Peripheral)
      /\ ~RequestReceived /\ ~ResponseReceived
      /\ up'[Central] = Survives(Central) /\ up'[Peripheral] = Survives(Peripheral)
      /\ Survives(Central) => up[Central]
      /\ Survives(Peripheral) => up[Peripheral]
  <2>1. rx[Central] = Empty /\ rx[Peripheral] = Empty
    BY NodesDiffer DEF ConnectionEvent
  <2> QED
    BY <2>1, NodesDiffer, Opcodes
    DEF ConnectionEvent, Timers, RequestReceived, ResponseReceived, Survives
<1>4. CentralLoads => Survives(Central) /\ ~unacked
  BY DEF CentralLoads
<1>5. PeripheralLoads(heard) <=> heard /\ ~unanswered
  BY DEF PeripheralLoads
<1>6. sentC.op \in Requests =>
          IF CentralLoads THEN rspSlot[Central] = Empty /\ RequestQueued /\ sentC = ctrlSlot
          ELSE RequestOnAir /\ sentC = onAir[Central]
  BY Opcodes DEF Urgent, SlotInv, RequestQueued, RequestOnAir
<1>7. sentP.op \in Answers =>
          IF PeripheralLoads(heard) THEN ResponseQueued /\ sentP = rspSlot[Peripheral]
          ELSE ResponseOnAir /\ sentP = onAir[Peripheral]
  BY Opcodes, NodesDiffer DEF Urgent, SlotInv, ResponseQueued, ResponseOnAir
<1>8. /\ RequestQueued /\ CentralLoads /\ rspSlot[Central] = Empty => sentC = ctrlSlot
      /\ ResponseQueued /\ PeripheralLoads(heard) => sentP = rspSlot[Peripheral]
  BY Opcodes DEF Urgent, RequestQueued, ResponseQueued
<1>9. /\ ~unacked => onAir[Central] = Empty
      /\ ~unanswered => onAir[Peripheral] = Empty
      /\ up[Central] /\ unanswered /\ ~frozen => unacked /\ onAir[Central] = Empty
  BY DEF WayInv, UnderWayInv
<1>10. /\ proc' \in {proc, NoProc} /\ UNCHANGED requested
       /\ \/ stage' = stage
          \/ stage = "PHY" /\ stage' = None
          \/ ~up'[Central] /\ stage' = None
  <2>1. Timers
    BY DEF ConnectionEvent
  <2>2. proc' \in {proc, NoProc} /\ UNCHANGED requested
    BY <2>1 DEF Timers
  <2>3. stage' = IF ~Survives(Central) \/ (PhyDue(Central) /\ stage = "PHY")
                 THEN None ELSE stage
    BY <2>1 DEF Timers
  <2> QED
    BY <1>3, <2>2, <2>3
<1> HIDE DEF sentC, sentP
<1>11. ChainInv'
  <2>1. stage' # None => stage # None /\ ctrlSlot' \in {ctrlSlot, Empty}
    BY <1>2, <1>10
  <2>2. up'[Central] => up[Central]
    BY <1>3
  <2> QED
    BY <1>10, <2>1, <2>2, Opcodes DEF WayInv, ChainInv, None, Chain
<1>12. /\ RequestQueued' => RequestQueued /\ Survives(Central) /\ ctrlSlot' = ctrlSlot
                            /\ ~(CentralLoads /\ rspSlot[Central] = Empty)
       /\ RequestOnAir' => ~heard /\ onAir'[Central] = sentC /\ sentC.op \in Requests
       /\ RequestReceived' => heard /\ rx'[Peripheral] = sentC /\ sentC.op \in Requests
       /\ ResponseQueued' => ResponseQueued /\ rspSlot'[Peripheral] = rspSlot[Peripheral]
                             /\ ~PeripheralLoads(heard)
       /\ ResponseOnAir' => ~answered /\ onAir'[Peripheral] = sentP /\ sentP.op \in Answers
       /\ ResponseReceived' => answered /\ rx'[Central] = sentP /\ sentP.op \in Answers
  BY <1>1, <1>2, Opcodes
  DEF RequestQueued, RequestOnAir, RequestReceived, ResponseQueued, ResponseOnAir,
      ResponseReceived
<1>13. OnePlaceInv'
  BY <1>6, <1>7, <1>12 DEF WayInv, OnePlaceInv
<1>14. MatchInv'
  <2> SUFFICES ASSUME proc'.waits = "RSP" PROVE MatchInv'
    BY DEF MatchInv
  <2>1. proc' = proc
    BY <1>10 DEF NoProc
  <2> QED
    BY <1>6, <1>7, <1>12, <2>1 DEF WayInv, MatchInv
<1>15. UnderWayInv'
  <2>1. (~unacked => onAir[Central] = Empty)'
    BY <1>1, <1>3, <1>4, <1>9 DEF sentC
  <2>2. (~unanswered => onAir[Peripheral] = Empty)'
    BY <1>1, <1>3, <1>5, <1>9 DEF sentP
  <2>3. (up[Central] /\ unanswered /\ ~frozen => unacked /\ onAir[Central] = Empty)'
    BY <1>1, <1>3, <1>4, <1>9 DEF sentC
  <2>4. ASSUME up'[Central], up'[Peripheral], proc'.waits = "RSP"
        PROVE  \/ RequestQueued' \/ RequestOnAir' \/ RequestReceived'
               \/ ResponseQueued' \/ ResponseOnAir' \/ ResponseReceived'
    <3>1. proc' = proc /\ Survives(Central) /\ Survives(Peripheral)
          /\ up[Central] /\ up[Peripheral]
      BY <1>3, <1>10, <2>4 DEF NoProc
    <3>2. sentC.op \in Requests => RequestOnAir' \/ RequestReceived'
      BY <1>1, <3>1 DEF RequestOnAir, RequestReceived
    <3>3. sentP.op \in Answers => ResponseOnAir' \/ ResponseReceived'
      BY <1>1, <3>1 DEF ResponseOnAir, ResponseReceived
    <3>4. CASE RequestQueued
      BY <1>2, <1>8, <3>1, <3>2, <3>4 DEF RequestQueued
    <3>5. CASE RequestOnAir
      <4>1. unacked
        BY <1>9, <3>5, Opcodes DEF RequestOnAir
      <4> QED
        BY <1>4, <3>2, <3>5, <4>1 DEF sentC, RequestOnAir
    <3>6. CASE ResponseQueued
      BY <1>1, <1>8, <3>1, <3>3, <3>6 DEF ResponseQueued
    <3>7. CASE ResponseOnAir
      <4>1. unanswered
        BY <1>9, <3>7, Opcodes DEF ResponseOnAir
      <4> QED
        BY <1>5, <3>3, <3>7, <4>1 DEF sentP, ResponseOnAir
    <3> QED
      BY <1>3, <2>4, <3>1, <3>4, <3>5, <3>6, <3>7 DEF WayInv, UnderWayInv
  <2> QED
    BY <2>1, <2>2, <2>3, <2>4 DEF UnderWayInv
<1> QED
  BY <1>11, <1>13, <1>14, <1>15 DEF WayInv

LEMMA PeripheralProcessesWay ==
    ASSUME TypeInv, SlotInv, WayInv, PeripheralProcesses
    PROVE  WayInv'
<1> DEFINE pdu == rx[Peripheral]
<1>1. /\ UNCHANGED <<up, proc, stage, requested, ctrlSlot, onAir, unacked, unanswered, frozen>>
      /\ rx' = [rx EXCEPT ![Peripheral] = Empty]
  BY DEF PeripheralProcesses, linkVars, procVars, airVars
<1>2. rx'[Central] = rx[Central] /\ rx'[Peripheral] = Empty /\ ~RequestReceived'
  BY <1>1, NodesDiffer, Opcodes DEF RequestReceived, TypeInv, TypeOK
<1>3. ChainInv'
  BY <1>1 DEF WayInv, ChainInv
<1>4. CASE pdu.op \notin Requests
  <2>1. UNCHANGED rspSlot /\ ~RequestReceived
    BY <1>4 DEF PeripheralProcesses, RequestReceived
  <2> QED
    BY <1>1, <1>2, <1>3, <2>1
    DEF WayInv, OnePlaceInv, MatchInv, UnderWayInv, RequestQueued, RequestOnAir,
        ResponseQueued, ResponseOnAir, ResponseReceived
<1>5. CASE pdu.op \in Requests
  <2>1. RequestReceived
    BY <1>5 DEF RequestReceived
  <2>2. ~RequestQueued /\ ~RequestOnAir /\ ~ResponseQueued /\ ~ResponseOnAir
        /\ ~ResponseReceived
    BY <2>1 DEF WayInv, OnePlaceInv
  <2>3. rspSlot[Peripheral] = Empty
    BY <2>2, NodesDiffer DEF SlotInv, ResponseQueued, TypeInv, DataInv, WellFormed
  <2>4. PICK rsp : /\ Answer(Peripheral, rsp)
                   /\ \/ rsp.op = Response[KindOf(pdu.op)]
                      \/ rsp.op = "UNKNOWN_RSP" /\ rsp.value = pdu.op
    <3>1. pdu.op \notin {"CONN_UPDATE_IND", "PHY_UPDATE_IND"}
      BY <1>5, Opcodes
    <3>2. ASSUME NEW value
          PROVE  Carrying(Response[KindOf(pdu.op)], value).op = Response[KindOf(pdu.op)]
      BY DEF Carrying
    <3>3. Carrying("UNKNOWN_RSP", pdu.op).op = "UNKNOWN_RSP"
          /\ Carrying("UNKNOWN_RSP", pdu.op).value = pdu.op
      BY DEF Carrying
    <3> QED
      BY <3>1, <3>2, <3>3 DEF PeripheralProcesses
  <2>5. rspSlot'[Peripheral] = rsp
    BY <2>3, <2>4, NodesDiffer DEF Answer, TypeInv, TypeOK
  <2>6. /\ ~RequestQueued' /\ ~RequestOnAir' /\ ~ResponseOnAir' /\ ~ResponseReceived'
    BY <1>1, <1>2, <2>2 DEF RequestQueued, RequestOnAir, ResponseOnAir, ResponseReceived
  <2>7. ResponseQueued'
    BY <1>5, <2>4, <2>5, RequestOfOne, Opcodes DEF ResponseQueued, Response, Chain
  <2>8. proc.waits = "RSP" => Responds(proc.kind, rsp)
    <3> SUFFICES ASSUME proc.waits = "RSP" PROVE Responds(proc.kind, rsp)
      OBVIOUS
    <3>1. pdu.op = Request[proc.kind]
      BY <2>1 DEF WayInv, MatchInv, Asks
    <3>2. KindOf(pdu.op) = proc.kind
      BY <3>1, Waiting, RequestOfOne
    <3> QED
      BY <2>4, <3>1, <3>2 DEF Responds
  <2>9. OnePlaceInv'
    BY <1>2, <2>6 DEF OnePlaceInv
  <2>10. MatchInv'
    BY <1>1, <1>2, <2>5, <2>6, <2>8 DEF MatchInv
  <2>11. UnderWayInv'
    BY <1>1, <2>7 DEF WayInv, UnderWayInv
  <2> QED
    BY <1>3, <2>9, <2>10, <2>11 DEF WayInv
<1> QED
  BY <1>4, <1>5

\* A procedure of the chain that ends hands its place to the next one.
LEMMA CompleteWay ==
    ASSUME TypeInv, StepInv, SlotInv, WayInv, NEW kind \in Chain, Complete(kind),
           kind \in {"FEATURE", "LENGTH"} \/ proc.waits = "RSP",
           proc.waits = "RSP" => proc.kind = kind,
           ResponseReceived,
           rx' = [rx EXCEPT ![Central] = Empty],
           UNCHANGED <<up, onAir, unacked, unanswered, frozen, rspSlot>>
    PROVE  WayInv'
<1> DEFINE done == [kind |-> kind, waits |-> "RSP"]
           p == IF proc = done THEN NoProc ELSE proc
           st == NextStage(kind)
<1>1. ~RequestQueued /\ ~RequestOnAir /\ ~RequestReceived /\ ~ResponseQueued
      /\ ~ResponseOnAir
  BY DEF WayInv, OnePlaceInv
<1>2. rx'[Central] = Empty /\ rx'[Peripheral] = rx[Peripheral]
  BY NodesDiffer DEF TypeInv, TypeOK
<1>3. ~RequestOnAir' /\ ~RequestReceived' /\ ~ResponseQueued' /\ ~ResponseOnAir'
      /\ ~ResponseReceived'
  BY <1>1, <1>2, Opcodes
  DEF RequestOnAir, RequestReceived, ResponseQueued, ResponseOnAir, ResponseReceived
<1>4. OnePlaceInv'
  BY <1>3 DEF OnePlaceInv
<1>5. CASE stage # kind
  <2>1. proc' = p /\ UNCHANGED <<stage, ctrlSlot, requested>>
    BY <1>5 DEF Complete
  <2>2. proc'.waits # "RSP"
    BY <2>1, Waiting DEF NoProc
  <2> QED
    BY <1>4, <2>1, <2>2 DEF WayInv, ChainInv, MatchInv, UnderWayInv
<1>6. CASE stage = kind
  <2>1. proc = done
    <3>1. proc.kind = kind /\ kind # None
      BY <1>6 DEF StepInv, ChainInStep, Chain, None
    <3>2. proc.waits = "RSP"
      BY <3>1 DEF StepInv, ProcInv
    <3> QED
      BY <3>1, <3>2, Waiting
  <2>2. ~pendingPhy[Central].valid
    BY <2>1 DEF StepInv, ProcInv
  <2>3. ctrlSlot = Empty
    <3>1. ctrlSlot.op = "EMPTY"
      BY <1>1, <1>6 DEF WayInv, ChainInv, SlotInv, RequestQueued, None, Chain
    <3> QED
      BY <3>1 DEF TypeInv, DataInv, WellFormed
  <2>4. Advance(st, NoProc)
    BY <1>6, <2>1 DEF Complete
  <2>5. CASE kind = "PHY"
    <3>1. stage' = None /\ proc' = NoProc /\ UNCHANGED <<ctrlSlot, requested>>
      BY <2>4, <2>5 DEF Advance, NextStage
    <3>2. proc'.waits # "RSP"
      BY <3>1 DEF NoProc
    <3> QED
      BY <1>4, <1>6, <2>5, <3>1, <3>2 DEF WayInv, ChainInv, MatchInv, UnderWayInv, None
  <2>6. CASE kind \in {"FEATURE", "LENGTH"}
    <3>1. st = IF kind = "FEATURE" THEN "LENGTH" ELSE "PHY"
      BY <2>6 DEF NextStage
    <3>2. st \in Chain /\ st # None
      BY <3>1 DEF Chain, None
    <3>3. /\ stage' = st /\ proc' = [kind |-> st, waits |-> "RSP"]
          /\ ctrlSlot' = Plain(Request[st]) /\ requested' = requested \cup {st}
      BY <2>2, <2>3, <2>4, <3>2 DEF Advance
    <3>4. ctrlSlot'.op = Request[st] /\ Request[st] \in Requests
      BY <3>2, <3>3, Opcodes
    <3>5. ChainInv'
      BY <1>6, <2>6, <3>1, <3>3, <3>4, Opcodes DEF WayInv, ChainInv, Chain, None
    <3>6. MatchInv'
      BY <1>3, <3>3, <3>4 DEF MatchInv, Asks
    <3>7. UnderWayInv'
      BY <3>4 DEF WayInv, UnderWayInv, RequestQueued
    <3> QED
      BY <1>4, <3>5, <3>6, <3>7 DEF WayInv
  <2> QED
    BY <2>5, <2>6 DEF Chain
<1> QED
  BY <1>5, <1>6

LEMMA CentralProcessesWay ==
    ASSUME TypeInv, StepInv, SlotInv, WayInv, CentralProcesses
    PROVE  WayInv'
<1> DEFINE pdu == rx[Central]
<1>1. /\ rx' = [rx EXCEPT ![Central] = Empty]
      /\ UNCHANGED <<up, onAir, unacked, unanswered, frozen>>
  BY DEF CentralProcesses, linkVars, airVars
<1>2. rx'[Central] = Empty /\ rx'[Peripheral] = rx[Peripheral] /\ ~ResponseReceived'
  BY <1>1, NodesDiffer, Opcodes DEF ResponseReceived, TypeInv, TypeOK
<1>3. pdu.op \in Answers /\ proc.waits = "RSP" => Responds(proc.kind, pdu)
  BY DEF WayInv, MatchInv, ResponseReceived
<1>4. ASSUME pdu.op \in Answers, proc'.waits # "RSP",
             UNCHANGED <<stage, requested, ctrlSlot>>,
             rspSlot'[Peripheral] = rspSlot[Peripheral]
      PROVE  WayInv'
  <2>1. OnePlaceInv'
    BY <1>1, <1>2, <1>4
    DEF WayInv, OnePlaceInv, RequestQueued, RequestOnAir, RequestReceived,
        ResponseQueued, ResponseOnAir
  <2> QED
    BY <1>1, <1>4, <2>1 DEF WayInv, ChainInv, MatchInv, UnderWayInv
<1>5. CASE /\ pdu.op \in {"FEATURE_RSP", "LENGTH_RSP"}
           /\ Complete(KindOf(pdu.op)) /\ UNCHANGED <<rspSlot, paramVars>>
  <2>1. KindOf(pdu.op) \in {"FEATURE", "LENGTH"} /\ KindOf(pdu.op) \in Chain
    BY <1>5, RequestOfOne DEF Chain
  <2>2. ResponseReceived
    BY <1>5, Opcodes DEF ResponseReceived
  <2>3. proc.waits = "RSP" => proc.kind = KindOf(pdu.op)
    BY <1>3, <1>5, <2>2, Waiting, RequestOfOne DEF Responds, ResponseReceived
  <2> QED
    BY <1>1, <1>5, <2>1, <2>2, <2>3, CompleteWay
<1>6. CASE pdu.op = "PHY_RSP" /\ DecidePhy(pdu.value)
  <2>1. pdu.op \in Answers
    BY <1>6, Opcodes
  <2>2. proc'.waits # "RSP"
    <3>1. CASE proc = [kind |-> "PHY", waits |-> "RSP"]
      BY <1>6, <3>1 DEF DecidePhy
    <3>2. CASE proc # [kind |-> "PHY", waits |-> "RSP"]
      <4>1. proc' = proc
        BY <1>6, <3>2 DEF DecidePhy
      <4>2. proc.waits = "RSP" => proc.kind = "PHY"
        BY <1>3, <1>6, <2>1, Waiting DEF Responds, Response, Chain
      <4> QED
        BY <3>2, <4>1, <4>2, Waiting
    <3> QED
      BY <3>1, <3>2
  <2>3. rspSlot'[Peripheral] = rspSlot[Peripheral]
    BY <1>6, NodesDiffer DEF DecidePhy, Answer, TypeInv, TypeOK
  <2>4. UNCHANGED <<stage, requested, ctrlSlot>>
    BY <1>6 DEF DecidePhy
  <2> QED
    BY <1>4, <2>1, <2>2, <2>3, <2>4
<1>7. CASE pdu.op = "UNKNOWN_RSP" /\ Unsupported(pdu.value)
  <2>1. ResponseReceived /\ pdu.op \in Answers
    BY <1>7, Opcodes DEF ResponseReceived
  <2>2. proc.waits = "RSP" => pdu.value = Request[proc.kind]
    BY <1>3, <1>7, <2>1, Waiting DEF Responds, Response, Chain
  <2>3. CASE proc.waits = "RSP"
    <3>1. Complete(proc.kind) /\ UNCHANGED rspSlot
      BY <1>7, <2>2, <2>3 DEF Unsupported
    <3> QED
      BY <1>1, <2>1, <2>3, <3>1, Waiting, CompleteWay
  <2>4. CASE proc.waits # "RSP"
    BY <1>4, <1>7, <2>1, <2>4 DEF Unsupported
  <2> QED
    BY <2>3, <2>4
<1>8. CASE pdu.op = "PARAM_REQ" /\ InitiateUpdate(pdu.value)
  <2>1. ~ResponseReceived
    BY <1>8, Opcodes DEF ResponseReceived
  <2>2. UNCHANGED <<stage, requested, rspSlot>>
    BY <1>8 DEF InitiateUpdate
  <2>3. CASE MayUpdate /\ ctrlSlot = Empty
    <3>1. /\ proc = NoProc /\ proc' = [kind |-> "CONN_UPDATE", waits |-> "INSTANT"]
          /\ ctrlSlot'.op = "CONN_UPDATE_IND"
      BY <1>8, <2>3 DEF InitiateUpdate, MayUpdate, MarkUpdate, Update
    <3>2. stage = None
      BY <3>1 DEF StepInv, ChainInStep, NoProc, TypeInv, TypeOK, None, Chain
    <3>3. OnePlaceInv'
      BY <1>1, <1>2, <2>2, <3>1, Opcodes
      DEF WayInv, OnePlaceInv, RequestQueued, RequestOnAir, RequestReceived,
          ResponseQueued, ResponseOnAir
    <3> QED
      BY <1>1, <2>2, <3>1, <3>2, <3>3 DEF WayInv, ChainInv, MatchInv, UnderWayInv
  <2>4. CASE ~(MayUpdate /\ ctrlSlot = Empty)
    <3>1. UNCHANGED <<proc, ctrlSlot>>
      BY <1>8, <2>4 DEF InitiateUpdate
    <3> QED
      BY <1>1, <1>2, <2>1, <2>2, <3>1
      DEF WayInv, ChainInv, OnePlaceInv, MatchInv, UnderWayInv, RequestQueued,
          RequestOnAir, RequestReceived, ResponseQueued, ResponseOnAir
  <2> QED
    BY <2>3, <2>4
<1> QED
  BY <1>5, <1>6, <1>7, <1>8 DEF CentralProcesses

LEMMA ApplicationsWay ==
    ASSUME TypeInv, StepInv, SlotInv, WayInv,
           \/ \E value \in Params : CallTests(value) \/ AsksForParams(value)
           \/ CallQueues \/ CallMarks
    PROVE  WayInv'
<1>1. ASSUME UNCHANGED <<up, stage, requested, proc, ctrlSlot, rspSlot, onAir, rx,
                         unacked, unanswered, frozen>>
      PROVE  WayInv'
  BY <1>1
  DEF WayInv, ChainInv, OnePlaceInv, MatchInv, UnderWayInv, RequestQueued, RequestOnAir,
      RequestReceived, ResponseQueued, ResponseOnAir, ResponseReceived
<1>2. ASSUME NEW value \in Params, CallTests(value) PROVE WayInv'
  BY <1>1, <1>2 DEF CallTests, linkVars, procVars, slotVars, airVars
<1>3. ASSUME NEW value \in Params, AsksForParams(value) PROVE WayInv'
  BY <1>1, <1>3 DEF AsksForParams, linkVars, procVars, airVars
<1>4. ASSUME CallQueues PROVE WayInv'
  <2>1. UNCHANGED <<up, stage, requested, proc, rspSlot, onAir, rx, unacked, unanswered, frozen>>
    BY <1>4 DEF CallQueues, linkVars, procVars, airVars
  <2>2. /\ stage = None
        /\ \/ ctrlSlot' = ctrlSlot
           \/ ctrlSlot = Empty /\ ctrlSlot'.op = "CONN_UPDATE_IND"
    <3>1. stage = None
      BY <1>4 DEF CallQueues, StepInv, ProcInv
    <3>2. CASE up[Central] /\ ctrlSlot = Empty
      BY <1>4, <3>1, <3>2 DEF CallQueues, Update
    <3>3. CASE ~(up[Central] /\ ctrlSlot = Empty)
      <4>1. UNCHANGED ctrlSlot
        BY <1>4, <3>3 DEF CallQueues
      <4> QED
        BY <3>1, <4>1
    <3> QED
      BY <3>2, <3>3
  <2>3. RequestQueued' <=> RequestQueued
    BY <2>2, Opcodes DEF RequestQueued
  <2>4. RequestQueued => ctrlSlot' = ctrlSlot
    BY <2>2, Opcodes DEF RequestQueued
  <2> QED
    BY <2>1, <2>2, <2>3, <2>4
    DEF WayInv, ChainInv, OnePlaceInv, MatchInv, UnderWayInv, RequestOnAir,
        RequestReceived, ResponseQueued, ResponseOnAir, ResponseReceived
<1>5. ASSUME CallMarks PROVE WayInv'
  <2>1. UNCHANGED <<up, stage, requested, ctrlSlot, rspSlot, onAir, rx, unacked,
                    unanswered, frozen>>
        /\ proc'.waits = "INSTANT"
    BY <1>5 DEF CallMarks, MarkUpdate, linkVars, slotVars, airVars
  <2> QED
    BY <2>1
    DEF WayInv, ChainInv, OnePlaceInv, MatchInv, UnderWayInv, RequestQueued,
        RequestOnAir, RequestReceived, ResponseQueued, ResponseOnAir, ResponseReceived
<1> QED
  BY <1>2, <1>3, <1>4, <1>5

LEMMA WayInvariant == Spec => []WayInv
<1>1. Init => WayInv
  <2> SUFFICES ASSUME Init PROVE WayInv
    OBVIOUS
  <2>1. ctrlSlot.op = "FEATURE_REQ" /\ RequestQueued
    BY Opcodes DEF Init, Plain, Carrying, RequestQueued
  <2>2. ~RequestOnAir /\ ~RequestReceived /\ ~ResponseQueued /\ ~ResponseOnAir
        /\ ~ResponseReceived
    BY Opcodes, NodesDiffer
    DEF Init, RequestOnAir, RequestReceived, ResponseQueued, ResponseOnAir,
        ResponseReceived
  <2>3. ChainInv
    BY <2>1 DEF Init, ChainInv, None
  <2>4. MatchInv
    BY <2>1, <2>2 DEF Init, MatchInv, Asks, Request, Chain
  <2>5. UnderWayInv
    BY <2>1, NodesDiffer DEF Init, UnderWayInv
  <2> QED
    BY <2>2, <2>3, <2>4, <2>5 DEF WayInv, OnePlaceInv
<1>2. TypeInv /\ StepInv /\ SlotInv /\ WayInv /\ [Next]_vars => WayInv'
  <2> SUFFICES ASSUME TypeInv, StepInv, SlotInv, WayInv, [Next]_vars PROVE WayInv'
    OBVIOUS
  <2>1. CASE Handlers
    BY <2>1, ConnectionEventWay, PeripheralProcessesWay, CentralProcessesWay
    DEF Handlers
  <2>2. CASE \/ \E value \in Params : CallTests(value) \/ AsksForParams(value)
             \/ CallQueues \/ CallMarks
    BY <2>2, ApplicationsWay
  <2>3. CASE UNCHANGED vars
    BY <2>3
    DEF vars, linkVars, procVars, slotVars, airVars, WayInv, ChainInv, OnePlaceInv,
        MatchInv, UnderWayInv, RequestQueued, RequestOnAir, RequestReceived,
        ResponseQueued, ResponseOnAir, ResponseReceived
  <2> QED
    BY <2>1, <2>2, <2>3 DEF Next
<1> QED
  BY <1>1, <1>2, TypeInvariant, StepInvariant, SlotInvariant, PTL DEF Spec

\* A chain that is over has started each of its procedures, with a peer that
\* supports none of them too, and whatever the applications ask for meanwhile.
THEOREM ChainRunsThrough == Spec => []ChainComplete
<1>1. WayInv => ChainComplete
  BY DEF WayInv, ChainInv, ChainComplete
<1> QED
  BY <1>1, WayInvariant, PTL

\* A set of which one element is marked.
LEMMA OneMarked ==
    ASSUME NEW S, NEW name, NEW v, <<name, v>>[2] /\ <<name, v>> \in S,
           \A y \in S : y[2] => y = <<name, v>>
    PROVE  Cardinality({p \in S : p[2]}) = 1
<1>1. \A y : y[2] /\ y \in S <=> y = <<name, v>>
  BY Zenon
<1>2. {p \in S : p[2]} = {<<name, v>>}
  BY <1>1, Zenon
<1> QED
  BY <1>2, FS_Singleton, Zenon

\* Of six distinct places one that is taken is counted once.
LEMMA OneOfSix ==
    ASSUME NEW a \in BOOLEAN, NEW b \in BOOLEAN, NEW c \in BOOLEAN,
           NEW d \in BOOLEAN, NEW e \in BOOLEAN, NEW f \in BOOLEAN,
           a \/ b \/ c \/ d \/ e \/ f,
           a => ~(b \/ c \/ d \/ e \/ f), b => ~(c \/ d \/ e \/ f),
           c => ~(d \/ e \/ f), d => ~(e \/ f), e => ~f
    PROVE  LET places == {<<"ctrlSlot", a>>, <<"request on air", b>>,
                          <<"request received", c>>, <<"rspSlot", d>>,
                          <<"response on air", e>>, <<"response received", f>>}
           IN  Cardinality({p \in places : p[2]}) = 1
<1> DEFINE places == {<<"ctrlSlot", a>>, <<"request on air", b>>,
                      <<"request received", c>>, <<"rspSlot", d>>,
                      <<"response on air", e>>, <<"response received", f>>}
<1> SUFFICES Cardinality({p \in places : p[2]}) = 1
  OBVIOUS
<1>1. \A name, v : <<name, v>>[2] = v
  OBVIOUS
<1>2. CASE a
  <2>1. ~b /\ ~c /\ ~d /\ ~e /\ ~f
    BY <1>2
  <2>2. <<"ctrlSlot", a>>[2] /\ <<"ctrlSlot", a>> \in places
    BY <1>1, <1>2, Zenon
  <2>3. \A y \in places : y[2] => y = <<"ctrlSlot", a>>
    BY <1>1, <2>1, Zenon
  <2> HIDE DEF places
  <2> QED
    BY <2>2, <2>3, OneMarked
<1>3. CASE b
  <2>1. ~a /\ ~c /\ ~d /\ ~e /\ ~f
    BY <1>3
  <2>2. <<"request on air", b>>[2] /\ <<"request on air", b>> \in places
    BY <1>1, <1>3, Zenon
  <2>3. \A y \in places : y[2] => y = <<"request on air", b>>
    BY <1>1, <2>1, Zenon
  <2> HIDE DEF places
  <2> QED
    BY <2>2, <2>3, OneMarked
<1>4. CASE c
  <2>1. ~a /\ ~b /\ ~d /\ ~e /\ ~f
    BY <1>4
  <2>2. <<"request received", c>>[2] /\ <<"request received", c>> \in places
    BY <1>1, <1>4, Zenon
  <2>3. \A y \in places : y[2] => y = <<"request received", c>>
    BY <1>1, <2>1, Zenon
  <2> HIDE DEF places
  <2> QED
    BY <2>2, <2>3, OneMarked
<1>5. CASE d
  <2>1. ~a /\ ~b /\ ~c /\ ~e /\ ~f
    BY <1>5
  <2>2. <<"rspSlot", d>>[2] /\ <<"rspSlot", d>> \in places
    BY <1>1, <1>5, Zenon
  <2>3. \A y \in places : y[2] => y = <<"rspSlot", d>>
    BY <1>1, <2>1, Zenon
  <2> HIDE DEF places
  <2> QED
    BY <2>2, <2>3, OneMarked
<1>6. CASE e
  <2>1. ~a /\ ~b /\ ~c /\ ~d /\ ~f
    BY <1>6
  <2>2. <<"response on air", e>>[2] /\ <<"response on air", e>> \in places
    BY <1>1, <1>6, Zenon
  <2>3. \A y \in places : y[2] => y = <<"response on air", e>>
    BY <1>1, <2>1, Zenon
  <2> HIDE DEF places
  <2> QED
    BY <2>2, <2>3, OneMarked
<1>7. CASE f
  <2>1. ~a /\ ~b /\ ~c /\ ~d /\ ~e
    BY <1>7
  <2>2. <<"response received", f>>[2] /\ <<"response received", f>> \in places
    BY <1>1, <1>7, Zenon
  <2>3. \A y \in places : y[2] => y = <<"response received", f>>
    BY <1>1, <2>1, Zenon
  <2> HIDE DEF places
  <2> QED
    BY <2>2, <2>3, OneMarked
<1> QED
  BY <1>2, <1>3, <1>4, <1>5, <1>6, <1>7

\* While a response is awaited exactly one of the request and its response is
\* under way: what is lost on the air goes out again, what is acknowledged does
\* not, and no answer finds its slot taken.
THEOREM OneRequest == Spec => []RequestUnderWay
<1>1. TypeInv /\ SlotInv /\ WayInv => RequestUnderWay
  <2> SUFFICES ASSUME TypeInv, SlotInv, WayInv, up[Central], up[Peripheral],
                      proc.waits = "RSP"
               PROVE  RequestUnderWay
    BY DEF RequestUnderWay
  <2> DEFINE req == {Request[proc.kind]}
             rsp == {Response[proc.kind], "UNKNOWN_RSP"}
  <2>1. req \subseteq Requests /\ rsp \subseteq Answers
    BY Waiting, Opcodes DEF Answers
  <2>2. /\ ctrlSlot.op \in req <=> RequestQueued
        /\ onAir[Central].op \in req <=> RequestOnAir
        /\ rx[Peripheral].op \in req <=> RequestReceived
        /\ rspSlot[Peripheral].op \in rsp <=> ResponseQueued
        /\ onAir[Peripheral].op \in rsp <=> ResponseOnAir
        /\ rx[Central].op \in rsp <=> ResponseReceived
    BY <2>1
    DEF WayInv, MatchInv, Asks, Responds, RequestQueued, RequestOnAir, RequestReceived,
        ResponseQueued, ResponseOnAir, ResponseReceived
  <2>3. \/ ctrlSlot.op \in req \/ onAir[Central].op \in req
        \/ rx[Peripheral].op \in req \/ rspSlot[Peripheral].op \in rsp
        \/ onAir[Peripheral].op \in rsp \/ rx[Central].op \in rsp
    BY <2>2 DEF WayInv, UnderWayInv
  <2>4. /\ ctrlSlot.op \in req =>
               ~(\/ onAir[Central].op \in req \/ rx[Peripheral].op \in req
                 \/ rspSlot[Peripheral].op \in rsp \/ onAir[Peripheral].op \in rsp
                 \/ rx[Central].op \in rsp)
        /\ onAir[Central].op \in req =>
               ~(\/ rx[Peripheral].op \in req \/ rspSlot[Peripheral].op \in rsp
                 \/ onAir[Peripheral].op \in rsp \/ rx[Central].op \in rsp)
        /\ rx[Peripheral].op \in req =>
               ~(\/ rspSlot[Peripheral].op \in rsp \/ onAir[Peripheral].op \in rsp
                 \/ rx[Central].op \in rsp)
        /\ rspSlot[Peripheral].op \in rsp =>
               ~(onAir[Peripheral].op \in rsp \/ rx[Central].op \in rsp)
        /\ onAir[Peripheral].op \in rsp => ~(rx[Central].op \in rsp)
    BY <2>2 DEF WayInv, OnePlaceInv
  <2>5. /\ (ctrlSlot.op \in req) \in BOOLEAN /\ (onAir[Central].op \in req) \in BOOLEAN
        /\ (rx[Peripheral].op \in req) \in BOOLEAN
        /\ (rspSlot[Peripheral].op \in rsp) \in BOOLEAN
        /\ (onAir[Peripheral].op \in rsp) \in BOOLEAN
        /\ (rx[Central].op \in rsp) \in BOOLEAN
    BY \A x, S : (x \in S) \in BOOLEAN
  <2> HIDE DEF req, rsp
  <2>6. Cardinality({p \in {<<"ctrlSlot", ctrlSlot.op \in req>>,
                            <<"request on air", onAir[Central].op \in req>>,
                            <<"request received", rx[Peripheral].op \in req>>,
                            <<"rspSlot", rspSlot[Peripheral].op \in rsp>>,
                            <<"response on air", onAir[Peripheral].op \in rsp>>,
                            <<"response received", rx[Central].op \in rsp>>}
                      : p[2]}) = 1
    BY <2>3, <2>4, <2>5, OneOfSix, ZenonT(30)
  <2> QED
    BY <2>6, Zenon DEF RequestUnderWay, req, rsp
<1> QED
  BY <1>1, TypeInvariant, SlotInvariant, WayInvariant, PTL

-----------------------------------------------------------------------------
(***************************************************************************)
(* Both ends change over together.                                         *)
(***************************************************************************)

\* The places of an announced update, on its way.
ConnQueued == ctrlSlot.op = "CONN_UPDATE_IND"
ConnOnAir == onAir[Central].op = "CONN_UPDATE_IND"
ConnReceived == rx[Peripheral].op = "CONN_UPDATE_IND"
PhyQueued == rspSlot[Central].op = "PHY_UPDATE_IND"
PhyOnAir == onAir[Central].op = "PHY_UPDATE_IND"
PhyReceived == rx[Peripheral].op = "PHY_UPDATE_IND"

NoConn == ~(ConnQueued \/ ConnOnAir \/ ConnReceived)
NoPhy == ~(PhyQueued \/ PhyOnAir \/ PhyReceived)

Same(u, v) == u = v \/ (~u.valid /\ ~v.valid)

\* The update the central is going to make: the application's call may have
\* announced it and not marked it yet.
Coming == IF pc = "mark" THEN Pending(call.instant, call.value) ELSE pendingConn[Central]

\* The peripheral has yet to hear of update u, which pdu announces.
Announces(pdu, u, peripheral) ==
    Pending(pdu.instant, pdu.value) = u /\ ~peripheral.valid

\* A connection update is under way at most once, it is the one the central is
\* going to make, and one that is not under way is pending at both ends or none.
ConnInv ==
    /\ ConnQueued => ~ConnOnAir /\ ~ConnReceived
    /\ ConnOnAir => ~ConnReceived
    /\ ConnQueued => Announces(ctrlSlot, Coming, pendingConn[Peripheral])
    /\ ConnOnAir => Announces(onAir[Central], Coming, pendingConn[Peripheral])
    /\ ConnReceived => Announces(rx[Peripheral], Coming, pendingConn[Peripheral])
    /\ NoConn => Same(Coming, pendingConn[Peripheral])
    /\ conn[Central] = conn[Peripheral]

\* A call that has yet to queue its update finds no other pending, or finds the
\* slot taken by what a handler has queued since; one that has yet to mark finds
\* none pending, and its PDU where it queued it, unless a handler ran since.
CallInv ==
    /\ pc = "queue" /\ pendingConn[Central].valid => ctrlSlot # Empty /\ preempted = 1
    /\ pc = "mark" => ~pendingConn[Central].valid /\ (preempted = 0 => ConnQueued)

\* The same of the PHY update, of which there is one at most, after the chain
\* has come to it.
PhyInv ==
    /\ PhyQueued => ~PhyOnAir /\ ~PhyReceived
    /\ PhyOnAir => ~PhyReceived
    /\ PhyQueued => Announces(rspSlot[Central], pendingPhy[Central], pendingPhy[Peripheral])
    /\ PhyOnAir => Announces(onAir[Central], pendingPhy[Central], pendingPhy[Peripheral])
    /\ PhyReceived => Announces(rx[Peripheral], pendingPhy[Central], pendingPhy[Peripheral])
    /\ NoPhy => Same(pendingPhy[Central], pendingPhy[Peripheral])
    /\ stage \in {"FEATURE", "LENGTH"} \/ proc = [kind |-> "PHY", waits |-> "RSP"] =>
           NoPhy /\ ~pendingPhy[Central].valid
    /\ phy[Central] = phy[Peripheral]

Together == up[Central] /\ up[Peripheral] /\ ~late
AgreeInv ==
    Together =>
        counter[Central] = counter[Peripheral] /\ ConnInv /\ CallInv /\ PhyInv

\* A handler that comes within a call is the first to do so.
LEMMA FirstHandler ==
    ASSUME TypeInv, MaxPreempt <= 1, Preempts, pc # "idle"
    PROVE  preempted = 0 /\ preempted' = 1
<1>1. preempted \in 0 .. MaxPreempt /\ MaxPreempt \in Nat
  BY BoundAssumption DEF TypeInv, TypeOK
<1> QED
  BY <1>1 DEF Preempts

\* Where an event takes the announced updates, while both ends survive it.
LEMMA EventMoves ==
    ASSUME TypeInv, SlotInv, WayInv, NEW heard \in BOOLEAN, NEW answered \in BOOLEAN,
           ConnectionEvent(heard, answered), Survives(Central)
    PROVE  /\ ~ConnReceived /\ ~PhyReceived
           /\ ConnQueued' => ConnQueued /\ ctrlSlot' = ctrlSlot
           /\ ConnOnAir' => /\ ~ConnReceived'
                            /\ \/ ConnQueued /\ ~ConnQueued' /\ onAir'[Central] = ctrlSlot
                               \/ ConnOnAir /\ onAir'[Central] = onAir[Central]
           /\ ConnReceived' => /\ ~ConnOnAir'
                               /\ \/ ConnQueued /\ ~ConnQueued' /\ rx'[Peripheral] = ctrlSlot
                                  \/ ConnOnAir /\ rx'[Peripheral] = onAir[Central]
           /\ ConnQueued \/ ConnOnAir => ConnQueued' \/ ConnOnAir' \/ ConnReceived'
           /\ PhyQueued' => PhyQueued /\ rspSlot'[Central] = rspSlot[Central]
           /\ PhyOnAir' =>
                  /\ ~PhyReceived'
                  /\ \/ PhyQueued /\ ~PhyQueued' /\ onAir'[Central] = rspSlot[Central]
                     \/ PhyOnAir /\ onAir'[Central] = onAir[Central]
           /\ PhyReceived' =>
                  /\ ~PhyOnAir'
                  /\ \/ PhyQueued /\ ~PhyQueued' /\ rx'[Peripheral] = rspSlot[Central]
                     \/ PhyOnAir /\ rx'[Peripheral] = onAir[Central]
           /\ PhyQueued \/ PhyOnAir => PhyQueued' \/ PhyOnAir' \/ PhyReceived'
<1> DEFINE sentC == IF CentralLoads THEN Urgent(Central) ELSE onAir[Central]
           sentP == IF PeripheralLoads(heard) THEN Urgent(Peripheral)
                    ELSE onAir[Peripheral]
<1>1. /\ onAir'[Central] = IF heard \/ ~Survives(Central) THEN Empty ELSE sentC
      /\ rx'[Peripheral] = IF heard THEN sentC ELSE Empty
      /\ rspSlot'[Central] = IF ~Survives(Central) \/ CentralLoads
                             THEN Empty ELSE rspSlot[Central]
  BY Moves
<1>2. ctrlSlot' = IF ~Survives(Central) \/ (CentralLoads /\ rspSlot[Central] = Empty)
                  THEN Empty ELSE ctrlSlot
  BY DEF ConnectionEvent, Slots
<1>3. ~ConnReceived /\ ~PhyReceived
  <2>1. rx[Peripheral] = Empty
    BY NodesDiffer DEF ConnectionEvent
  <2> QED BY <2>1, Opcodes DEF ConnReceived, PhyReceived
<1>4. CentralLoads => onAir[Central] = Empty
  BY DEF CentralLoads, WayInv, UnderWayInv
<1>5. /\ rspSlot[Central].op \in {"EMPTY", "PHY_UPDATE_IND"}
      /\ rspSlot[Central] = Empty \/ rspSlot[Central].op = "PHY_UPDATE_IND"
      /\ ctrlSlot.op # "PHY_UPDATE_IND"
  BY NodesDiffer, Opcodes DEF SlotInv, TypeInv, DataInv, WellFormed
<1>6. sentC = IF ~CentralLoads THEN onAir[Central]
              ELSE IF rspSlot[Central] # Empty THEN rspSlot[Central] ELSE ctrlSlot
  BY NodesDiffer DEF Urgent
<1> HIDE DEF sentC, sentP
<1> QED
  BY <1>1, <1>2, <1>3, <1>4, <1>5, <1>6, Opcodes
  DEF ConnQueued, ConnOnAir, ConnReceived, PhyQueued, PhyOnAir, PhyReceived

\* What both ends' timers do while both survive.
LEMMA EventTimers ==
    ASSUME TypeInv, NEW heard \in BOOLEAN, NEW answered \in BOOLEAN,
           ConnectionEvent(heard, answered), Together'
    PROVE  /\ Together /\ \A n \in Node : Survives(n) /\ up[n]
           /\ counter[Central] = counter[Peripheral] => counter'[Central] = counter'[Peripheral]
           /\ \A n \in Node :
                 /\ IF ConnDue(n) THEN conn'[n] = pendingConn[n].value /\ pendingConn'[n] = NoUpdate
                                  ELSE conn'[n] = conn[n] /\ pendingConn'[n] = pendingConn[n]
                 /\ IF PhyDue(n) THEN phy'[n] = pendingPhy[n].value /\ pendingPhy'[n] = NoUpdate
                                 ELSE phy'[n] = phy[n] /\ pendingPhy'[n] = pendingPhy[n]
                 /\ ConnDue(n) <=> pendingConn[n].valid /\ pendingConn[n].instant = counter[n]
                 /\ PhyDue(n) <=> pendingPhy[n].valid /\ pendingPhy[n].instant = counter[n]
           /\ ConnDue(Central) => ~ConnQueued /\ ~ConnOnAir
           /\ PhyDue(Central) => ~PhyQueued /\ ~PhyOnAir
           /\ stage' \in {stage, None} /\ proc' \in {proc, NoProc}
           /\ Preempts /\ UNCHANGED <<pc, call>>
<1>1. Timers /\ Preempts /\ UNCHANGED <<pc, call>> /\ late' = (late \/ TooLate)
  BY DEF ConnectionEvent
<1>2. \A n \in Node : Survives(n) /\ up[n]
  BY <1>1, NodesDiffer DEF Together, Timers, Survives
<1>3. Together /\ ~TooLate
  BY <1>1, <1>2, NodesDiffer DEF Together
<1>4. counter[Central] = counter[Peripheral] => counter'[Central] = counter'[Peripheral]
  BY <1>1, <1>2, NodesDiffer DEF Timers
<1>5. \A n \in Node :
         /\ IF ConnDue(n) THEN conn'[n] = pendingConn[n].value /\ pendingConn'[n] = NoUpdate
                          ELSE conn'[n] = conn[n] /\ pendingConn'[n] = pendingConn[n]
         /\ IF PhyDue(n) THEN phy'[n] = pendingPhy[n].value /\ pendingPhy'[n] = NoUpdate
                         ELSE phy'[n] = phy[n] /\ pendingPhy'[n] = pendingPhy[n]
  BY <1>1, <1>2 DEF Timers
<1>6. \A n \in Node :
         /\ ConnDue(n) <=> pendingConn[n].valid /\ pendingConn[n].instant = counter[n]
         /\ PhyDue(n) <=> pendingPhy[n].valid /\ pendingPhy[n].instant = counter[n]
  BY <1>2 DEF ConnDue, PhyDue, Due
<1>7. /\ ConnDue(Central) => ~ConnQueued /\ ~ConnOnAir
      /\ PhyDue(Central) => ~PhyQueued /\ ~PhyOnAir
  BY <1>3 DEF TooLate, Undelivered, ConnQueued, ConnOnAir, PhyQueued, PhyOnAir
<1>8. stage' \in {stage, None} /\ proc' \in {proc, NoProc}
  BY <1>1 DEF Timers
<1> QED BY <1>1, <1>2, <1>3, <1>4, <1>5, <1>6, <1>7, <1>8

LEMMA ConnectionEventAgree ==
    ASSUME TypeInv, SlotInv, WayInv, AgreeInv, MaxPreempt <= 1,
           NEW heard \in BOOLEAN, NEW answered \in BOOLEAN,
           ConnectionEvent(heard, answered)
    PROVE  AgreeInv'
<1> SUFFICES ASSUME Together' PROVE AgreeInv'
  BY DEF AgreeInv
<1>1. Together /\ counter[Central] = counter[Peripheral] /\ ConnInv /\ CallInv /\ PhyInv
  BY EventTimers DEF AgreeInv
<1>2. counter'[Central] = counter'[Peripheral]
  BY <1>1, EventTimers
<1>3. UNCHANGED <<pc, call>> /\ (pc # "idle" => preempted = 0 /\ preempted' = 1)
  BY EventTimers, FirstHandler
<1>4. Survives(Central)
  BY EventTimers, NodesDiffer
<1>5. CallInv'
  <2>1. pendingConn'[Central].valid => pendingConn[Central].valid
    BY EventTimers, NodesDiffer DEF NoUpdate
  <2> QED BY <1>1, <1>3, <2>1 DEF CallInv
<1>6. ConnInv'
  <2>1. CASE ConnDue(Central)
    <3>1. NoConn /\ pc # "mark"
      BY <1>1, <1>3, <1>4, <2>1, EventTimers, EventMoves DEF NoConn, CallInv
    <3>2. pendingConn[Central] = pendingConn[Peripheral] /\ pendingConn[Central].valid
      <4>1. Same(pendingConn[Central], pendingConn[Peripheral])
        BY <1>1, <3>1 DEF ConnInv, Coming
      <4>2. pendingConn[Central].valid
        BY <2>1, EventTimers, NodesDiffer
      <4> QED BY <4>1, <4>2 DEF Same
    <3>3. ConnDue(Peripheral)
      BY <1>1, <2>1, <3>2, EventTimers, NodesDiffer
    <3>4. /\ conn'[Central] = conn'[Peripheral]
          /\ pendingConn'[Central] = NoUpdate /\ pendingConn'[Peripheral] = NoUpdate
      BY <2>1, <3>2, <3>3, EventTimers, NodesDiffer
    <3>5. NoConn' /\ ~ConnQueued' /\ ~ConnOnAir' /\ ~ConnReceived'
      BY <1>4, <3>1, EventMoves DEF NoConn
    <3> QED BY <1>3, <3>1, <3>4, <3>5 DEF ConnInv, Coming, Same
  <2>2. CASE ~ConnDue(Central)
    <3>1. ~ConnDue(Peripheral)
      <4> SUFFICES ASSUME ConnDue(Peripheral) PROVE FALSE
        OBVIOUS
      <4>1. pendingConn[Peripheral].valid /\ pendingConn[Peripheral].instant = counter[Peripheral]
        BY EventTimers, NodesDiffer
      <4>2. NoConn
        BY <1>1, <4>1 DEF ConnInv, Announces, NoConn
      <4>3. pc # "mark"
        BY <1>1, <1>3, <4>2 DEF CallInv, NoConn
      <4>4. pendingConn[Central] = pendingConn[Peripheral]
        BY <1>1, <4>1, <4>2, <4>3 DEF ConnInv, Coming, Same
      <4> QED BY <1>1, <2>2, <4>1, <4>4, EventTimers, NodesDiffer
    <3>2. /\ conn'[Central] = conn[Central] /\ conn'[Peripheral] = conn[Peripheral]
          /\ pendingConn'[Central] = pendingConn[Central]
          /\ pendingConn'[Peripheral] = pendingConn[Peripheral]
      BY <2>2, <3>1, EventTimers, NodesDiffer
    <3>3. Coming' = Coming
      BY <1>3, <3>2 DEF Coming
    <3> QED BY <1>1, <1>4, <3>2, <3>3, EventMoves
            DEF ConnInv, NoConn, Announces, Same
  <2> QED BY <2>1, <2>2
<1>7. PhyInv'
  <2>1. stage' \in {"FEATURE", "LENGTH"} \/ proc' = [kind |-> "PHY", waits |-> "RSP"] =>
            NoPhy /\ ~pendingPhy[Central].valid
    BY <1>1, EventTimers DEF PhyInv, None, NoProc
  <2>2. CASE PhyDue(Central)
    <3>1. NoPhy
      BY <1>4, <2>2, EventTimers, EventMoves DEF NoPhy
    <3>2. pendingPhy[Central] = pendingPhy[Peripheral] /\ pendingPhy[Central].valid
      <4>1. Same(pendingPhy[Central], pendingPhy[Peripheral])
        BY <1>1, <3>1 DEF PhyInv
      <4>2. pendingPhy[Central].valid
        BY <2>2, EventTimers, NodesDiffer
      <4> QED BY <4>1, <4>2 DEF Same
    <3>3. PhyDue(Peripheral)
      BY <1>1, <2>2, <3>2, EventTimers, NodesDiffer
    <3>4. /\ phy'[Central] = phy'[Peripheral]
          /\ pendingPhy'[Central] = NoUpdate /\ pendingPhy'[Peripheral] = NoUpdate
      BY <2>2, <3>2, <3>3, EventTimers, NodesDiffer
    <3>5. NoPhy' /\ ~PhyQueued' /\ ~PhyOnAir' /\ ~PhyReceived'
      BY <1>4, <3>1, EventMoves DEF NoPhy
    <3> QED BY <3>4, <3>5 DEF PhyInv, Same, NoUpdate
  <2>3. CASE ~PhyDue(Central)
    <3>1. ~PhyDue(Peripheral)
      <4> SUFFICES ASSUME PhyDue(Peripheral) PROVE FALSE
        OBVIOUS
      <4>1. pendingPhy[Peripheral].valid /\ pendingPhy[Peripheral].instant = counter[Peripheral]
        BY EventTimers, NodesDiffer
      <4>2. NoPhy
        BY <1>1, <4>1 DEF PhyInv, Announces, NoPhy
      <4>3. pendingPhy[Central] = pendingPhy[Peripheral]
        BY <1>1, <4>1, <4>2 DEF PhyInv, Same
      <4> QED BY <1>1, <2>3, <4>1, <4>3, EventTimers, NodesDiffer
    <3>2. /\ phy'[Central] = phy[Central] /\ phy'[Peripheral] = phy[Peripheral]
          /\ pendingPhy'[Central] = pendingPhy[Central]
          /\ pendingPhy'[Peripheral] = pendingPhy[Peripheral]
      BY <2>3, <3>1, EventTimers, NodesDiffer
    <3>3. NoPhy => NoPhy'
      BY <1>4, EventMoves DEF NoPhy
    <3> QED BY <1>1, <1>4, <2>1, <3>2, <3>3, EventMoves
            DEF PhyInv, NoPhy, Announces, Same
  <2> QED BY <2>2, <2>3
<1> QED BY <1>2, <1>5, <1>6, <1>7 DEF AgreeInv

LEMMA PeripheralProcessesAgree ==
    ASSUME TypeInv, AgreeInv, PeripheralProcesses
    PROVE  AgreeInv'
<1> DEFINE pdu == rx[Peripheral]
<1>1. /\ UNCHANGED <<up, counter, proc, stage, ctrlSlot, onAir, pc, call, preempted, late>>
      /\ rx' = [rx EXCEPT ![Peripheral] = Empty]
  BY DEF PeripheralProcesses, linkVars, procVars, airVars, callVars
<1> SUFFICES ASSUME Together PROVE AgreeInv'
  BY <1>1 DEF AgreeInv, Together
<1>2. /\ counter[Central] = counter[Peripheral] /\ ConnInv /\ CallInv /\ PhyInv
  BY DEF AgreeInv
<1>3. ~ConnReceived' /\ ~PhyReceived'
  BY <1>1, NodesDiffer, Opcodes DEF ConnReceived, PhyReceived, TypeInv, TypeOK
<1>4. /\ rspSlot'[Central] = rspSlot[Central]
      /\ pendingConn'[Central] = pendingConn[Central]
      /\ pendingPhy'[Central] = pendingPhy[Central]
      /\ conn' = conn /\ phy' = phy
      /\ pendingConn'[Peripheral] = IF ConnReceived THEN Pending(pdu.instant, pdu.value)
                                    ELSE pendingConn[Peripheral]
      /\ pendingPhy'[Peripheral] = IF PhyReceived THEN Pending(pdu.instant, pdu.value)
                                   ELSE pendingPhy[Peripheral]
  <2>1. CASE pdu.op \in Requests
    <3>1. UNCHANGED paramVars /\ \E r : Answer(Peripheral, r)
      BY <2>1, Opcodes DEF PeripheralProcesses
    <3> QED BY <2>1, <3>1, Opcodes, NodesDiffer
            DEF Answer, TypeInv, TypeOK, paramVars, ConnReceived, PhyReceived
  <2>2. CASE pdu.op \notin Requests
    <3>1. AcceptUpdate(pdu) /\ UNCHANGED rspSlot
          /\ pdu.op \in {"CONN_UPDATE_IND", "PHY_UPDATE_IND"}
      BY <2>2 DEF PeripheralProcesses
    <3> QED BY <3>1, NodesDiffer
            DEF AcceptUpdate, TypeInv, TypeOK, ConnReceived, PhyReceived
  <2> QED BY <2>1, <2>2
<1>5. CallInv' /\ counter'[Central] = counter'[Peripheral]
  BY <1>1, <1>2, <1>4 DEF CallInv, ConnQueued
<1>6. ConnInv'
  <2>1. Coming' = Coming
    BY <1>1, <1>4 DEF Coming
  <2> QED BY <1>1, <1>2, <1>3, <1>4, <2>1
          DEF ConnInv, NoConn, ConnQueued, ConnOnAir, ConnReceived, Announces, Same
<1>7. PhyInv'
  BY <1>1, <1>2, <1>3, <1>4
  DEF PhyInv, NoPhy, PhyQueued, PhyOnAir, PhyReceived, Announces, Same
<1> QED BY <1>5, <1>6, <1>7 DEF AgreeInv

\* While no update is coming at the central none is under way, and none is
\* pending at the peripheral.
LEMMA NoneComing ==
    ASSUME ConnInv, ~Coming.valid
    PROVE  NoConn /\ ~pendingConn[Peripheral].valid
  BY DEF ConnInv, Announces, Pending, NoConn, Same

LEMMA NoPhyComing ==
    ASSUME PhyInv, ~pendingPhy[Central].valid
    PROVE  NoPhy /\ ~pendingPhy[Peripheral].valid
  BY DEF PhyInv, Announces, Pending, NoPhy, Same

\* A procedure of the chain that ends, and the next one that starts, are no
\* updates.
LEMMA CompleteAgree ==
    ASSUME TypeInv, StepInv, Together, ConnInv, CallInv, PhyInv,
           NEW kind \in Chain, Complete(kind), UNCHANGED <<rspSlot, paramVars>>,
           UNCHANGED <<onAir, pc, call>>, rx'[Peripheral] = rx[Peripheral],
           pc # "idle" => preempted = 0 /\ preempted' = 1
    PROVE  ConnInv' /\ CallInv' /\ PhyInv'
<1> DEFINE p == IF proc = [kind |-> kind, waits |-> "RSP"] THEN NoProc ELSE proc
<1>1. \/ ctrlSlot' = ctrlSlot
      \/ ctrlSlot = Empty /\ ctrlSlot'.op \in Requests
  <2>1. CASE stage = kind
    <3>1. PICK st \in Chain \cup {None} : st = NextStage(kind)
      BY DEF NextStage, Chain
    <3>2. Advance(st, p)
      BY <2>1, <3>1 DEF Complete
    <3> HIDE DEF p
    <3> QED BY <3>1, <3>2, Opcodes DEF Advance
  <2>2. CASE stage # kind
    BY <2>2 DEF Complete
  <2> QED BY <2>1, <2>2
<1>2. ConnQueued' = ConnQueued
  BY <1>1, Opcodes DEF ConnQueued
<1>3. Coming' = Coming
  BY DEF Coming, paramVars
<1>4. ConnInv'
  BY <1>1, <1>2, <1>3, Opcodes
  DEF ConnInv, NoConn, ConnQueued, ConnOnAir, ConnReceived, Announces, Same, paramVars
<1>5. CallInv'
  BY <1>2 DEF CallInv, paramVars
<1>6. stage' \in {"FEATURE", "LENGTH"} \/ proc' = [kind |-> "PHY", waits |-> "RSP"] =>
          NoPhy /\ ~pendingPhy[Central].valid
  <2>1. CASE stage # kind
    <3>1. stage' = stage /\ proc' \in {proc, NoProc}
      BY <2>1 DEF Complete
    <3> QED BY <3>1 DEF PhyInv, NoProc
  <2>2. CASE stage = kind /\ kind \in {"FEATURE", "LENGTH"}
    BY <2>2 DEF PhyInv
  <2>3. CASE stage = kind /\ kind = "PHY"
    <3>1. stage' = None /\ proc' \in {proc, NoProc}
          /\ proc' # [kind |-> "PHY", waits |-> "RSP"]
      BY <2>3 DEF Complete, Advance, NextStage, NoProc
    <3> QED BY <3>1 DEF None
  <2> QED BY <2>1, <2>2, <2>3 DEF Chain
<1>7. PhyInv'
  BY <1>6 DEF PhyInv, NoPhy, PhyQueued, PhyOnAir, PhyReceived, Announces, Same, paramVars
<1> QED BY <1>4, <1>5, <1>7

LEMMA CentralProcessesAgree ==
    ASSUME TypeInv, StepInv, SlotInv, AgreeInv, MaxPreempt <= 1, CentralProcesses
    PROVE  AgreeInv'
<1> DEFINE pdu == rx[Central]
<1>1. /\ UNCHANGED <<up, counter, onAir, pc, call, late>> /\ Preempts
      /\ rx' = [rx EXCEPT ![Central] = Empty]
  BY DEF CentralProcesses, linkVars, airVars
<1> SUFFICES ASSUME Together PROVE AgreeInv'
  BY <1>1 DEF AgreeInv, Together
<1>2. /\ counter[Central] = counter[Peripheral] /\ ConnInv /\ CallInv /\ PhyInv
  BY DEF AgreeInv
<1>3. rx'[Peripheral] = rx[Peripheral]
  BY <1>1, NodesDiffer DEF TypeInv, TypeOK
<1>4. pc # "idle" => preempted = 0 /\ preempted' = 1
  BY <1>1, FirstHandler
<1>5. ASSUME NEW kind \in Chain, Complete(kind), UNCHANGED <<rspSlot, paramVars>>
      PROVE  AgreeInv'
  <2>1. ConnInv' /\ CallInv' /\ PhyInv'
    BY <1>1, <1>2, <1>3, <1>4, <1>5, CompleteAgree
  <2> QED BY <1>1, <1>2, <2>1 DEF AgreeInv
<1>6. ASSUME UNCHANGED <<rspSlot, ctrlSlot, proc, stage, paramVars>> PROVE AgreeInv'
  <2>1. ConnInv' /\ CallInv'
    <3>1. Coming' = Coming
      BY <1>1, <1>6 DEF Coming, paramVars
    <3> QED BY <1>1, <1>2, <1>3, <1>4, <1>6, <3>1
            DEF ConnInv, CallInv, NoConn, ConnQueued, ConnOnAir, ConnReceived, Announces,
                Same, paramVars
  <2>2. PhyInv'
    BY <1>1, <1>2, <1>3, <1>6
    DEF PhyInv, NoPhy, PhyQueued, PhyOnAir, PhyReceived, Announces, Same, paramVars
  <2> QED BY <1>1, <1>2, <2>1, <2>2 DEF AgreeInv
<1>7. CASE /\ pdu.op \in {"FEATURE_RSP", "LENGTH_RSP"}
           /\ Complete(KindOf(pdu.op)) /\ UNCHANGED <<rspSlot, paramVars>>
  <2>1. KindOf(pdu.op) \in Chain
    BY <1>7, RequestOfOne DEF Chain
  <2> QED BY <1>5, <1>7, <2>1
<1>8. CASE DecidePhy(pdu.value)
  <2>1. CASE proc = [kind |-> "PHY", waits |-> "RSP"]
    <3> DEFINE u == Update("PHY_UPDATE_IND", InstantFromNow, pdu.value)
    <3>1. /\ pendingPhy' = [pendingPhy EXCEPT
                              ![Central] = Pending(InstantFromNow, pdu.value)]
          /\ proc' = [kind |-> "PHY", waits |-> "INSTANT"] /\ Answer(Central, u)
          /\ UNCHANGED <<stage, ctrlSlot, conn, phy, pendingConn>>
      BY <1>8, <2>1 DEF DecidePhy
    <3>2. NoPhy /\ ~pendingPhy[Central].valid /\ ~pendingPhy[Peripheral].valid
      BY <1>2, <2>1, NoPhyComing DEF PhyInv
    <3>3. rspSlot[Central] = Empty
      BY <3>2, NodesDiffer DEF NoPhy, PhyQueued, SlotInv, TypeInv, DataInv, WellFormed
    <3>4. /\ rspSlot'[Central] = u /\ pendingPhy'[Peripheral] = pendingPhy[Peripheral]
          /\ pendingPhy'[Central] = Pending(InstantFromNow, pdu.value)
      BY <3>1, <3>3, NodesDiffer DEF Answer, TypeInv, TypeOK
    <3>5. stage \notin {"FEATURE", "LENGTH"}
      BY <2>1 DEF StepInv, ChainInStep, None
    <3>6. u.op = "PHY_UPDATE_IND" /\ Pending(u.instant, u.value) = pendingPhy'[Central]
      BY <3>4 DEF Update
    <3> HIDE DEF u
    <3>7. PhyInv'
      BY <1>1, <1>2, <1>3, <3>1, <3>2, <3>4, <3>5, <3>6
      DEF PhyInv, NoPhy, PhyQueued, PhyOnAir, PhyReceived, Announces
    <3>8. ConnInv' /\ CallInv'
      <4>1. Coming' = Coming
        BY <1>1, <3>1 DEF Coming
      <4> QED BY <1>1, <1>2, <1>3, <1>4, <3>1, <4>1
              DEF ConnInv, CallInv, NoConn, ConnQueued, ConnOnAir, ConnReceived, Announces,
                  Same
    <3> QED BY <1>1, <1>2, <3>7, <3>8 DEF AgreeInv
  <2>2. CASE proc # [kind |-> "PHY", waits |-> "RSP"]
    BY <1>6, <1>8, <2>2 DEF DecidePhy, paramVars
  <2> QED BY <2>1, <2>2
<1>9. CASE Unsupported(pdu.value)
  <2>1. CASE proc.waits = "RSP" /\ pdu.value = Request[proc.kind]
    <3>1. proc.kind \in Chain
      BY <2>1 DEF TypeInv, DataInv
    <3> QED BY <1>5, <1>9, <2>1, <3>1 DEF Unsupported
  <2>2. CASE ~(proc.waits = "RSP" /\ pdu.value = Request[proc.kind])
    BY <1>6, <1>9, <2>2 DEF Unsupported
  <2> QED BY <2>1, <2>2
<1>10. CASE InitiateUpdate(pdu.value)
  <2>1. CASE MayUpdate /\ ctrlSlot = Empty
    <3> DEFINE u == Update("CONN_UPDATE_IND", InstantFromNow, pdu.value)
    <3>1. /\ ctrlSlot' = u /\ proc' = [kind |-> "CONN_UPDATE", waits |-> "INSTANT"]
          /\ pendingConn' = [pendingConn EXCEPT
                               ![Central] = Pending(InstantFromNow, pdu.value)]
          /\ UNCHANGED <<stage, rspSlot, conn, phy, pendingPhy>>
      BY <1>10, <2>1 DEF InitiateUpdate, MarkUpdate
    <3>2. pc # "mark"
      BY <1>2, <1>4, <2>1, Opcodes DEF CallInv, ConnQueued
    <3>3. ~Coming.valid
      BY <2>1, <3>2 DEF MayUpdate, Coming
    <3>4. NoConn /\ ~pendingConn[Peripheral].valid
      BY <1>2, <3>3, NoneComing
    <3>5. /\ pendingConn'[Peripheral] = pendingConn[Peripheral]
          /\ pendingConn'[Central] = Pending(InstantFromNow, pdu.value)
          /\ Coming' = pendingConn'[Central]
      BY <1>1, <3>1, <3>2, NodesDiffer DEF Coming, TypeInv, TypeOK
    <3>6. u.op = "CONN_UPDATE_IND" /\ Pending(u.instant, u.value) = pendingConn'[Central]
      BY <3>5 DEF Update
    <3> HIDE DEF u
    <3>7. ConnInv' /\ CallInv'
      BY <1>1, <1>2, <1>3, <1>4, <3>1, <3>2, <3>4, <3>5, <3>6, Opcodes
      DEF ConnInv, CallInv, NoConn, ConnQueued, ConnOnAir, ConnReceived, Announces
    <3>8. PhyInv'
      BY <1>1, <1>2, <1>3, <3>1
      DEF PhyInv, NoPhy, PhyQueued, PhyOnAir, PhyReceived, Announces, Same
    <3> QED BY <1>1, <1>2, <3>7, <3>8 DEF AgreeInv
  <2>2. CASE ~(MayUpdate /\ ctrlSlot = Empty)
    BY <1>6, <1>10, <2>2 DEF InitiateUpdate, paramVars
  <2> QED BY <2>1, <2>2
<1> QED BY <1>7, <1>8, <1>9, <1>10 DEF CentralProcesses

LEMMA ApplicationsAgree ==
    ASSUME TypeInv, AgreeInv,
           \/ \E value \in Params : CallTests(value) \/ AsksForParams(value)
           \/ CallQueues \/ CallMarks
    PROVE  AgreeInv'
<1>1. /\ UNCHANGED <<up, counter, onAir, rx, late, rspSlot, conn, phy, pendingPhy, stage>>
      /\ pendingConn'[Peripheral] = pendingConn[Peripheral]
      /\ proc' = [kind |-> "PHY", waits |-> "RSP"] =>
             proc = [kind |-> "PHY", waits |-> "RSP"]
  BY NodesDiffer
  DEF CallTests, AsksForParams, CallQueues, CallMarks, MarkUpdate, linkVars, paramVars,
      procVars, airVars, slotVars, TypeInv, TypeOK
<1> SUFFICES ASSUME Together PROVE AgreeInv'
  BY <1>1 DEF AgreeInv, Together
<1>2. /\ counter[Central] = counter[Peripheral] /\ ConnInv /\ CallInv /\ PhyInv
  BY DEF AgreeInv
<1>3. PhyInv'
  BY <1>1, <1>2
  DEF PhyInv, NoPhy, PhyQueued, PhyOnAir, PhyReceived, Announces, Same
<1>4. ASSUME Coming' = Coming, ctrlSlot' = ctrlSlot PROVE ConnInv'
  BY <1>1, <1>2, <1>4
  DEF ConnInv, NoConn, ConnQueued, ConnOnAir, ConnReceived, Announces, Same
<1>5. ASSUME NEW value \in Params, CallTests(value) PROVE ConnInv' /\ CallInv'
  <2>1. pc = "idle" /\ pc' = "queue" /\ UNCHANGED <<ctrlSlot, pendingConn>>
        /\ ~pendingConn[Central].valid
    BY <1>5 DEF CallTests, MayUpdate, slotVars, paramVars
  <2> QED BY <1>4, <2>1 DEF Coming, CallInv
<1>6. ASSUME NEW value \in Params, AsksForParams(value) PROVE ConnInv' /\ CallInv'
  <2>1. UNCHANGED <<pc, call, preempted, ctrlSlot, pendingConn>>
    BY <1>6 DEF AsksForParams, callVars, paramVars
  <2> QED BY <1>2, <1>4, <2>1 DEF Coming, CallInv, ConnQueued
<1>7. ASSUME CallQueues PROVE ConnInv' /\ CallInv'
  <2>1. CASE ctrlSlot = Empty /\ up[Central]
    <3> DEFINE u == Update("CONN_UPDATE_IND", call.instant, call.value)
    <3>1. /\ ctrlSlot' = u /\ pc = "queue" /\ pc' = "mark"
          /\ UNCHANGED <<call, preempted, pendingConn>>
      BY <1>7, <2>1 DEF CallQueues, paramVars
    <3>2. ~pendingConn[Central].valid /\ ~Coming.valid
      BY <1>2, <2>1, <3>1 DEF CallInv, Coming
    <3>3. NoConn /\ ~pendingConn[Peripheral].valid
      BY <1>2, <3>2, NoneComing
    <3>4. Coming' = Pending(call.instant, call.value)
      BY <3>1 DEF Coming
    <3>5. u.op = "CONN_UPDATE_IND" /\ Pending(u.instant, u.value) = Coming'
      BY <3>4 DEF Update
    <3> HIDE DEF u
    <3> QED BY <1>1, <1>2, <3>1, <3>2, <3>3, <3>5
            DEF ConnInv, CallInv, NoConn, ConnQueued, ConnOnAir, ConnReceived, Announces
  <2>2. CASE ~(ctrlSlot = Empty /\ up[Central])
    <3>1. pc = "queue" /\ pc' = "idle" /\ UNCHANGED <<ctrlSlot, pendingConn>>
      BY <1>7, <2>2 DEF CallQueues, paramVars
    <3> QED BY <1>4, <3>1 DEF Coming, CallInv
  <2> QED BY <2>1, <2>2
<1>8. ASSUME CallMarks PROVE ConnInv' /\ CallInv'
  <2>1. /\ pc = "mark" /\ pc' = "idle" /\ UNCHANGED ctrlSlot
        /\ pendingConn'[Central] = Pending(call.instant, call.value)
    BY <1>8, NodesDiffer DEF CallMarks, MarkUpdate, slotVars, TypeInv, TypeOK
  <2> QED BY <1>4, <2>1 DEF Coming, CallInv
<1> QED BY <1>1, <1>2, <1>3, <1>5, <1>6, <1>7, <1>8 DEF AgreeInv

\* Both ends use the same parameters and PHY in every connection event, unless
\* an announcement was not heard before its instant.  The premise is that of the
\* code's own argument: of the handlers, one at most comes within the few
\* statements of ble_gap_initiate_conn_update.
THEOREM EndsAgree ==
    ASSUME MaxPreempt <= 1
    PROVE  Spec => []ParametersAgree
<1>1. Init => AgreeInv
  <2> SUFFICES ASSUME Init PROVE AgreeInv
    OBVIOUS
  <2>1. /\ ~ConnQueued /\ ~ConnOnAir /\ ~ConnReceived
        /\ ~PhyQueued /\ ~PhyOnAir /\ ~PhyReceived
    BY NodesDiffer, Opcodes
    DEF Init, ConnQueued, ConnOnAir, ConnReceived, PhyQueued, PhyOnAir, PhyReceived, Plain,
        Carrying
  <2> QED BY <2>1, NodesDiffer
          DEF Init, AgreeInv, ConnInv, CallInv, PhyInv, NoConn, NoPhy, Same, Coming, NoUpdate
<1>2. TypeInv /\ StepInv /\ SlotInv /\ WayInv /\ AgreeInv /\ [Next]_vars => AgreeInv'
  <2> SUFFICES ASSUME TypeInv, StepInv, SlotInv, WayInv, AgreeInv, [Next]_vars
               PROVE  AgreeInv'
    OBVIOUS
  <2>1. CASE Handlers
    BY <2>1, ConnectionEventAgree, PeripheralProcessesAgree, CentralProcessesAgree
    DEF Handlers
  <2>2. CASE \/ \E value \in Params : CallTests(value) \/ AsksForParams(value)
             \/ CallQueues \/ CallMarks
    BY <2>2, ApplicationsAgree
  <2>3. CASE UNCHANGED vars
    <3>1. Coming' = Coming /\ NoConn' = NoConn /\ NoPhy' = NoPhy
      BY <2>3 DEF vars, linkVars, paramVars, procVars, slotVars, airVars, callVars, Coming,
         NoConn, NoPhy, ConnQueued, ConnOnAir, ConnReceived, PhyQueued, PhyOnAir, PhyReceived
    <3> QED BY <2>3, <3>1
            DEF vars, linkVars, paramVars, procVars, slotVars, airVars, callVars, AgreeInv,
                Together, ConnInv, CallInv, PhyInv, ConnQueued, ConnOnAir, ConnReceived,
                PhyQueued, PhyOnAir, PhyReceived
  <2> QED BY <2>1, <2>2, <2>3 DEF Next
<1>3. AgreeInv => ParametersAgree
  BY NodesDiffer DEF AgreeInv, Together, ParametersAgree, ConnInv, PhyInv
<1> QED BY <1>1, <1>2, <1>3, TypeInvariant, StepInvariant, SlotInvariant, WayInvariant, PTL
        DEF Spec
=============================================================================
