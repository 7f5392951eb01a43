----------------------------- MODULE AttExchange -----------------------------
(***************************************************************************)
(* ATT between a GATT client at the central and a GATT server at the       *)
(* peripheral: the client's procedures, one at a time, the server's        *)
(* answers, and notifications and indications.                             *)
(*                                                                         *)
(* Below is a link that delivers in order: each end has its L2CAP queue    *)
(* and one PDU on the air (DataChannel implements it).  A PDU is processed *)
(* in one step, by the RADIO handler at the end of its event.  The calls   *)
(* of the applications run below RADIO and are split where a PDU may be    *)
(* sent or processed between two of their steps.                           *)
(*                                                                         *)
(* READ stands for every procedure of one request and one response of its  *)
(* own (MTU exchange, read).  The four discoveries ask again until they    *)
(* reach the end of their range or an error says that there is no more;    *)
(* what they find is in Discovery.  The behaviour ends with the connection.*)
(***************************************************************************)
EXTENDS Discovery

CONSTANTS
    QueueDepth,   \* BLE_CONN_TX_L2CAP_QUEUE_DEPTH
    Callers,      \* contexts the applications call from: "main", "callback"
    MaxCalls,     \* bound: client procedures
    MaxCommands,  \* bound: write commands of the client
    MaxValues,    \* bound: notifications and indications of the server
    MaxPreempt    \* bound: steps of an end's handlers within one call there

ASSUME DepthAssumption == QueueDepth \in Nat \ {0}
ASSUME CallersAssumption == Callers \subseteq {"main", "callback"} /\ Callers # {}
ASSUME BoundAssumption ==
    {MaxCalls, MaxCommands, MaxValues, MaxPreempt} \subseteq Nat

Client == "client"
Server == "server"
Node == {Client, Server}
Other(n) == IF n = Client THEN Server ELSE Client

None == "none"
\* A write to a value, and two writes to a CCCD.
CccdWrites == {"SUBSCRIBE_REQ", "UNSUBSCRIBE_REQ"}
Writes == {"WRITE_REQ"} \cup CccdWrites
Requests == {"READ_REQ", "DISCOVER_REQ"} \cup Writes
Responses == {"READ_RSP", "WRITE_RSP", "DISCOVER_RSP", "ERROR_RSP"}
Values == {"NOTIFICATION", "INDICATION"}
Ops == Requests \cup Responses \cup Values \cup {"COMMAND", "CONFIRMATION"}
\* A request of a discovery says what it asks for; its response of what kind it
\* is, and its entries.
NoAsk == [kind |-> None, uuid |-> NoUuid, first |-> 0, last |-> 0]
Pdu(op, ask, entries) == [op |-> op, ask |-> ask, entries |-> entries]
Plain(op) == Pdu(op, NoAsk, <<>>)
DiscoverReq(ask) == Pdu("DISCOVER_REQ", ask, <<>>)
DiscoverRsp(kind, entries) ==
    Pdu("DISCOVER_RSP", [NoAsk EXCEPT !.kind = kind], entries)
NoPdu == Plain(None)

Pdus ==
    [op : Ops \ {"DISCOVER_REQ", "DISCOVER_RSP"}, ask : {NoAsk}, entries : {<<>>}]
        \cup [op : {"DISCOVER_REQ"}, ask : Asks, entries : {<<>>}]
        \cup [op : {"DISCOVER_RSP"}, entries : Seq(Entries) \ {<<>>},
              ask : {[NoAsk EXCEPT !.kind = k] : k \in Discoveries}]

Procedures == {"READ", "WRITE", "CCCD"} \cup Discoveries

VARIABLES
    up,          \* m_link.connected, at both ends
    queue,       \* l2cap_tx_queue of each end
    air,         \* the PDU each end has staged and the other not processed
    proc,        \* m_client.procedure
    range,       \* m_client.range_start, range_end and service_uuid
    subscribed,  \* the CCCD allows notifications and indications
    pending,     \* m_indication_pending
    pc,          \* where the calls at each end are, per context
    todo,        \* the PDU each of them is about to queue
    preempted,   \* steps of the end's handlers since a call began there
    calls, commands, values,  \* history: how many so far
    lost,        \* history: an answer of the end found its queue full
    cut,         \* history: a discovery could not queue its next request
    sought,      \* history: what the last discovery has asked for
    found,       \* history: the entries it has reported
    complete     \* history: it has reported its completion

linkVars == <<up, queue, air>>
clientVars == <<proc, range>>
serverVars == <<subscribed, pending>>
callVars == <<pc, todo, preempted>>
boundVars == <<calls, commands, values>>
findVars == <<cut, sought, found, complete>>
eventVars == <<lost, findVars>>
vars == <<linkVars, clientVars, serverVars, callVars, boundVars, eventVars>>

TypeOK ==
    /\ up \in BOOLEAN
    /\ queue \in [Node -> Seq(Pdus)]
    /\ \A n \in Node : Len(queue[n]) <= QueueDepth
    /\ air \in [Node -> Pdus \cup {NoPdu}]
    /\ proc \in Procedures \cup {None}
    /\ range \in Asks \cup {NoAsk}
    /\ subscribed \in BOOLEAN /\ pending \in BOOLEAN
    /\ pc \in [Node -> [Callers -> {"idle", "set", "queue", "mark"}]]
    /\ todo \in [Node -> [Callers -> Pdus \cup {NoPdu}]]
    /\ preempted \in [Node -> 0 .. MaxPreempt]
    /\ calls \in 0 .. MaxCalls /\ commands \in 0 .. MaxCommands
    /\ values \in 0 .. MaxValues
    /\ lost \in [Node -> BOOLEAN] /\ cut \in BOOLEAN
    /\ sought \in Asks \cup {NoAsk} /\ found \in Seq(Entries)
    /\ complete \in BOOLEAN

\* A connection has just been made: both GATT roles have reset their state.
Init ==
    /\ up = TRUE
    /\ queue = [n \in Node |-> <<>>]
    /\ air = [n \in Node |-> NoPdu]
    /\ proc = None /\ range = NoAsk
    /\ subscribed = FALSE /\ pending = FALSE
    /\ pc = [n \in Node |-> [c \in Callers |-> "idle"]]
    /\ todo = [n \in Node |-> [c \in Callers |-> NoPdu]]
    /\ preempted = [n \in Node |-> 0]
    /\ calls = 0 /\ commands = 0 /\ values = 0
    /\ lost = [n \in Node |-> FALSE] /\ cut = FALSE
    /\ sought = NoAsk /\ found = <<>> /\ complete = FALSE

-----------------------------------------------------------------------------
(***************************************************************************)
(* Calls and what comes between their steps.                               *)
(***************************************************************************)

CallActive(n) == \E c \in Callers : pc[n][c] # "idle"

\* c's call goes on: a callback preempts the main loop at the same end.
Runs(n, c) == c = "main" /\ "callback" \in Callers => pc[n]["callback"] = "idle"

\* A handler of n runs: within a call, only so often.
HandlerRuns(n) ==
    IF CallActive(n)
    THEN preempted[n] < MaxPreempt /\ preempted' = [preempted EXCEPT ![n] = @ + 1]
    ELSE UNCHANGED preempted

Enters(n, c, at, pdu) ==
    /\ pc' = [pc EXCEPT ![n][c] = at]
    /\ todo' = [todo EXCEPT ![n][c] = pdu]
    /\ UNCHANGED preempted

Returns(n, c) ==
    /\ pc' = [pc EXCEPT ![n][c] = "idle"]
    /\ todo' = [todo EXCEPT ![n][c] = NoPdu]
    /\ preempted' = [preempted EXCEPT
                       ![n] = IF \E d \in Callers \ {c} : pc[n][d] # "idle" THEN @ ELSE 0]

\* Mutant of Room: the depth is not tested.
RoomAlways(n) == up

\* controller_queue_l2cap_payload has room.
Room(n) == up /\ Len(queue[n]) < QueueDepth

Queue(n, pdu) == queue' = [queue EXCEPT ![n] = Append(@, pdu)]

-----------------------------------------------------------------------------
(***************************************************************************)
(* The client.                                                             *)
(***************************************************************************)

\* Mutant of Busy: the test forgets the procedures of one request.
BusyDiscovering == proc \in Discoveries

\* ble_gatt_client_is_busy
Busy == proc # None

\* Mutant of ClearProcedure: the procedure itself stays.
ClearProcedureKeeps == UNCHANGED proc /\ range' = NoAsk

\* gatt_client_clear_procedure
ClearProcedure == proc' = None /\ range' = NoAsk

\* The tests of the calls that start a procedure.
ClientTests(c, pdu) ==
    /\ calls < MaxCalls
    /\ pc[Client][c] = "idle" /\ Runs(Client, c)
    /\ up /\ ~Busy
    /\ calls' = calls + 1
    /\ Enters(Client, c, "set", pdu)
    /\ UNCHANGED <<linkVars, clientVars, serverVars, commands, values, eventVars>>

ProcedureOf(pdu) ==
    CASE pdu.op = "READ_REQ"     -> "READ"
      [] pdu.op = "DISCOVER_REQ" -> pdu.ask.kind
      [] OTHER                   -> "WRITE"

\* ... which then record the procedure and its range, ...
ClientRecords(c) ==
    LET pdu == todo[Client][c]
    IN  /\ pc[Client][c] = "set" /\ Runs(Client, c)
        /\ proc' = ProcedureOf(pdu)
        /\ IF pdu.op = "DISCOVER_REQ"
           THEN /\ range' = pdu.ask /\ sought' = pdu.ask
                /\ found' = <<>> /\ complete' = FALSE /\ cut' = FALSE
           ELSE UNCHANGED <<range, findVars>>
        /\ Enters(Client, c, "queue", pdu)
        /\ UNCHANGED <<linkVars, serverVars, boundVars, lost>>

\* ... and queue its request or forget it again.
ClientQueues(c) ==
    LET pdu == todo[Client][c]
    IN  /\ pc[Client][c] = "queue" /\ Runs(Client, c)
        /\ IF Room(Client)
           THEN /\ Queue(Client, pdu)
                /\ IF pdu.op \in CccdWrites
                   THEN Enters(Client, c, "mark", pdu)
                   ELSE Returns(Client, c)
                /\ UNCHANGED clientVars
           ELSE ClearProcedure /\ Returns(Client, c) /\ UNCHANGED queue
        /\ UNCHANGED <<up, air, serverVars, boundVars, eventVars>>

\* ble_gatt_client_write_cccd renames the procedure its write has begun.
ClientMarksCccd(c) ==
    /\ pc[Client][c] = "mark" /\ Runs(Client, c)
    /\ proc' = "CCCD"
    /\ Returns(Client, c)
    /\ UNCHANGED <<linkVars, range, serverVars, boundVars, eventVars>>

\* ble_gatt_client_write without response.
ClientCommands ==
    /\ commands < MaxCommands
    /\ Room(Client)
    /\ Queue(Client, Plain("COMMAND"))
    /\ commands' = commands + 1
    /\ UNCHANGED <<up, air, clientVars, serverVars, callVars, calls, values,
                   eventVars>>

\* An answer to what was received, dropped when the queue is full.
Answers(n, pdu) ==
    IF Len(queue[n]) < QueueDepth
    THEN Queue(n, pdu) /\ UNCHANGED lost
    ELSE lost' = [lost EXCEPT ![n] = TRUE] /\ UNCHANGED queue

\* Mutant of NextFirst: the attribute reported last is asked for again.
NextFirstSame(entry) == entry.handle

NextFirst(entry) == entry.end + 1

\* Responses with entries.  A discovery reports them, then asks for what comes
\* after the last or completes: at the end of its range, and when its request
\* cannot be queued.
ClientDiscovers(entries) ==
    LET next == [range EXCEPT !.first = NextFirst(Last(entries))]
    IN  /\ found' = found \o entries
        /\ IF Last(entries).end >= range.last
           THEN ClearProcedure /\ complete' = TRUE /\ UNCHANGED <<queue, cut>>
           ELSE IF Len(queue[Client]) < QueueDepth
           THEN /\ range' = next
                /\ Queue(Client, DiscoverReq(next))
                /\ UNCHANGED <<proc, complete, cut>>
           ELSE /\ ClearProcedure
                /\ complete' = TRUE /\ cut' = TRUE
                /\ UNCHANGED queue
        /\ UNCHANGED <<lost, sought>>

\* Mutant of Finishes: a CCCD write waits for a response of its own.
FinishesExactly(op) ==
    \/ op = "READ_RSP" /\ proc = "READ"
    \/ op = "WRITE_RSP" /\ proc = "WRITE"

\* The responses that end the procedure in progress.
Finishes(op) ==
    \/ op = "READ_RSP" /\ proc = "READ"
    \/ op = "WRITE_RSP" /\ proc \in {"WRITE", "CCCD"}

\* ble_gatt_client_process_att_pdu.  A response that fits no procedure is
\* ignored; an error ends any.
ClientProcesses(pdu) ==
    \/ /\ pdu.op = "DISCOVER_RSP" /\ proc = pdu.ask.kind
       /\ ClientDiscovers(pdu.entries)
    \/ /\ Finishes(pdu.op)
       /\ ClearProcedure
       /\ UNCHANGED <<queue, eventVars>>
    \/ /\ pdu.op = "ERROR_RSP"
       /\ ClearProcedure
       /\ complete' = (complete \/ proc \in Discoveries)
       /\ UNCHANGED <<queue, lost, cut, sought, found>>
    \/ /\ pdu.op = "INDICATION"
       /\ Answers(Client, Plain("CONFIRMATION"))
       /\ UNCHANGED <<clientVars, findVars>>
    \/ /\ \/ pdu.op = "NOTIFICATION"
          \/ pdu.op = "DISCOVER_RSP" /\ proc # pdu.ask.kind
          \/ pdu.op \in {"READ_RSP", "WRITE_RSP"} /\ ~Finishes(pdu.op)
       /\ UNCHANGED <<queue, clientVars, eventVars>>

-----------------------------------------------------------------------------
(***************************************************************************)
(* The server.                                                             *)
(***************************************************************************)

Error == Plain("ERROR_RSP")

\* att_handle_write_req: permissions and lengths may refuse it.
ServesWrite(op) ==
    \/ /\ Answers(Server, Plain("WRITE_RSP"))
       /\ subscribed' = CASE op = "SUBSCRIBE_REQ"   -> TRUE
                          [] op = "UNSUBSCRIBE_REQ" -> FALSE
                          [] OTHER                  -> subscribed
    \/ Answers(Server, Error) /\ UNCHANGED subscribed

\* ble_gatt_server_process_att_pdu
ServerProcesses(pdu) ==
    \/ /\ pdu.op = "READ_REQ"
       /\ \E rsp \in {Plain("READ_RSP"), Error} : Answers(Server, rsp)
       /\ UNCHANGED serverVars
    \/ pdu.op \in Writes /\ ServesWrite(pdu.op) /\ UNCHANGED pending
    \/ /\ pdu.op = "DISCOVER_REQ"
       /\ \/ AllWanted(pdu.ask) = {} /\ Answers(Server, Error)
          \/ \E first \in AllWanted(pdu.ask) :
                 /\ \A h \in AllWanted(pdu.ask) : first <= h
                 /\ Answers(Server, DiscoverRsp(pdu.ask.kind, Response(pdu.ask, first)))
       /\ UNCHANGED serverVars
    \/ /\ pdu.op = "CONFIRMATION"
       /\ pending' = FALSE
       /\ UNCHANGED <<queue, lost, subscribed>>
    \/ pdu.op = "COMMAND" /\ UNCHANGED <<queue, lost, serverVars>>

\* ble_gatt_server_notify_characteristic
ServerNotifies ==
    /\ values < MaxValues
    /\ subscribed /\ Room(Server)
    /\ Queue(Server, Plain("NOTIFICATION"))
    /\ values' = values + 1
    /\ UNCHANGED <<up, air, clientVars, serverVars, callVars, calls, commands,
                   eventVars>>

\* Mutant of MayIndicate: the gate is not tested.
MayIndicateAlways == up /\ subscribed

\* ble_gatt_server_build_indication
MayIndicate == up /\ subscribed /\ ~pending

\* ble_gatt_server_indicate_characteristic: its tests, ...
ServerTests(c) ==
    /\ values < MaxValues
    /\ pc[Server][c] = "idle" /\ Runs(Server, c)
    /\ MayIndicate
    /\ values' = values + 1
    /\ Enters(Server, c, "queue", Plain("INDICATION"))
    /\ UNCHANGED <<linkVars, clientVars, serverVars, calls, commands, eventVars>>

\* ... the indication, if there is room, ...
ServerQueues(c) ==
    /\ pc[Server][c] = "queue" /\ Runs(Server, c)
    /\ IF Room(Server)
       THEN Queue(Server, todo[Server][c]) /\ Enters(Server, c, "mark", NoPdu)
       ELSE Returns(Server, c) /\ UNCHANGED queue
    /\ UNCHANGED <<up, air, clientVars, serverVars, boundVars, eventVars>>

\* ... and the mark that it is pending.
ServerMarks(c) ==
    /\ pc[Server][c] = "mark" /\ Runs(Server, c)
    /\ pending' = TRUE
    /\ Returns(Server, c)
    /\ UNCHANGED <<linkVars, clientVars, subscribed, boundVars, eventVars>>

-----------------------------------------------------------------------------
(***************************************************************************)
(* The link.                                                               *)
(***************************************************************************)

\* A connection event of n stages the head of its queue.
Transmits(n) ==
    /\ up /\ air[n] = NoPdu /\ queue[n] # <<>>
    /\ HandlerRuns(n)
    /\ air' = [air EXCEPT ![n] = Head(queue[n])]
    /\ queue' = [queue EXCEPT ![n] = Tail(@)]
    /\ UNCHANGED <<up, clientVars, serverVars, pc, todo, boundVars, eventVars>>

\* ble_l2cap_process_conn_data_pdu at the other end.
Processes(n) ==
    LET pdu == air[Other(n)]
    IN  /\ up /\ pdu # NoPdu
        /\ HandlerRuns(n)
        /\ air' = [air EXCEPT ![Other(n)] = NoPdu]
        /\ IF n = Client
           THEN ClientProcesses(pdu) /\ UNCHANGED serverVars
           ELSE ServerProcesses(pdu) /\ UNCHANGED <<clientVars, findVars>>
        /\ UNCHANGED <<up, pc, todo, boundVars>>

\* controller_disconnect_internal resets both GATT roles and the queues.
Disconnect ==
    /\ up /\ up' = FALSE
    /\ queue' = [n \in Node |-> <<>>]
    /\ air' = [n \in Node |-> NoPdu]
    /\ ClearProcedure
    /\ subscribed' = FALSE /\ pending' = FALSE
    /\ UNCHANGED <<callVars, boundVars, eventVars>>

\* What a client asks for: a value, a write, a subscription; all services,
\* those of a UUID, and the characteristics and descriptors of a service or of
\* all.
Ranges ==
    {<<1, MaxHandle>>}
        \cup {<<h, ServiceEnd(h)>> : h \in {g \in 1 .. Len(Table) : IsService(g)}}

Discovered ==
    {Ask("services", NoUuid, 1, MaxHandle)}
        \cup {Ask("servicesByUuid", u, 1, MaxHandle) : u \in Uuids \ {NoUuid}}
        \cup {Ask(kind, NoUuid, r[1], r[2]) :
                 kind \in {"characteristics", "descriptors"}, r \in Ranges}

Asked ==
    {Plain("READ_REQ")} \cup {Plain(w) : w \in Writes}
        \cup {DiscoverReq(ask) : ask \in Discovered}

ClientCalls(c) == ClientRecords(c) \/ ClientQueues(c) \/ ClientMarksCccd(c)
ServerCalls(c) == ServerQueues(c) \/ ServerMarks(c)

Next ==
    \/ \E c \in Callers : \/ \E pdu \in Asked : ClientTests(c, pdu)
                          \/ ClientCalls(c)
                          \/ ServerTests(c)
                          \/ ServerCalls(c)
    \/ ClientCommands \/ ServerNotifies
    \/ \E n \in Node : Transmits(n) \/ Processes(n)
    \/ Disconnect

Spec == Init /\ [][Next]_vars

(***************************************************************************)
(* The link delivers (DataChannel's L2capDelivered), and a call once begun *)
(* goes on.                                                                *)
(***************************************************************************)
Fairness ==
    /\ \A n \in Node : WF_vars(Transmits(n)) /\ WF_vars(Processes(n))
    /\ \A c \in Callers : WF_vars(ClientCalls(c)) /\ WF_vars(ServerCalls(c))

FairSpec == Spec /\ Fairness

-----------------------------------------------------------------------------
(***************************************************************************)
(* Properties.                                                             *)
(***************************************************************************)

\* The PDUs of ops on their way from n, by their places: 0 is on the air.
PduAt(n, i) == IF i = 0 THEN air[n] ELSE queue[n][i]
On(n, ops) == {i \in 0 .. Len(queue[n]) : PduAt(n, i).op \in ops}
Under(n, ops) == Cardinality(On(n, ops))

RequestsUnder == Under(Client, Requests)
ResponsesUnder == Under(Server, Responses)

\* The client is busy exactly while one request or its response is under way,
\* once its call has returned and unless the server had no room to answer:
\* no procedure waits for nothing, and none answers another's request.
ProcedureUnderWay ==
    up /\ ~lost[Server] /\ ~CallActive(Client) =>
        RequestsUnder + ResponsesUnder = (IF Busy THEN 1 ELSE 0)

Unconfirmed == Under(Server, {"INDICATION"}) + Under(Client, {"CONFIRMATION"})

\* Of calls from one context: the gate of indications is closed exactly while one
\* is unconfirmed, once the call that queued it has returned and unless the
\* client had no room to confirm; and there never is more than one.
IndicationGate ==
    /\ Unconfirmed <= 1
    /\ up /\ ~lost[Client] /\ ~CallActive(Server) => (pending <=> Unconfirmed = 1)

\* "Another indication cannot be queued until BLE_ATT_OP_HANDLE_VALUE_CONFIRMATION
\* is received", whoever calls (BLE_STACK_FLOWCHARTS.md).
IndicationsOneAtATime == Unconfirmed <= 1

\* A discovery reports what is there, in the order of the table and each once,
\* and all of it when it completes, unless its next request found the queue
\* full, or an entry of another length lies among those of a response.
DiscoveryFaithful ==
    sought # NoAsk =>
        /\ \A i \in DOMAIN found :
               /\ found[i].handle \in AllWanted(sought)
               /\ found[i] = Entry(sought.kind, found[i].handle)
        /\ \A i, j \in DOMAIN found : i < j => found[i].handle < found[j].handle
        /\ complete /\ ~cut => Reported(sought, found) \/ ~Grouped(sought)

\* "Discover all primary services on the connected peer."
AllServicesDiscovered ==
    sought.kind = "services" /\ complete /\ ~cut => Reported(sought, found)

\* Every procedure ends, at the latest with the connection, unless the server's
\* answer was dropped.
ProceduresEnd == Busy ~> ~Busy \/ ~up \/ lost[Server]

\* The exchange as remote calls: what kind of call a PDU makes or answers.
Kind(op) ==
    CASE op \in {"READ_REQ", "READ_RSP"} -> "READ"
      [] op \in Writes \cup {"WRITE_RSP"}  -> "WRITE"
      [] op \in {"DISCOVER_REQ", "DISCOVER_RSP"} -> "DISCOVER"
      [] OTHER -> "ERROR"

KindsOn(n, ops) == [i \in 1 .. Under(n, ops) |-> Kind(PduAt(n, Nth(On(n, ops), i)).op)]

Call == INSTANCE AttCall WITH
    called <- KindsOn(Client, Requests),
    served <- IF up /\ lost[Server] THEN <<"DROPPED">> \o KindsOn(Server, Responses)
              ELSE KindsOn(Server, Responses)

\* Requests and responses implement remote calls made one at a time, each
\* answered by a response of its kind or an error.
ImplementsCall == Call!Spec
=============================================================================
