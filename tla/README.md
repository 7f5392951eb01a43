# A TLA+ model of nrf-ble-stack

nrf-ble-stack is a small Bluetooth Low Energy stack for the nRF52: link layer,
L2CAP, GATT and GAP in about eight thousand lines of C, without an operating
system and without a SoftDevice. This directory holds TLA+ modules that model
its concurrent core, TLC configurations that check them, and TLAPS proofs of
the properties that matter most. Source lines are cited as `file:line`, the
prefix `src/stack/` left out.

- [The system](#the-system)
- [Modules](#modules)
- [Runs](#runs)
- [Proofs](#proofs)
- [What the model found](#what-the-model-found)
- [What is not modelled](#what-is-not-modelled)
- [Plan](#plan)

## The system

### Contexts

Everything runs in interrupt handlers and in the application's main loop, and
shares two large structures, `m_link` (the connection) and `m_ctrl_rt` (the
controller's run-time state).

| context | priority | what runs in it |
|---|---|---|
| `TIMER0_IRQHandler` | 0 | start of a connection event, supervision, instants |
| `RADIO_IRQHandler` | 1 | BCMATCH, CRCOK, CRCERROR, DISABLED, ADDRESS |
| `SWI1_EGU1_IRQHandler` | 6 | deferred events: the application's callbacks |
| app_timer handlers | 6 | advertising and scan timers, parameter update timer |
| main loop | lowest | the application's calls of `ble_gap_*`, `ble_gatt_*` |

A numerically lower priority preempts. `irq_lock` protects the event ring, the
transmit slots and the L2CAP queue, and little else: most other operations that
span several shared variables are a test followed by an update, with a window
between them.

### Components

| component | state | operations | calls, is called by |
|---|---|---|---|
| data channel (`ble_controller_common.c`, `_central.c`, `_peripheral.c`) | sequence bits, last and next PDU, two control slots, L2CAP queue, `conn_bcmatch`, radio phase | start of a connection event, BCMATCH, CRCOK, CRCERROR, DISABLED; queueing | TIMER0 and RADIO call it; it calls LL control and L2CAP with each new PDU |
| LL control procedures (`_common.c`, `_central.c`) | procedure and its state, stage of the automatic chain, pending connection, PHY and channel map updates, event counter | `ll_control_process`, `controller_central_auto_ctrl_*`, `controller_central_initiate_conn_update`, instants in TIMER0 | data channel, L2CAP signaling, the application |
| supervision (`_common.c:721`) | started, seen in this interval, missed intervals | once per interval in TIMER0 | ends the link through `controller_disconnect_internal` |
| connection timing (`_common.c:78-165`) | tick of the next event, PPI capture of the anchor | schedule, re-anchor, hop, channel map | TIMER0 |
| advertising (`_peripheral.c`) | radio phase, pending scan response, pending CONNECT_REQ | timer handler, RADIO handlers, start | app_timer, RADIO, GAP |
| scanning and initiating (`_central.c`) | scan phase, target, window and interval timers, reports | timers, RADIO handlers, start, stop, connect | app_timer, RADIO, GAP |
| event dispatch (`ble_runtime.c`) | ring of 16 events | `ble_evt_post` from every context, the SWI handler | everything posts; it calls the application |
| GAP (`ble_gap.c`) | configuration, filters, parameter update timer | `ble_gap_*` | the application |
| L2CAP (`ble_l2cap.c`) | signaling identifier | demultiplexing, parameter update request and response | data channel, GAP, GATT |
| GATT server (`ble_gatt_server.c`) | attribute table, CCCDs, MTU, indication pending | ATT requests, notify, indicate, building services | L2CAP, the application |
| GATT client (`ble_gatt_client.c`) | the one procedure in progress, its range | discovery, read, write, CCCD, notifications | L2CAP, the application |
| radio driver (`radio_driver.c`) | interrupt mask, callback | mode, shorts, `radio_disable`, `RADIO_IRQHandler` | controller |
| initialisation, UUID helpers, AD builders | | run once or pure | |

### What is hard

- **One bit of sequence number, two interrupts per packet.** The peripheral
  must have its answer ready T_IFS after the packet ends, so it stages it at
  BCMATCH from a header whose CRC is not yet known, and commits at CRCOK.
  Between the two, the application may queue, and the CRC may fail.
- **Retransmission of a stored PDU**, header included, with three sources of
  PDUs at three priorities behind it.
- **Three ways to end a link** (supervision in TIMER0, LL_TERMINATE_IND in
  RADIO, `ble_gap_disconnect` in the main loop or a callback), the last of
  which any of the others can interrupt, and an application that advertises
  again from a callback meanwhile.
- **Updates at an instant** that both ends must reach with the same parameters,
  announced over a lossy link.
- **A ring buffer posted to from four priorities**, whose consumer is woken
  after the lock has been released.
- **Slots and queues of fixed size** whose "full" is mostly ignored.
- **A scan that two timers and three radio interrupts pass on to one another**,
  any of which may be the last, while the application changes its filter.

### What makes each component correct

- Data channel: every PDU put into transmission is processed once, in order;
  what is consumed is what was transmitted; L2CAP stays first in, first out;
  whatever is accepted is delivered while the link lasts.
- LL control: the chain neither stops nor skips; request and response are
  neither lost nor doubled; both ends change over together, or part.
- Dispatch: an accepted event is dispatched once, in order; no wake-up is lost.
- Lifecycle: a live link always has its timer and radio, a dead one never; the
  application's picture of the link catches up; advertising resumes; a silent
  peer is noticed.
- GATT: one procedure, one indication at a time; a request is answered once, by
  a response of its kind; a discovery reports its whole range once, in order.
- Scanning: the phase says what the radio does; a window has its timer, and
  scanning goes on; a scan response is reported after its advertisement; a
  remembered advertiser met the filter in force; a link is one whose
  CONNECT_REQ went out.

The hazards behind these properties are listed in `PROJECT.json`, each at the
line where it bites, with the properties that would catch it.

## Modules

### DataChannel, MCDataChannel: the connected data channel

Both ends of a link, each running this stack. One action is one interrupt
handler or one call of the application between two interrupts; the actions bear
the handlers' names (`CentralStartEvent`, `PeripheralBcmatch`, ...), and each
variable names the C variable it stands for. A slot and its `has_pending` flag
are one variable. A PDU is its two header bits and a body: a control opcode, a
numbered L2CAP payload or nothing. What the host and LL control do with a PDU
is reduced to what they do to the link: which answers they queue.

The air is one packet and how far its reception has come: `start` (nobody has
decoded it), `header` (BCMATCH has run), `done` (its CRC is known). `ok`
foretells the CRC; when it is going to fail, BCMATCH reads an arbitrary header.

Timing is modelled by order, where the code's constants guarantee it:

- the peripheral opens its window `BLE_CONN_EVENT_GUARD_US` (5000 us) before
  the anchor, so the central transmits to a peripheral that already listens;
- the central's TX DISABLED interrupt is handled within T_IFS (150 us), so
  before the peripheral's answer begins;
- TIMER0 does not open an event while the previous one is being handled: the
  shortest interval is 7.5 ms, a handler takes microseconds, and what happens
  with an interrupt latency of an interval is not modelled.

History variables (`sent`, `rcvd`, `submitted`, `requests`) record what the
properties speak of; nothing reads them but the bounds `MaxL2cap` and
`MaxRequests`.

### ReliableLink: what the data channel promises

Two sequences that grow at their ends: an end sends a PDU only after the last
one has been processed, and the peer processes exactly the next one; either end
may go down. DataChannel implements it with `sent`, `rcvd` and `connected` as
they are.

### EvtDispatch and EvtQueue: deferred events

`ble_evt_post` and the `SWI1_EGU1` handler, with the four contexts that post.
A post is split where the lock is released: the event is in the ring
(`Post`), then the interrupt is set pending (`SetPending`). The handler's
return is split from its test that the ring is empty (`SwiEmpty`, `SwiReturn`):
the NVIC keeps a pending bit set in between. A context runs only when no more
urgent one does. Which callback an event goes to, and what it carries, is data:
two model values stand for all events.

EvtQueue is a bounded queue of pending events with two operations, accept and
dispatch, and a capacity of `Size - 1`. The refinement mapping reads the slots
from `ridx` to `widx` as a sequence.

### PeripheralLifecycle: advertising, linked, gone, and again

One peripheral and an environment that connects, transmits, terminates or falls
silent at will. RADIO and TIMER0 handlers are single steps: RADIO is preempted
only by TIMER0, whose next interrupt is an interval away whenever RADIO changes
the link. The calls an application makes are split at every point where a more
urgent context can come between a test and its use: `ble_gap_start_advertising`
between the test of `m_link.connected` and the arming of the radio,
`ble_gap_disconnect` between sampling `was_connected`, clearing the link,
stopping its timer, waiting in `radio_disable` (with the event
`EVENTS_DISABLED` that the loop polls and `RADIO_IRQHandler` clears), and
notifying. The advertising loop's own wait is in the model too: on a channel that
finds the radio on, because the connection was made on an earlier one,
`radio_set_mode` disables it first (`AdvSilence`, `AdvDisableSeen`), and TIMER0,
which waits for the same `EVENTS_READY`, may take it away (`"stalled"`). The
application is a set
of habits: `restart` (advertise from the DISCONNECTED callback, as the examples
do), `hangupInCallback`, `hangup` (in the main loop), `advertise` (in the main
loop, at any time). `Apps` is a set of such sets: a run starts with each of its
applications, and a property that holds for some of them only says which
(`ActsInCallbacks`).

The history variable `overtaken` says that a link was made while some
`ble_gap_disconnect` had read `m_link.connected` and not returned. `Stuck` says
that a wait below RADIO's priority can end no more. The behaviour starts after
initialisation and the first `ble_gap_start_advertising`. app_timer expiry and stop take effect at once.

### LLControl: procedures and instants

The link below is not DataChannel again but the stop-and-wait link it
implements: each connection event carries a packet of the central and perhaps
the peripheral's answer, either may be lost or fail its CRC, and what is
unacknowledged goes out again. `onAir` holds what the other end has not heard.
One step, `ConnectionEvent(heard, answered)`, runs both ends' TIMER0 handlers
(due updates, supervision, counter) and the exchange; the PDUs heard are
processed by steps of their own at the end of the event, as the code defers them.
What an answer acknowledges follows the code (`Acknowledges`): the packet it was
built for. A CRC error at a peripheral that has not transmitted yet makes it stage
an empty PDU that acknowledges nothing, which both ends then repeat (`frozen`,
item 1 below).

`Complete` and `Advance` are `controller_central_auto_ctrl_complete` and
`_advance` with their calls of each other folded into the stage they end in.
The application's `ble_gap_initiate_conn_update` is three steps, `CallTests`,
`CallQueues`, `CallMarks`, between which handlers may preempt it; the same
function called by a handler (a parameter request of the peripheral) is one
step. Parameters are opaque. Two ends on different PHYs do not hear each other.
Two ends with different connection parameters may or may not: a difference in
latency or timeout alone keeps no packet from being heard, and with different
intervals the peripheral's window, which stays open until something comes,
re-anchors it on what it hears (`ble_controller_peripheral.c:481-500`). A packet
with a CRC error starts supervision without counting as seen. Supervision counts
intervals up to `MissLimit`, where the code multiplies by the interval's length
and compares with the timeout. The two ends' clocks advance together, so that
their counters agree while both are up: the code's window widening by 5 ms makes
that so while the intervals are the same, and while they differ it is an
approximation.

### AttExchange, Discovery and AttCall: client and server over ATT

The GATT client at the central, the server at the peripheral, and between them
a link that delivers in order: each end's L2CAP queue (`queue`) and the one PDU
it has staged and the other not processed (`air`). DataChannel shows that the
link does deliver in order, once. `Processes` is
`ble_l2cap_process_conn_data_pdu` with the handler of the PDU's opcode and the
answer it queues, all of it one step of the RADIO handler; an answer that finds
the queue full is gone (`lost`).

A call of the application is split where a handler can come between: for the
client into its tests, the recording of the procedure, the queueing of the
request (or the forgetting of the procedure) and, for a CCCD write, the second
recording; for an indication into its tests, the queueing and the mark. `pc` and
`todo` hold where each context's call is. Write commands and notifications test
and queue in one step, so a notification that a handler's write to the CCCD
overtakes between the two is left out.

`READ` stands for the MTU exchange and the read, which have one request and one
response of their own. A write to a value, a subscription and its end are
separate requests: the server keeps the CCCD (`subscribed`), without which it
neither notifies nor indicates. Whether the server refuses a read or a write is
left open.

Discovery is the pure part of the four discoveries. `Table` is the server's
attribute table as `ble_gatt_server_init` builds it, the fixed GAP and GATT
services first; of an attribute it keeps its part in its service and the length
of its UUIDs. `Response(ask, first)` is what the server's four handlers put into
a response: attributes of the kind asked for, in the range asked for
(`AllWanted`), of the same length as the first of them (`Alike`), as many as
`Mtu` has room for (`Fitting`); a service with the end of its group
(`ServiceEnd`). If there is none, the server answers with an error. The client's
loop is in AttExchange (`ClientDiscovers`): report, then complete or ask for what
comes after the last entry. `Reported(ask, entries)` says that a discovery has
reported all that its range holds. Sets of handles stand for the server's scan of
its table, which is in the order of the handles, so that the proofs can speak of
them; `Nth` takes them in that order. `TableAssumption` is the limit that the
table's array sets (`ble_gatt_server.c:159`).

MCAttExchange defines the tables of the runs, an application's service of 16 and
one of 128 bits, in both orders.

AttCall says what a client may expect of ATT: one remote call at a time, answered
once by a result of its kind or an error, or dropped. The mapping reads the
requests and the responses under way off the queues and the air.

### Scanning: windows, reports, and the connection they lead to

A central, its two scan timers, RADIO, and the application's callbacks and main
loop. RADIO handlers are one step; so are the timer handlers, which run with the
radio off, under `irq_lock`, or before the window's first packet. `phase` is
`scan_radio_phase`, `air` what the radio really does, and the END and DISABLED
events are variables where the code reads them back: `endEvt` is what the window
timeout looks at, `disabledEvt` what `radio_disable` polls for. `Receptions` are
CRCOK and CRCERROR of what somebody transmits, `Completions` the DISABLED
interrupts (`HandleScanDisabled` by phase, which goes on to SCAN_REQ, SCAN_RSP or
CONNECT_REQ, or ends the window).

`ble_gap_set_scan_filter`, `ble_gap_clear_scan_filter`, `ble_gap_start_scanning`,
`ble_gap_connect` (filter, then start), `ble_gap_stop_scanning` and
`ble_gap_disconnect` are split as in PeripheralLifecycle, and `Apps` are sets of
habits. Of a packet the model keeps its sender, its type, and whether its data
meet the filter's name and UUIDs. A link is there until it is lost. `news` counts
the events of each kind that wait in the queue, up to `QueueSize`; the order in
which they are dispatched is left open. The history variable `doubled` says that
a link was lost once `ble_gap_disconnect` had found it and before it cleared it,
so that its DISCONNECTED is posted twice.

## Runs

All runs pass except those marked *violation*, whose single property is a
statement of the repository that the code does not keep (see below).

| run | instance | shows |
|---|---|---|
| `safety` | L2CAP queue of 2 that fills at the peripheral, two chained procedures of the central, every fault | `InOrderExactlyOnce`, `L2capFifo`, `SelectionStillPending`, `ResponseSlotFree`, the invariant `IInv` of the proofs, `ImplementsReliableLink` |
| `live` | queue of 1 that fills, one procedure, loss and CRC errors after the first packet | `L2capDelivered`, `AnswerCarriesCurrentNesn` |
| `opening` | CRC errors on the first packet only | *violation* of `L2capDelivered` |
| `evt` | ring of 3, two events, four contexts | `TypeOK`, `NoLostWakeup`, `ImplementsQueue`, `AcceptedDispatched` |
| `life` | two applications, one that acts in callbacks and one that calls anything at any time; link lost after 3 intervals | `TypeOK`, `LinkDriven`, `AppKnowsLink`, `AdvertisingConnectable`, `LinkTimed`, `NoGhostLink`, `AdvertisingResumes`, `SilenceEndsSupervisedLink` |
| `life_spin` | `ble_gap_disconnect` in the main loop | *violation* of `DisconnectReturns` |
| `llcontrol` | chain, one update by the central, one asked for by the peripheral | `TypeOK`, `ChainInStep`, `ChainComplete`, `RequestUnderWay`, `ParametersAgree`, `ProceduresEnd`, `PhyDisagreementEnds` |
| `att` | two procedures, two values, two write commands, queues of 2, a table of two services | `TypeOK`, `ProcedureUnderWay`, `IndicationGate`, `DiscoveryFaithful`, `ImplementsCall`, `ProceduresEnd` |
| `att_callers` | calls from the main loop and from a callback | *violation* of `IndicationsOneAtATime` |
| `att_mixed` | one discovery, the service of 128 bits between services of 16 | *violation* of `AllServicesDiscovered` |
| `scan` | four applications, two advertisers, a busy channel | `TypeOK`, `PhaseInStep`, `ScanTimed`, `LinkReached`, `CandidateCurrent`, `ResponseFollowsReport`, `ScanGoesOn` |
| `scan_timeout` | one advertiser that may fall silent | *violation* of `ScanRspOrTimeout` |

### Bounds

- Data channel: the sequence state is four bits, and every event returns to one
  of a handful of configurations; one payload more of the peripheral than its
  queue holds, and in `live` one of the central (`QueueFills`), reach full, empty,
  refusal, overtaking by control PDUs and each way a PDU can be outstanding. The
  second procedure of `safety` is what may find the response slot taken by the
  answer to the first. The proofs cover every depth and every length of run.
- Dispatch: a ring of three has full (two events), wrap-around and empty; the
  indices wrap at different times. Two events tell an order from its reverse,
  and the ring never looks at them. The proofs cover every size.
- Lifecycle: `MissLimit` 2 or 3 gives a missed interval that recovers and one
  that does not; a queue of four holds what one link can post with a callback
  outstanding. `Overrun = FALSE` states the assumption under which the queue
  never fills: callbacks return before the events of one more interrupt and of
  the call it interrupted would overflow it.
- LL control: an instant one event ahead and a limit of two missed intervals
  make the announcement arrive in time, late and never; the counter wraps at
  four, which the run passes many times. At most one handler preempts the
  application's call (`MaxPreempt`), which takes a few microseconds, while the
  RADIO interrupt that ends an event is at least 150 us after the TIMER0
  interrupt that begins it; see below for what happens otherwise.
- ATT: queues of two fill with a write command and a request, or a notification
  and an indication, so that calls are refused and answers dropped; two
  procedures show what the first leaves to the second, two values an indication
  behind another. With `Mtu = 23`, the default, the services of the table need
  two responses and all its characteristics three, so that a discovery goes
  round its loop, changes from one length to the other, and ends by completing
  its range or by an error. Calls come from one context
  (`Callers`) and are preempted by one handler (`MaxPreempt`); `att_callers` and
  items 14 and 15 below are what happens otherwise.
- Scanning: two advertisers are the one that was asked and another; the four
  applications hold, between them, every habit. A queue of two holds two
  DISCONNECTED of one link, and fills, as nothing relies on it not to. An
  application that ends a scan or a link in the main loop, or scans with a link
  or with a CONNECT_REQ on its way, is promised less, as the properties' premises
  say. The proofs cover every set of advertisers and of applications, and every
  size of the queue.

### Fairness

- Interrupts that are due are taken: weak fairness of each handler, since
  nothing masks TIMER0 or RADIO for longer than an `irq_lock` section.
- A link that keeps trying is heard: strong fairness of the reception of an
  intact packet, in each direction (`live`). In `llcontrol` it is assumed that a
  central which hears its peer again and again is also heard at last, since an
  answer shows that something of its packet arrives; a central that hears nothing
  any more is promised nothing, and supervision ends its link. That it is heard
  does not mean that it is acknowledged: after item 1 below it never is, and
  `ProceduresEnd` excepts just that (`frozen`).
- The software interrupt and the posts it is preempted by: strong fairness,
  since a context is repeatedly but not continuously free; interrupts arrive at
  a finite rate, so a less urgent context runs again and again.
- ATT's link transmits what is queued and processes what arrives: weak fairness
  of `Transmits` and `Processes`, which is DataChannel's `L2capDelivered`.
- Scanning's timers, completions, callbacks and calls begun: weak fairness, since
  each stays due until it is served. Of advertisers nothing is assumed, except in
  `scan` (`BusySpec`) that a reception of a scan response that goes on and on is
  ended by some packet; `scan_timeout` is what happens without it.
- The advertising loop goes on (`AdvLoop`) when it does not wait for an event of
  the radio; the waits themselves are promised nothing.
- The main loop is promised nothing: no property relies on the application
  calling anything, except that a call once begun goes on and callbacks return.

Deadlock is not checked where the system may stop: when both ends are
disconnected (`safety`, `llcontrol` and the `att` runs), when a call or the
advertising loop spins in `radio_disable` (the lifecycle runs, and the scanning run
whose application hangs up or stops scanning), and when a central that does not scan again has stopped.

## Proofs

TLAPS checks the following for every value of the constants: every queue depth,
ring size, set of faults, of advertisers and of applications, and runs of any
length.

| module | theorem | property |
|---|---|---|
| DataChannelProofs | `TypeCorrect`, `SelectionCorrect` | `TypeOK`, `SelectionStillPending` |
| DataChannelOrderProofs | `InOrder`, `Inductive` | `InOrderExactlyOnce`, `IInv` |
| DataChannelLinkProofs | `Implementation`, `SlotIsFree`, `PayloadsInOrder` | `ImplementsReliableLink`, `ResponseSlotFree`, `L2capFifo` |
| | `AnswersAreCurrent` (for `"crcOpening" \notin Faults`) | `AnswerCarriesCurrentNesn` |
| EvtDispatchProofs | `TypeCorrect`, `WakeupKept`, `Implementation` | `TypeOK`, `NoLostWakeup`, `ImplementsQueue` |
| PeripheralLifecycleProofs | `TypeCorrect`, `TimerKept`, `LinkIsDriven`, `Connectable` | `TypeOK`, `LinkTimed`, `LinkDriven`, `AdvertisingConnectable` |
| | `NoGhost`, `AppKnows` (both for `~Overrun`) | `NoGhostLink`, `AppKnowsLink` |
| LLControlProofs | `TypeCorrect`, `ChainKept`, `ChainRunsThrough`, `OneRequest` | `TypeOK`, `ChainInStep`, `ChainComplete`, `RequestUnderWay` |
| | `EndsAgree` (for `MaxPreempt <= 1`) | `ParametersAgree` |
| AttExchangeProofs | `TypeCorrect` | `TypeOK` |
| | `ProcedureUnderWayHolds`, `IndicationGateHolds` (both for `SingleCaller` and `MaxPreempt <= 1`) | `ProcedureUnderWay`, `IndicationGate` |
| | `CallImplemented`, `DiscoveryIsFaithful` (both for `SingleCaller`) | `ImplementsCall`, `DiscoveryFaithful` |
| ScanningProofs | `TypeCorrect`, `ScanIsTimed`, `CandidateKept`, `ResponseOrder`, `PhaseKept`, `LinkIsReached` | `TypeOK`, `ScanTimed`, `CandidateCurrent`, `ResponseFollowsReport`, `PhaseInStep`, `LinkReached` |

Assumptions are those the modules name: the two ends differ, depths, sizes and
bounds are natural numbers (positive where the code has at least one place),
and requests and faults come from their sets.

**Data channel.** `TypeInv` is the type invariant with `SelectionInv`: the
source chosen at BCMATCH still holds what was loaded from it. Types depend on
it because CRCOK takes the head of the L2CAP queue without looking, and would
fall off an empty one. Order needs much more, since one wrong bit at one end
shows as a lost or repeated PDU only several events later. `IInv`
(DataChannelInv) adds five parts:

- `SequenceInv`: the two ends' bits fit, also while an acknowledgement is lost;
- `AirInv`: what is on the air is the sender's last, unacknowledged PDU;
- `PendingInv`: an accepted PDU waits only until its event ends;
- `PrestageInv`: what BCMATCH decided is what the header says;
- `TransferInv`: where the one PDU is that was sent and not yet processed.

There is one lemma per handler (`CentralStartKeeps`, ...), each with one step
per part the handler can disturb, and `NextIInv` puts them together. The
refinement then needs no new invariant: `SendStep` and `ReceiveStep` show that
a step that extends `sent` or `rcvd` is a step of ReliableLink, `FreeToSend`
that an end stages a new PDU only when its last one has been processed.

Three more properties rest on `IInv` with an invariant each:

- `NesnInv`: what the peripheral sent last acknowledges all it has accepted, and
  a PDU it is going to accept acknowledges that. The central builds a new PDU
  only once its last one is acknowledged, so after it has heard the peripheral's
  (`HeardInv`), and so acknowledges it; the peripheral therefore answers every
  PDU it accepts with a new one, built with the current NESN. Item 1 below is the
  one way around this, and the premise of `AnswersAreCurrent` excludes it.
- `SlotInv`: while the central owes a response, or is about to, nothing it has
  sent acknowledges the peripheral's last PDU, so that no other can arrive; a
  peripheral that owes one sends it in answer to the next PDU it accepts. This
  holds under every fault, the opening's included.
- `FifoInv`: the payloads an end has put into transmission are the first ones
  accepted and its queue holds the others in order. `L2capFifo` follows since
  what the peer has processed is a prefix of what was put into transmission.

Most handlers move no bit and stage nothing (`Calm`); the others have a lemma
each.

**Dispatch.** `NoLostWakeup` is inductive given the types. For the refinement,
`Counting` gives the length of the sequence read off the ring, and
`PostAppends` and `TakeTakesHead` show what one post and one take do to it,
wrap-around included.

**Lifecycle.** `ble_gap_disconnect` clears the link and stops its timer in two
steps, between which, and after which, the advertising handler may make another
link. `EndingInv` says that as long as that has not happened (`~overtaken`) a call
that has cleared the link, or sampled none, finds none until it returns, so that
it stops no timer but that of the link it ended; `LinkTimed` follows, with
`LevelInv`, which says that callbacks and the advertising handler do not preempt
each other. An application that acts in its
callbacks never overtakes, which is part of its invariant `ModeInv`. What the
application is told needs more: the last of CONNECTED and DISCONNECTED among what
it knows and what waits in the queue (`LastTold`) must be DISCONNECTED when there
is no link, unless a call of `ble_gap_disconnect` has cleared the link and not
notified yet (`GoneInv`). For an application that acts in its callbacks, `ModeInv`
divides the radio between link and advertising, and the remaining properties
follow from it and `KnownInv`. `NoGhost` and `AppKnows` assume that callbacks
return before the queue fills (`~Overrun`).

**LL control.** The types need `DataInv`: a PDU carries what its opcode says, and
a link that is up has missed fewer intervals than its limit. `ChainKept` adds
`ProcInv`, what a procedure of each kind waits for. A request and its response
then travel through six places, from the central's control slot over the air and
the peripheral's reception to the response slot and back. `WayInv` says that at
most one place is taken (`OnePlaceInv`), that what is there belongs to the
procedure in progress (`MatchInv`) and that, while a response is awaited between
two live ends, some place is (`UnderWayInv`); `SlotInv` keeps everything else out
of these places. A packet leaves the air when it is heard, not when it is
acknowledged, so that what both ends go on repeating after item 1 is nothing new;
`UnderWayInv` says so. There is one lemma per step, as above, and `OneRequest`
counts.

For `EndsAgree`, `AgreeInv` follows the announcement of an update on the same
way: while both ends are up and no announcement was late, it is in one of three
places at most (queued, on the air, received), it is the update the central is
going to make and the peripheral has none pending; if it is in none, both ends
have the same update pending, or none (`ConnInv`, `PhyInv`). The update an
application announces is one the central is going to make before it has marked
it so (`Coming`); `CallInv` says what a call between its steps can rely on. That
needs `MaxPreempt <= 1`, for the reason in item 11. Since both ends count the same
events and miss the same instants, they change over in the same one.

**GATT.** The types need `RangeInv` (the client's range and the requests that
carry it stay within the handles) and, beneath them, that a table is a sequence
and a response holds entries of it: `FlattenType` and `NthType`, which are shown
by a least counterexample, with `WFMin` and `NatLessThanWellFounded`, since the
induction theorems of the library take an operator. Everything else rests on
where PDUs are: `Places(q, a, ops)` is the set of places of PDUs of `ops` on the
air `a` (place 0) and in the queue `q`, and a few lemmas say what a queueing, a
transmission and a reception do to it (`Moved`, `Appended`, `FirstQueued`).

- `QuietInv`: without a link nothing is under way and no call is past its tests.
- `CallInv`: of requests and responses together one is under way at most
  (`OneCall`), it belongs to the procedure in progress (`FitInv`), none is while a
  response has been dropped (`LostInv`), and while a call is between its steps
  none is yet that it is about to queue (`StepInv`).
- `BusyInv`: a client whose call has returned is busy only if a request or a
  response is under way, or has been dropped.
- `GateInv`, `ClosedInv`: the same for indications and confirmations, and their
  gate at the server.

`CallInv` is not inductive unless calls do not interleave with each other, hence
`SingleCaller`: one context calls at each end. Items 5 and 15 below are what happens
otherwise. `BusyInv` and `ClosedInv` need `MaxPreempt <= 1`: a handler comes between
the steps of a call at most once, for the reason in item 14. Most steps leave all of
this alone (`CallKept`, `GateKept`); the others have a lemma each, and `NextSteps`
maps each to a step of AttCall, which needs only `CallInv`.

`DiscoveryFaithful` holds for every table and MTU. `DiscoverInv` relates what a
discovery has reported to the range that is left: what it reported is wanted and
in order (`FoundInv`), lies before the range, and is all there is before it if
entries of one length lie together (`SearchInv`); the request under way asks for
that range, and the response holds the first entries in it, or is an error
because there are none (`PathInv`, which needs `CallInv`: a response left over
from an earlier request would be reported under the wrong range).
`ResponseSearches` says of the server's handlers that a response passes over
nothing from its first entry to the end of its last, for which `NthOrder` and
`ServiceEndLast` are needed; `SearchExtends` joins it to what was found before.

**Scanning.** `CandidateCurrent` is nearly inductive. For `ResponseFollowsReport`,
`ResponseInv` ties the advertiser that was asked, from the report of its
advertisement to the end of the reception of its response, to the last report.
`RadioInv` keeps phase and radio in step (`InStep`) for an application that ends
scans and links in callbacks, except while `ble_gap_stop_scanning` has reset the
one and not yet stopped the other (`Draining`); `LinkInv` adds, for an
application that starts scans without a link, that no such start is under way
when a CONNECT_REQ is. It rests on a chain: a link, a call that ends it, its
DISCONNECTED and the start of a scan follow each other. A second DISCONNECTED of
the same link breaks the chain, hence `~doubled` (item 13). `Posting` and `Taking`
say what the queue's counts do.

For `ScanIsTimed`, `WindowInv` says that a radio that listens in a window has the
window's timer, running or about to be started, and a window that it will find
open when it fires, unless a call is about to silence the radio or to open the
window again (`Restarting`: a window that was reset under a scan belongs to a
start still to come). `TimerInv` says that a scan loses its interval timer only
under a `ble_gap_disconnect` on its way to end it (`AtHangup`), and `CommitInv`
that from the decision to connect on no timer runs.

**Only model-checked:** every liveness property (`L2capDelivered`,
`AcceptedDispatched`, `AdvertisingResumes`, `SilenceEndsSupervisedLink`,
`ProceduresEnd`, `PhyDisagreementEnds`, `ScanGoesOn`), liveness being out of the
prover's reach.

## What the model found

Confirmed by a run of its own:

1. **Livelock of acknowledgements** (`opening`). A retransmitted PDU carries the
   header it was first built with, NESN included (`ble_controller_common.c:660`).
   If the very first packet a peripheral hears fails its CRC, it answers with an
   empty PDU that acknowledges nothing; both ends then repeat PDUs with frozen
   NESNs and neither ever acknowledges the other. Supervision does not help:
   every packet is heard. The first procedure of the chain then waits for its
   response for ever, which `ProceduresEnd` in `llcontrol` excepts (`frozen`). From any other state the situation cannot arise, as
   `live` shows and `AnswersAreCurrent` proves (`AnswerCarriesCurrentNesn`).
2. **`ble_gap_disconnect` may not return** (`life_spin`). It polls
   `EVENTS_DISABLED` before it masks RADIO, whose handler clears that event. The
   advertising loop polls the same event when the connection was made on one of
   its earlier channels, and `EVENTS_READY` against TIMER0; stuck there it holds
   the priority of the callbacks, so that a DISCONNECTED that follows is never
   dispatched. `AdvertisingResumes` excepts this (`Stuck`).
3. **A service that is never discovered** (`att_mixed`).
   `att_handle_read_by_group_type` passes over a service whose UUID has another
   length than the first and goes on (`ble_gatt_server.c:398`), where the response
   should end; the client continues after the last service it was given. A
   service of 128 bits between services of 16 bits is skipped, and the discovery
   reports completion. The same holds of characteristics and descriptors.
4. **A scan that stops at a SCAN_REQ nobody answers** (`scan_timeout`). The END
   event of the SCAN_REQ stays set, the window timeout takes it for a completion
   about to be handled and does nothing (`ble_controller_central.c:1017`), and its
   timer is single shot. On a channel where no packet ends the reception the
   central listens for ever.
5. **Two indications at a time** (`att_callers`). The gate is tested, the
   indication queued and the gate closed in three steps without a lock: a callback
   that indicates while the main loop is between them queues a second one before
   the first is confirmed, which `src/BLE_STACK_FLOWCHARTS.md:356` rules out.

Found with other constants of the same configurations, and not part of the runs.
Each can be reproduced by changing the constant, or dropping the premise, that is
named. Item 6 is a disagreement with the documents too, and visible without a run
in the premise it needs; of the others no statement of the repository speaks.

6. **A link without a first packet never ends**: `SilenceEndsSupervisedLink` in
   `life` without its `started`. `src/BLE_STACK_FLOWCHARTS.md:286` gives every
   connection the exit "Supervision timeout", but supervision starts with the first
   packet (`ble_controller_common.c:721`, `ble_controller_peripheral.c:520`): a
   central that vanishes after its CONNECT_REQ leaves the peripheral connected, and
   off the air, for ever. The same holds for a central that never hears its
   peripheral, which is why `ProceduresEnd` asks for a central that has heard its
   peer.
7. `AdvertisingConnectable` without its premise `ActsInCallbacks` in `life`: the
   tail of a main-loop `ble_gap_disconnect` masks RADIO after a callback has
   restarted advertising, which then transmits but cannot be connected to. This
   happens too when the call found no link.
8. `LinkDriven` and `AppKnowsLink` without that premise:
   `ble_gap_start_advertising` called while advertising tests the link, is
   interrupted by the connection, and reprograms the radio of a live link.
9. `LinkTimed` and `NoGhostLink` without their premise `~overtaken`: an
   application that advertises and hangs up in the main loop. While its
   `ble_gap_disconnect` is between clearing the link
   (`ble_controller_common.c:467`) and its end, the advertising handler, whose
   timer was left running, makes another link. Before line 482 the call then stops
   the new link's timer, so that it neither runs nor is supervised; after it, the
   call masks RADIO under the new link. Made between the sample
   (line 459) and line 467, the new link is cleared again, without a DISCONNECTED
   if none was sampled, and the application believes in it for ever.
10. `Overrun = TRUE` with `QueueSize = 3`: a dropped DISCONNECTED leaves the
    application with a link that is gone (`AppKnowsLink`).
11. `MaxPreempt = 2` in `llcontrol`, with `InstantOffset = 3`, `CounterMod = 6`:
    a connection event and the processing of a parameter request both come
    between the queueing and the marking of `ble_gap_initiate_conn_update`; the
    request's update is announced, then overwritten by the call's, and the ends
    change over to different parameters (`ParametersAgree`). It takes a main-loop
    call held up for some 200 us by the software interrupts between two adjacent
    statements.
12. An update of connection parameters that is heard too late leaves the ends with
    different ones. Nothing detects it: where they still hear each other, as with
    a different latency or timeout, they go on like that (`ParametersAgree`
    without its premise `~late`). Only a different PHY ends the link
    (`PhyDisagreementEnds`).
13. The premise `~doubled` in `scan`. A handler that drops the link between a
    call's sample of `was_connected` and its clearing makes DISCONNECTED posted
    twice. An application that only records the state learns what it knows, and a
    peripheral that advertises again finds it advertising. But one that scans
    again on each, as central_demo does, may by the second one start a scan while
    the CONNECT_REQ of the first is on its way (`m_link.connected` is still FALSE,
    `ble_controller_central.c:1067`): the link is made with the interval timer of
    a scan running, or on a radio set up for scanning (`ScanTimed`,
    `LinkReached`).
14. `MaxPreempt = 2` in `att`: `ble_gatt_client_write_cccd` renames the procedure
    after its write has been queued (`ble_gatt_client.c:742`). If the response has
    been processed by then, the rename makes an idle client busy for ever
    (`ProcedureUnderWay`). An indication confirmed before it is marked closes the
    gate for ever in the same way (`IndicationGate`). It takes a call held up
    between two statements for a connection event or two.
15. `Callers = {"main", "callback"}` there: as in 5, a callback that preempts the
    main loop between the test of `ble_gatt_client_is_busy` and the record starts a
    second procedure (`ProcedureUnderWay`).
16. The two exemptions of the `att` properties: an ATT response dropped because
    the server's L2CAP queue is full (`ble_l2cap.c:126`) leaves the client busy
    until the link ends, since there is no ATT timeout (`lost`); and a discovery
    whose next request finds the client's queue full reports that it is complete
    (`cut`, `ble_gatt_client.c:243`).
17. The other premises of the `scan` properties. Without `EndsInCallbacks`, a
    main-loop `ble_gap_stop_scanning` or `ble_gap_disconnect` is preempted, after
    its radio has been silenced or before, by a callback that scans again: the
    call's tail then masks RADIO under a phase that waits for it. Without
    `StartsUnlinked`, a scan started from a report's callback while a CONNECT_REQ
    is on its way does what item 13 says of a second restart.
18. The habit `hangupUnlinked`: `ble_gap_disconnect` called without a link stops
    the radio in the middle of a CONNECT_REQ, whose DISABLED interrupt then makes
    a link that the peer has not heard of; with `radio_disable` below RADIO's
    priority it may also not return, as in 2.
19. A central whose CONNECT_REQ is not heard stays connected: supervision starts
    with the first packet of the peer, as in 6.

Two pieces of code turned out to do nothing: `connect_target_valid` is written
and never read, and the fall-through of
`controller_central_auto_ctrl_advance` to a later stage when a request cannot be
queued is unreachable (`ble_controller_central.c:242-258`): `ChainInStep` holds,
so the control slot is free whenever the chain advances.

## What is not modelled

- Connection timing and channel selection: anchor arithmetic, re-anchoring by PPI
  capture, hop sequence and channel map remapping. They are arithmetic on one
  end's variables inside single handlers, which a unit test reaches; that the two
  ends meet on a channel and in time is assumed.
- LL_CHANNEL_MAP_IND, which this stack's central never sends and only another
  central could; LL_VERSION_IND; malformed or short LL control PDUs; the values
  negotiated by the feature and data length procedures.
- The clearing of `m_link.role`, which follows that of `m_link.connected` in
  `controller_disconnect_internal`: it concerns only a link made between the two,
  as in item 9, which is excepted.
- Permissions and error codes of the GATT server, the MTU that client and server
  agree on, and the values written and read; L2CAP signaling beyond the parameter
  update request.
- AD builders, UUID conversions, option validation: sequential data handling
  that unit tests reach.
- Register-level radio, clock, PPI and NVIC set-up, and the nRF5 SDK: outside the
  stack or straight-line code. The NVIC's taking of a pending interrupt and the
  radio channel are the external definitions.
- The examples: what they call, and from where, are the applications of the
  lifecycle and scanning runs (`restart`). Most of the repository's lines, 35,670
  of 45,723, are the `sdk_config.h` that each example carries, generated
  configuration of the SDK with no behaviour of its own.

## Plan

In order of importance; all but the last are done.

1. DataChannel, ReliableLink: the link's core, with its proofs.
2. EvtDispatch, EvtQueue: everything the application learns, with proofs.
3. PeripheralLifecycle: the preemptible life of a link, with proofs.
4. LLControl over the abstract link, with proofs.
5. AttExchange, AttCall: GATT client and server over a link that delivers, with
   proofs.
6. Discovery: the discovery loops of the client against the server's table, with
   proofs.
7. Scanning: windows, intervals, SCAN_REQ, CONNECT_REQ, and the calls that
   interfere, with proofs.
8. Timing: left out, for the reason given under
   [What is not modelled](#what-is-not-modelled).

Composition: DataChannel implements ReliableLink, over which LLControl and
AttExchange are built; AttExchange extends Discovery and implements AttCall;
PeripheralLifecycle posts into the queue that EvtDispatch implements.
