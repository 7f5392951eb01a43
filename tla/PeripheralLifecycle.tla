------------------------- MODULE PeripheralLifecycle -------------------------
(***************************************************************************)
(* The life of a peripheral: advertising, connecting, keeping the link     *)
(* under supervision, losing it, and advertising again.                    *)
(*                                                                         *)
(* Four contexts share the state without a common lock.  TIMER0 preempts   *)
(* RADIO, RADIO preempts the software interrupts, and these preempt the    *)
(* main loop; the deferred event handler and the app_timer handlers have   *)
(* one priority and do not preempt each other.  RADIO and TIMER0 handlers  *)
(* are one step each: RADIO is preempted by TIMER0 only, whose next        *)
(* interrupt is an event interval away when RADIO changes the link.        *)
(* ble_gap_start_advertising and ble_gap_disconnect, called from the main  *)
(* loop or from an application callback, are split where a more urgent     *)
(* context can come between a test and its use.                            *)
(*                                                                         *)
(* The behaviour starts after ble_stack_init, ble_gap_adv_init and the     *)
(* application's first ble_gap_start_advertising.  Expired app_timers and  *)
(* stopped ones take effect at once.                                       *)
(***************************************************************************)
EXTENDS Integers, Sequences

CONSTANTS
    Apps,       \* what the application may do: a set of sets of AppHabits
    MissLimit,  \* intervals without a packet that end a supervised link
    QueueSize,  \* events the deferred queue holds (BLE_EVT_QUEUE_SIZE - 1)
    Overrun     \* may callbacks take so long that the queue overflows?

\* restart: advertise again from the callback of BLE_GAP_EVT_DISCONNECTED, as
\*   the examples do; advertise: call ble_gap_start_advertising in the main
\*   loop at any time; hangup: call ble_gap_disconnect in the main loop after
\*   ble_gap_is_connected said TRUE; hangupInCallback: the same in a callback.
AppHabits == {"restart", "advertise", "hangup", "hangupInCallback"}

ASSUME AppAssumption == Apps \subseteq SUBSET AppHabits
ASSUME BoundAssumption ==
    MissLimit \in Nat \ {0} /\ QueueSize \in Nat \ {0} /\ Overrun \in BOOLEAN

VARIABLES
    app,            \* the habits of this application
    connected,      \* m_link.connected
    started,        \* m_link.supervision.started
    missed,         \* m_link.supervision.missed_interval_count
    rxSeen,         \* m_link.supervision.rx_seen_this_interval
    connTimer,      \* TIMER0's compare interrupt is armed
    advTimer,       \* m_adv_timer_id runs
    paramTimer,     \* m_conn_param_update_timer_id runs
    mask,           \* the RADIO interrupt mask: "off", "adv", "conn"
    config,         \* access address and CRC in the radio: "adv", "conn"
    air,            \* what the radio is doing
    disabledEvt,    \* EVENTS_DISABLED, while a radio_disable waits for it
    advPhase,       \* m_ctrl_rt.peripheral.adv_radio_phase
    scanRspPending, \* m_ctrl_rt.peripheral.scan_rsp_tx_pending
    connectPending, \* m_ctrl_rt.peripheral.connect_req_pending
    advChannel,     \* advertising channels left in the advertising event
    advPc,          \* where the advertising timer handler is
    pc,             \* where the main loop and the event handler are
    was,            \* per context, was_connected of disconnect_internal
    queue,          \* deferred GAP events
    told,           \* the last of CONNECTED and DISCONNECTED given to the app
    overtaken       \* history: a link was made inside a ble_gap_disconnect

linkVars == <<connected, started, missed, rxSeen>>
timerVars == <<connTimer, advTimer, paramTimer>>
radioVars == <<mask, config, air, disabledEvt>>
advVars == <<advPhase, scanRspPending, connectPending>>
handlerVars == <<advChannel, advPc>>
callVars == <<pc, was>>
evtVars == <<queue, told>>
vars == <<app, linkVars, timerVars, radioVars, advVars, handlerVars, callVars,
          evtVars, overtaken>>

Contexts == {"main", "swi"}
Events == {"connected", "disconnected", "supervision", "terminate", "other"}
AirStates == {"off", "advTx", "advRx", "advEnd", "rspTx", "connRx"}
CallSites == {"idle", "callback", "asked", "arm", "hangup", "unlink", "untime",
              "silence", "spin", "notify"}
AdvSites == {"idle", "send", "spin", "ready", "stalled", "wait"}

TypeOK ==
    /\ app \in Apps
    /\ connected \in BOOLEAN /\ started \in BOOLEAN /\ rxSeen \in BOOLEAN
    /\ missed \in 0 .. MissLimit
    /\ connTimer \in BOOLEAN /\ advTimer \in BOOLEAN /\ paramTimer \in BOOLEAN
    /\ mask \in {"off", "adv", "conn"}
    /\ config \in {"adv", "conn"}
    /\ air \in AirStates
    /\ disabledEvt \in BOOLEAN
    /\ advPhase \in {"idle", "waitTx", "waitRx", "waitRsp"}
    /\ scanRspPending \in BOOLEAN /\ connectPending \in BOOLEAN
    /\ advChannel \in 0 .. 3
    /\ advPc \in AdvSites
    /\ pc \in [Contexts -> CallSites]
    /\ was \in [Contexts -> BOOLEAN]
    /\ queue \in Seq(Events) /\ Len(queue) <= QueueSize
    /\ told \in {"connected", "disconnected"}
    /\ overtaken \in BOOLEAN

Init ==
    /\ app \in Apps
    /\ connected = FALSE /\ started = FALSE /\ missed = 0 /\ rxSeen = FALSE
    /\ connTimer = FALSE /\ advTimer = TRUE /\ paramTimer = FALSE
    /\ mask = "adv" /\ config = "adv" /\ air = "off" /\ disabledEvt = FALSE
    /\ advPhase = "idle" /\ scanRspPending = FALSE /\ connectPending = FALSE
    /\ advChannel = 0 /\ advPc = "idle"
    /\ pc = [c \in Contexts |-> "idle"]
    /\ was = [c \in Contexts |-> FALSE]
    /\ queue = <<>> /\ told = "disconnected" /\ overtaken = FALSE

-----------------------------------------------------------------------------
(***************************************************************************)
(* Pieces shared by the handlers.                                          *)
(***************************************************************************)

\* The software interrupts' priority level is free.
LevelFree == pc["swi"] = "idle" /\ advPc = "idle"

\* c is not preempted by a context of this module.
Runs(c) == c = "main" => LevelFree

\* Without overruns the callbacks return while the queue has room for what
\* one interrupt posts and for the call it may have interrupted.
Keeps(n) == Overrun \/ Len(queue) + n < QueueSize

\* ble_evt_notify_gap for each event of evts in turn; its callers ignore what
\* it returns when the queue is full.
Posted(q, e) == IF Len(q) < QueueSize THEN Append(q, e) ELSE q

Post(e) == queue' = Posted(queue, e)

PostTwo(e, f) == queue' = Posted(Posted(queue, e), f)

ResetAdvState ==
    /\ advPhase' = "idle"
    /\ scanRspPending' = FALSE
    /\ connectPending' = FALSE

\* controller_disconnect_internal run without interruption on a live link,
\* the DISCONNECTED event apart.
DropLink ==
    /\ connected' = FALSE
    /\ connTimer' = FALSE
    /\ air' = "off"
    /\ mask' = "off"
    /\ disabledEvt' = FALSE
    /\ ResetAdvState
    /\ UNCHANGED <<started, missed, rxSeen, advTimer, paramTimer, config>>

-----------------------------------------------------------------------------
(***************************************************************************)
(* The advertising timer handler (app_timer).                              *)
(***************************************************************************)

\* The timer expires: three channels to serve, unless connected.
AdvTimerFires ==
    /\ LevelFree
    /\ advTimer
    /\ ~connected
    /\ advChannel' = 3
    /\ advPc' = "send"
    /\ UNCHANGED <<app, linkVars, timerVars, radioVars, advVars, callVars, evtVars, overtaken>>

\* One channel: reset the advertising state and, if the radio is on, disable it
\* (radio_tx_then_rx, radio_set_mode), ...
AdvSilence ==
    /\ advPc = "send"
    /\ air # "off"
    /\ ResetAdvState
    /\ air' = "off"
    /\ disabledEvt' = TRUE
    /\ advPc' = "spin"
    /\ UNCHANGED <<app, linkVars, timerVars, mask, config, advChannel, callVars,
                   evtVars, overtaken>>

\* ... waiting for EVENTS_DISABLED, ...
AdvDisableSeen ==
    /\ advPc = "spin"
    /\ disabledEvt
    /\ disabledEvt' = FALSE
    /\ advPc' = "ready"
    /\ UNCHANGED <<app, linkVars, timerVars, mask, config, air, advVars, advChannel,
                   callVars, evtVars, overtaken>>

\* ... and, once EVENTS_READY is seen, transmit and expect DISABLED.  The loop
\* does not look at m_link.connected again.
AdvSend ==
    /\ advPc = "ready" \/ (advPc = "send" /\ air = "off")
    /\ advPhase' = "waitTx"
    /\ scanRspPending' = FALSE
    /\ connectPending' = FALSE
    /\ air' = "advTx"
    /\ disabledEvt' = FALSE
    /\ advPc' = "wait"
    /\ UNCHANGED <<app, linkVars, timerVars, mask, config, advChannel, callVars,
                   evtVars, overtaken>>

\* Mutant of AdvEndOfChannel: the loop runs once too often.
AdvEndOfChannelFour ==
    /\ advPc = "wait"
    /\ advChannel' = advChannel - 1
    /\ advPc' = IF advChannel = 0 THEN "idle" ELSE "send"
    /\ IF connected
       THEN UNCHANGED <<advVars, air, disabledEvt>>
       ELSE ResetAdvState /\ air' = "off" /\ disabledEvt' = FALSE
    /\ UNCHANGED <<app, linkVars, timerVars, mask, config, callVars, evtVars,
                   overtaken>>

\* The RX window is over: the locked section leaves a connected radio alone.
AdvEndOfChannel ==
    /\ advPc = "wait"
    /\ advChannel' = advChannel - 1
    /\ advPc' = IF advChannel = 1 THEN "idle" ELSE "send"
    /\ IF connected
       THEN UNCHANGED <<advVars, air, disabledEvt>>
       ELSE ResetAdvState /\ air' = "off" /\ disabledEvt' = FALSE
    /\ UNCHANGED <<app, linkVars, timerVars, mask, config, callVars, evtVars,
                   overtaken>>

-----------------------------------------------------------------------------
(***************************************************************************)
(* The RADIO interrupt while advertising.  A masked event happens in the   *)
(* radio and reaches no handler.                                           *)
(***************************************************************************)

Advertises == ~connected /\ mask # "off" /\ advPhase # "idle"

\* DISABLED after the advertising packet; the shorts have started RX.
AdvTxDisabled ==
    /\ air = "advTx"
    /\ air' = "advRx"
    /\ advPhase' = IF Advertises /\ advPhase = "waitTx" THEN "waitRx" ELSE advPhase
    /\ UNCHANGED <<app, linkVars, timerVars, mask, config, disabledEvt,
                   scanRspPending, connectPending, handlerVars, callVars, evtVars, overtaken>>

\* CRCOK: a SCAN_REQ or a CONNECT_REQ that targets us, or CRCERROR and
\* packets for others ("other").
AdvReceives(pdu) ==
    /\ air = "advRx"
    /\ config = "adv"
    /\ air' = "advEnd"
    /\ LET heard == Advertises /\ advPhase = "waitRx"
       IN  /\ scanRspPending' = (scanRspPending \/ (heard /\ pdu = "scanReq"))
           /\ connectPending' = (connectPending \/ (heard /\ pdu = "connectReq"))
    /\ UNCHANGED <<app, linkVars, timerVars, mask, config, disabledEvt, advPhase,
                   handlerVars, callVars, evtVars, overtaken>>

\* Mutant of PrepareLink: the link's timer is left for the first packet.
PrepareLinkUntimed ==
    /\ connected' = TRUE
    /\ started' = FALSE /\ missed' = 0 /\ rxSeen' = FALSE
    /\ connTimer' = FALSE
    /\ mask' = "conn" /\ config' = "conn"

\* controller_prepare_connected_link and controller_connected_timer_start.
PrepareLink ==
    /\ connected' = TRUE
    /\ started' = FALSE /\ missed' = 0 /\ rxSeen' = FALSE
    /\ connTimer' = TRUE
    /\ mask' = "conn" /\ config' = "conn"

\* ble_gap_disconnect has read m_link.connected and has not returned.
Ending == {"unlink", "untime", "silence", "spin", "notify"}

\* DISABLED after a reception: answer, connect, or close.
AdvRxDisabled ==
    /\ air = "advEnd"
    /\ IF Advertises /\ advPhase = "waitRx"
       THEN CASE scanRspPending ->
                   /\ scanRspPending' = FALSE
                   /\ advPhase' = "waitRsp"
                   /\ air' = "rspTx"
                   /\ UNCHANGED <<linkVars, timerVars, mask, config, disabledEvt,
                                  connectPending, queue, overtaken>>
              [] ~scanRspPending /\ connectPending ->
                   /\ Keeps(1)
                   /\ ResetAdvState
                   /\ air' = "off"
                   /\ disabledEvt' = FALSE
                   /\ advTimer' = FALSE
                   /\ PrepareLink
                   /\ overtaken' = (overtaken \/ \E c \in Contexts : pc[c] \in Ending)
                   /\ Post("connected")
                   /\ UNCHANGED paramTimer
              [] OTHER ->
                   /\ ResetAdvState
                   /\ air' = "off"
                   /\ UNCHANGED <<linkVars, timerVars, mask, config, disabledEvt,
                                  queue, overtaken>>
       ELSE /\ air' = "off"
            /\ UNCHANGED <<linkVars, timerVars, mask, config, disabledEvt, advVars,
                           queue, overtaken>>
    /\ UNCHANGED <<app, handlerVars, callVars, told>>

\* DISABLED after the SCAN_RSP.
RspDisabled ==
    /\ air = "rspTx"
    /\ air' = "off"
    /\ IF Advertises /\ advPhase = "waitRsp"
       THEN ResetAdvState ELSE UNCHANGED advVars
    /\ UNCHANGED <<app, linkVars, timerVars, mask, config, disabledEvt, handlerVars,
                   callVars, evtVars, overtaken>>

-----------------------------------------------------------------------------
(***************************************************************************)
(* Connected: TIMER0 opens an event, RADIO receives in it.                 *)
(***************************************************************************)

\* Mutant of SupervisionEvents: the application learns the cause only.
SupervisionEventsCauseOnly == Post("supervision")

\* What TIMER0 posts when supervision ends the link.
SupervisionEvents == PostTwo("supervision", "disconnected")

\* Mutant of MissedAfter: every interval starts the count anew.
MissedAfterReset == 0

\* The count of missed intervals at the end of one that does not end the link.
MissedAfter ==
    IF ~started THEN missed ELSE IF rxSeen THEN 0 ELSE missed + 1

\* TIMER0's compare interrupt.  Supervision counts intervals without a packet
\* once the first packet has started it; otherwise an event is opened, and its own
\* wait for EVENTS_READY may take the event from the advertising loop's.
Timer0 ==
    /\ connTimer
    /\ connected
    /\ Keeps(2)
    /\ IF started /\ MissedAfter >= MissLimit
       THEN /\ DropLink
            /\ SupervisionEvents
            /\ UNCHANGED advPc
       ELSE /\ missed' = MissedAfter
            /\ rxSeen' = FALSE
            /\ mask' = "conn"
            /\ air' = "connRx"
            /\ disabledEvt' = FALSE
            /\ UNCHANGED advPc \/ (advPc \in {"send", "ready"} /\ advPc' = "stalled")
            /\ UNCHANGED <<connected, started, timerVars, config, advVars, queue>>
    /\ UNCHANGED <<app, advChannel, callVars, told, overtaken>>

\* A radio_disable waits.
Polled == advPc = "spin" \/ \E c \in Contexts : pc[c] = "spin"

\* CRCOK in a connection event; the packet may be one that is reported too, a
\* write for instance.  DISABLED and READY follow: a wait may see the first before
\* its interrupt clears it, and the second.
ConnReceives ==
    /\ air = "connRx" /\ connected /\ mask = "conn" /\ config = "conn"
    /\ started' = TRUE
    /\ rxSeen' = TRUE
    /\ air' = "off"
    /\ disabledEvt' \in {FALSE, Polled}
    /\ advPc' = IF advPc = "stalled" THEN "ready" ELSE advPc
    /\ UNCHANGED queue \/ (Keeps(1) /\ Post("other"))
    /\ UNCHANGED <<app, connected, missed, timerVars, mask, config, advVars,
                   advChannel, callVars, told, overtaken>>

\* The packet is LL_TERMINATE_IND: reported, then the link is dropped.
ConnReceivesTerminate ==
    /\ air = "connRx" /\ connected /\ mask = "conn" /\ config = "conn"
    /\ Keeps(2)
    /\ DropLink
    /\ PostTwo("terminate", "disconnected")
    /\ advPc' = IF advPc = "stalled" THEN "ready" ELSE advPc
    /\ UNCHANGED <<app, advChannel, callVars, told, overtaken>>

-----------------------------------------------------------------------------
(***************************************************************************)
(* ble_gap_start_advertising and ble_gap_disconnect, from context c.       *)
(***************************************************************************)

Goto(c, site) == pc' = [pc EXCEPT ![c] = site]

\* ble_gap_start_advertising: nothing to do on a connected link.
StartAdvTest(c) ==
    /\ IF connected THEN Goto(c, "idle") ELSE Goto(c, "arm")
    /\ UNCHANGED <<app, linkVars, timerVars, radioVars, advVars, handlerVars, was,
                   evtVars, overtaken>>

\* Mutant of StartAdvArm: counts on the interrupt mask it was left with.
StartAdvArmKeepsMask(c) ==
    /\ Runs(c)
    /\ pc[c] = "arm"
    /\ config' = "adv"
    /\ advTimer' = TRUE
    /\ Goto(c, "idle")
    /\ UNCHANGED <<app, linkVars, connTimer, paramTimer, mask, air, disabledEvt,
                   advVars, handlerVars, was, evtVars, overtaken>>

\* The rest of it: interrupt mask, packet configuration, timer.
StartAdvArm(c) ==
    /\ Runs(c)
    /\ pc[c] = "arm"
    /\ mask' = "adv"
    /\ disabledEvt' = FALSE
    /\ config' = "adv"
    /\ advTimer' = TRUE
    /\ Goto(c, "idle")
    /\ UNCHANGED <<app, linkVars, connTimer, paramTimer, air, advVars, handlerVars,
                   was, evtVars, overtaken>>

\* ble_gap_disconnect reads m_link.connected and m_link.role, ...
DisconnectSample(c) ==
    /\ Runs(c)
    /\ pc[c] = "hangup"
    /\ was' = [was EXCEPT ![c] = connected]
    /\ Goto(c, "unlink")
    /\ UNCHANGED <<app, linkVars, timerVars, radioVars, advVars, handlerVars, evtVars,
                   overtaken>>

\* ... clears the link, ...
DisconnectUnlink(c) ==
    /\ Runs(c)
    /\ pc[c] = "unlink"
    /\ connected' = FALSE
    /\ Goto(c, "untime")
    /\ UNCHANGED <<app, started, missed, rxSeen, timerVars, radioVars, advVars,
                   handlerVars, was, evtVars, overtaken>>

\* Mutant of DisconnectUntime: the connection timer is left running.
DisconnectUntimeNot(c) ==
    /\ Runs(c)
    /\ pc[c] = "untime"
    /\ Goto(c, "silence")
    /\ UNCHANGED <<app, linkVars, timerVars, radioVars, advVars, handlerVars, was,
                   evtVars, overtaken>>

\* ... stops the connection timer, ...
DisconnectUntime(c) ==
    /\ Runs(c)
    /\ pc[c] = "untime"
    /\ connTimer' = FALSE
    /\ Goto(c, "silence")
    /\ UNCHANGED <<app, linkVars, advTimer, paramTimer, radioVars, advVars,
                   handlerVars, was, evtVars, overtaken>>

\* ... disables the radio, waiting for EVENTS_DISABLED if it is on, ...
DisconnectSilence(c) ==
    /\ Runs(c)
    /\ pc[c] = "silence"
    /\ air' = "off"
    /\ disabledEvt' = (air # "off")
    /\ Goto(c, IF air = "off" THEN "notify" ELSE "spin")
    /\ UNCHANGED <<app, linkVars, timerVars, mask, config, advVars, handlerVars, was,
                   evtVars, overtaken>>

\* ... (the wait ends when the polled register shows the event) ...
DisableSeen(c) ==
    /\ Runs(c)
    /\ pc[c] = "spin"
    /\ disabledEvt
    /\ disabledEvt' = FALSE
    /\ Goto(c, "notify")
    /\ UNCHANGED <<app, linkVars, timerVars, mask, config, air, advVars, handlerVars,
                   was, evtVars, overtaken>>

\* (the RADIO interrupt, when DISABLED is unmasked, clears the event first)
DisabledCleared ==
    /\ disabledEvt
    /\ mask # "off"
    /\ disabledEvt' = FALSE
    /\ UNCHANGED <<app, linkVars, timerVars, mask, config, air, advVars, handlerVars,
                   callVars, evtVars, overtaken>>

\* Mutant of DisconnectNotify: tests the link where it has been cleared.
DisconnectNotifyLate(c) ==
    /\ Runs(c)
    /\ pc[c] = "notify"
    /\ Overrun \/ Len(queue) < QueueSize
    /\ mask' = "off"
    /\ disabledEvt' = FALSE
    /\ IF was[c] THEN ResetAdvState ELSE UNCHANGED advVars
    /\ IF connected THEN Post("disconnected") ELSE UNCHANGED queue
    /\ Goto(c, "idle")
    /\ UNCHANGED <<app, linkVars, timerVars, config, air, handlerVars, was, told,
                   overtaken>>

\* ... resets the advertising state, masks RADIO and tells the application.
DisconnectNotify(c) ==
    /\ Runs(c)
    /\ pc[c] = "notify"
    /\ Overrun \/ Len(queue) < QueueSize
    /\ mask' = "off"
    /\ disabledEvt' = FALSE
    /\ IF was[c] THEN ResetAdvState ELSE UNCHANGED advVars
    /\ IF was[c] THEN Post("disconnected") ELSE UNCHANGED queue
    /\ Goto(c, "idle")
    /\ UNCHANGED <<app, linkVars, timerVars, config, air, handlerVars, was, told,
                   overtaken>>

-----------------------------------------------------------------------------
(***************************************************************************)
(* The application and the deferred event handler.                         *)
(***************************************************************************)

\* The main loop calls ble_gap_start_advertising.
MainAdvertises ==
    /\ "advertise" \in app
    /\ Runs("main")
    /\ pc["main"] = "idle"
    /\ ~connected
    /\ StartAdvTest("main")

\* The main loop finds the link up and calls ble_gap_disconnect.
MainHangsUp ==
    /\ "hangup" \in app
    /\ Runs("main")
    /\ pc["main"] = "idle"
    /\ connected
    /\ Goto("main", "hangup")
    /\ UNCHANGED <<app, linkVars, timerVars, radioVars, advVars, handlerVars, was,
                   evtVars, overtaken>>

\* SWI1_EGU1 starts the parameter update timer on CONNECTED, if the link is
\* still up, and stops it on DISCONNECTED.
ParamTimerAfter(e) ==
    CASE e = "connected"    -> paramTimer \/ connected
      [] e = "disconnected" -> FALSE
      [] OTHER              -> paramTimer

\* One event is taken from the queue and given to the application.
Dispatch ==
    /\ LevelFree
    /\ queue # <<>>
    /\ LET e == Head(queue)
       IN  /\ paramTimer' = ParamTimerAfter(e)
           /\ told' = IF e \in {"connected", "disconnected"} THEN e ELSE told
           /\ Goto("swi", IF e = "disconnected" /\ "restart" \in app
                          THEN "asked" ELSE "callback")
    /\ queue' = Tail(queue)
    /\ UNCHANGED <<app, linkVars, connTimer, advTimer, radioVars, advVars,
                   handlerVars, was, overtaken>>

\* The callback of DISCONNECTED calls ble_gap_start_advertising.
CallbackAdvertises == pc["swi"] = "asked" /\ StartAdvTest("swi")

\* A callback finds the link up and calls ble_gap_disconnect.
CallbackHangsUp ==
    /\ "hangupInCallback" \in app
    /\ pc["swi"] = "callback"
    /\ connected
    /\ Goto("swi", "hangup")
    /\ UNCHANGED <<app, linkVars, timerVars, radioVars, advVars, handlerVars, was,
                   evtVars, overtaken>>

\* A callback that calls nothing returns.
CallbackReturns ==
    /\ pc["swi"] = "callback"
    /\ Goto("swi", "idle")
    /\ UNCHANGED <<app, linkVars, timerVars, radioVars, advVars, handlerVars, was,
                   evtVars, overtaken>>

\* The parameter update timer expires: one request, which tests the link.
ParamTimerFires ==
    /\ LevelFree
    /\ paramTimer
    /\ paramTimer' = FALSE
    /\ UNCHANGED <<app, linkVars, connTimer, advTimer, radioVars, advVars,
                   handlerVars, callVars, evtVars, overtaken>>

-----------------------------------------------------------------------------

AdvLoop == AdvSilence \/ AdvDisableSeen \/ AdvSend \/ AdvEndOfChannel

AdvHandler == AdvTimerFires \/ AdvLoop

AdvRadio ==
    \/ AdvTxDisabled
    \/ \E pdu \in {"scanReq", "connectReq", "other"} : AdvReceives(pdu)
    \/ AdvRxDisabled
    \/ RspDisabled

Link == Timer0 \/ ConnReceives \/ ConnReceivesTerminate

Call(c) ==
    \/ StartAdvArm(c)
    \/ DisconnectSample(c)
    \/ DisconnectUnlink(c)
    \/ DisconnectUntime(c)
    \/ DisconnectSilence(c)
    \/ DisableSeen(c)
    \/ DisconnectNotify(c)

Callbacks ==
    \/ Dispatch
    \/ CallbackAdvertises
    \/ CallbackHangsUp
    \/ CallbackReturns
    \/ ParamTimerFires

Next ==
    \/ AdvHandler
    \/ AdvRadio
    \/ Link
    \/ DisabledCleared
    \/ \E c \in Contexts : Call(c)
    \/ Callbacks
    \/ MainAdvertises
    \/ MainHangsUp

Spec == Init /\ [][Next]_vars

(***************************************************************************)
(* Interrupts that are due are served, and a call that runs goes on.  The  *)
(* main loop is served in the gaps left by timers and callbacks, which     *)
(* recur: strong fairness.  Nothing is assumed of the peer or of when the  *)
(* application calls.                                                      *)
(***************************************************************************)
Fairness ==
    /\ SF_vars(Dispatch)
    /\ WF_vars(CallbackAdvertises)
    /\ WF_vars(CallbackReturns)
    /\ WF_vars(AdvLoop)
    /\ WF_vars(AdvRxDisabled)
    /\ WF_vars(Timer0)
    /\ WF_vars(Call("swi"))
    /\ SF_vars(Call("main"))

FairSpec == Spec /\ Fairness

-----------------------------------------------------------------------------
(***************************************************************************)
(* Properties.                                                             *)
(***************************************************************************)

\* An application that acts in its callbacks only, as the examples do: the
\* main loop neither advertises nor hangs up.
ActsInCallbacks == app \subseteq {"restart", "hangupInCallback"}

\* No call and no callback is in progress and no event waits.
Quiet == queue = <<>> /\ \A c \in Contexts : pc[c] = "idle"

AdvertisingReady == advTimer /\ mask = "adv" /\ config = "adv"

\* While a link is up its timer runs, RADIO interrupts reach the connection's
\* handler, the radio holds the connection's access address, and the
\* advertising timer is stopped, whatever the advertising loop the connection
\* interrupted still does (controller_peripheral_apply_connect_request).
LinkDriven ==
    ActsInCallbacks /\ connected
        /\ (\A c \in Contexts : pc[c] = "idle" \/ pc[c] = "callback") =>
    connTimer /\ mask = "conn" /\ config = "conn" /\ ~advTimer

\* The timer that opens connection events and supervises the link runs exactly
\* while there is a link, whatever the application calls and when, but for the
\* instant between the two in ble_gap_disconnect; unless a link was made while
\* that call ended another.
LinkTimed ==
    ~overtaken /\ (\A c \in Contexts : pc[c] # "untime") => (connected <=> connTimer)

\* Once every event is delivered the application does not believe in a link
\* that is gone, whatever it calls and when; with the same exception.
NoGhostLink == ~overtaken /\ Quiet /\ told = "connected" => connected

\* Once every event is delivered the application's picture of the link is the
\* link: it was last told CONNECTED if and only if the link is up, and the
\* parameter update timer runs only for a link that is up.
AppKnowsLink ==
    ActsInCallbacks /\ Quiet =>
        /\ told = "connected" <=> connected
        /\ paramTimer => connected

\* When nothing is in progress and no link is up, a device that advertises can
\* be connected to: RADIO interrupts are enabled for advertising.
AdvertisingConnectable ==
    ActsInCallbacks /\ Quiet /\ ~connected /\ advTimer => mask = "adv" /\ config = "adv"

\* The priority of the event handler is held by a wait for an event of the radio
\* that will not come: an interrupt has taken it, and there is no other.
Stuck ==
    \/ pc["swi"] = "spin" /\ ~disabledEvt
    \/ advPc = "spin" /\ ~disabledEvt
    \/ advPc = "stalled"

\* A device that lost its link advertises again, connectably, or has a new
\* link: the DISCONNECTED event always reaches the callback that restarts it,
\* unless a callback got stuck for good in ble_gap_disconnect, or the advertising
\* loop that the connection interrupted in its next transmission.
AdvertisingResumes ==
    ActsInCallbacks /\ ~connected ~> (connected \/ AdvertisingReady \/ []Stuck)

\* Supervision ends a link that received at least one packet once the peer
\* falls silent (TIMER0_IRQHandler), unless one was made inside the call that
\* ended another and lost its timer there.
SilenceEndsSupervisedLink ==
    []<>rxSeen \/ []<>~(connected /\ started) \/ <>overtaken

\* ble_gap_disconnect called by the main loop returns, unless a more urgent wait
\* is stuck.
DisconnectReturns == pc["main"] = "hangup" ~> pc["main"] = "idle" \/ Stuck

=============================================================================
