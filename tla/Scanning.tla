------------------------------- MODULE Scanning -------------------------------
(***************************************************************************)
(* A central that scans, asks for scan responses, and connects to a peer   *)
(* that its filter admits (ble_controller_central.c, ble_gap.c).           *)
(*                                                                         *)
(* RADIO preempts the software interrupts, where the two scan timers'      *)
(* handlers and the application's callbacks run, and these preempt the     *)
(* main loop.  RADIO handlers are one step.  A call is split where a more  *)
(* urgent context can come between a test and its use.  The timer handlers *)
(* are one step: while they run the radio is off, or they hold irq_lock,   *)
(* or the first packet of the window is still to come.                     *)
(*                                                                         *)
(* Of a packet the model keeps who sent it, its type, and whether its data *)
(* meet the filter's name and UUIDs.  Connection events are left to the    *)
(* other modules: a link is there until it is lost.                        *)
(***************************************************************************)
EXTENDS Naturals

CONSTANTS
    Peers,     \* advertisers in range
    Active,    \* scan_config.active
    QueueSize, \* events the deferred queue holds (BLE_EVT_QUEUE_SIZE - 1)
    Apps       \* what the application may do: a set of sets of AppHabits

\* restart: set the filter and scan again from the callback of DISCONNECTED,
\*   as central_demo does; refilter, connect, stopInCallback,
\*   hangupInCallback: call ble_gap_set_scan_filter or
\*   ble_gap_clear_scan_filter, ble_gap_connect, ble_gap_stop_scanning, or
\*   ble_gap_disconnect on a live link, in a scan report's callback; stop, start, hangup:
\*   call ble_gap_stop_scanning, ble_gap_start_scanning or, on a live link,
\*   ble_gap_disconnect in the main loop; hangupUnlinked: ble_gap_disconnect
\*   without looking whether there is a link.
AppHabits == {"restart", "refilter", "connect", "stopInCallback",
              "hangupInCallback", "stop", "start", "hangup", "hangupUnlinked"}

None == "none"
Any == "any"

ASSUME PeersAssumption == Peers # {} /\ None \notin Peers /\ Any \notin Peers
ASSUME HabitsAssumption == Active \in BOOLEAN /\ Apps \subseteq SUBSET AppHabits
ASSUME QueueAssumption == QueueSize \in Nat \ {0}

VARIABLES
    app,        \* the habits of this application
    scanning,   \* m_ctrl_rt.central.scanning
    phase,      \* m_ctrl_rt.central.scan_radio_phase
    timer,      \* m_scan_timer_id runs
    window,     \* m_scan_window_timer_id runs
    scanReq,    \* scan_req_tx_pending
    connectReq, \* connect_req_tx_pending
    asked,      \* scan_rsp_target with its two flags
    candidate,  \* scan_rsp_connect_candidate with its flag
    target,     \* connect_target
    filter,     \* scan_filter with its flag
    connected,  \* m_link.connected of a central's link
    mask,       \* the RADIO interrupt mask: "off", "scan", "conn"
    config,     \* what the radio was last set up for: "scan", "connect", "link"
    air,        \* what the radio is doing
    endEvt,     \* EVENTS_END
    disabledEvt,\* EVENTS_DISABLED, while radio_disable waits for it
    news,       \* how many events of each kind wait for their callback
    pc,         \* where the main loop and the callback are
    was,        \* per context, was_connected of disconnect_internal
    wanted,     \* per context, the filter that a call sets, and whether
                \* ble_gap_start_scanning follows
    reported,   \* history: the last report posted
    vouched,    \* history: the filter the candidate's scan response met
    reached,    \* history: the last CONNECT_REQ went out as it was built
    doubled     \* history: a link was lost inside the call that ended it

scanVars == <<scanning, timer, candidate, target, filter>>
pendVars == <<phase, scanReq, connectReq, asked>>
radioVars == <<mask, config, air, endEvt, disabledEvt>>
callVars == <<pc, was, wanted>>
historyVars == <<reported, vouched, reached, doubled>>
vars == <<app, scanVars, pendVars, window, connected, radioVars, news, callVars,
          historyVars>>

Contexts == {"main", "swi"}
Events == {"report", "disconnected"}
NoFilter == [addr |-> None, data |-> FALSE]
\* ble_gap_connect's filter names an address, central_demo's a service.
TargetFilter == [addr |-> Any, data |-> TRUE]
AddressFilter(p) == [addr |-> p, data |-> FALSE]
Filters == {NoFilter, TargetFilter} \union {AddressFilter(p) : p \in Peers}

Admits(f, p, meets) ==
    /\ f # NoFilter
    /\ f.addr \in {Any, p}
    /\ f.data => meets

AdvTypes == {"ind", "direct", "scan", "nonconn"}
Connectable == {"ind", "direct"}
Scannable == {"ind", "scan"}

NotAsked == [peer |-> None, connectable |-> FALSE]

Phases == {"idle", "rx", "reqTx", "rspRx", "connTx"}
AirStates == {"off", "rx", "rxEnd", "reqTx", "rspRx", "rspEnd", "connTx"}
StartSites == {"filter", "forget", "start", "config", "arm", "window"}
StopSites == {"stop", "reset", "test", "silence", "spin", "quiet"}
HangupSites == {"hangup", "unlink", "hangSilence", "hangSpin", "clear"}
CallSites == {"idle"} \union StartSites \union StopSites \union HangupSites

TypeOK ==
    /\ app \in Apps
    /\ scanning \in BOOLEAN /\ timer \in BOOLEAN /\ window \in BOOLEAN
    /\ phase \in Phases
    /\ scanReq \in BOOLEAN /\ connectReq \in BOOLEAN
    /\ asked \in [peer : Peers, connectable : BOOLEAN] \union {NotAsked}
    /\ candidate \in Peers \union {None} /\ target \in Peers \union {None}
    /\ filter \in Filters
    /\ connected \in BOOLEAN
    /\ mask \in {"off", "scan", "conn"}
    /\ config \in {"scan", "connect", "link"}
    /\ air \in AirStates
    /\ endEvt \in BOOLEAN /\ disabledEvt \in BOOLEAN
    /\ news \in [Events -> 0 .. QueueSize]
    /\ news["report"] + news["disconnected"] <= QueueSize
    /\ pc \in [Contexts -> CallSites]
    /\ was \in [Contexts -> BOOLEAN]
    /\ wanted \in [Contexts -> [filter : Filters, start : BOOLEAN]]
    /\ reported \in [peer : Peers \union {None}, rsp : BOOLEAN]
    /\ vouched \in Filters
    /\ reached \in BOOLEAN /\ doubled \in BOOLEAN

\* central_demo's start_target_scan.
TargetScan == [filter |-> TargetFilter, start |-> TRUE]

\* After ble_stack_init and ble_gap_scan_init; the application begins with its
\* filter and ble_gap_start_scanning.
Init ==
    /\ app \in Apps
    /\ scanning = FALSE /\ timer = FALSE /\ window = FALSE
    /\ phase = "idle" /\ scanReq = FALSE /\ connectReq = FALSE
    /\ asked = NotAsked /\ candidate = None /\ target = None
    /\ filter = NoFilter
    /\ connected = FALSE
    /\ mask = "off" /\ config = "scan" /\ air = "off"
    /\ endEvt = FALSE /\ disabledEvt = FALSE
    /\ news = [e \in Events |-> 0]
    /\ pc = [c \in Contexts |-> IF c = "main" THEN "filter" ELSE "idle"]
    /\ was = [c \in Contexts |-> FALSE]
    /\ wanted = [c \in Contexts |-> TargetScan]
    /\ reported = [peer |-> None, rsp |-> FALSE]
    /\ vouched = NoFilter
    /\ reached = FALSE /\ doubled = FALSE

-----------------------------------------------------------------------------
(***************************************************************************)
(* Pieces shared by the handlers.                                          *)
(***************************************************************************)

\* The software interrupts' priority level is free.
LevelFree == pc["swi"] = "idle"

NoNews == \A e \in Events : news[e] = 0

\* c is not preempted by a callback, nor by one that is due.
Runs(c) == c = "main" => LevelFree /\ NoNews

\* ble_evt_notify_gap and ble_evt_notify_scan_report; their callers ignore what
\* they return when the queue is full.
Post(e) ==
    news' = IF news["report"] + news["disconnected"] < QueueSize
            THEN [news EXCEPT ![e] = @ + 1] ELSE news

\* An event is taken for its callback, in any order.
Take(e) == news[e] > 0 /\ news' = [news EXCEPT ![e] = @ - 1]

Goto(c, site) == pc' = [pc EXCEPT ![c] = site]

\* Mutant of ResetScanState: the flag that goes with the target is kept.
ResetScanStateKeepsFlag ==
    /\ phase' = "idle"
    /\ scanReq' = FALSE
    /\ connectReq' = FALSE
    /\ asked' = [asked EXCEPT !.peer = None]

\* Mutant of ResetScanState: the phase is kept.
ResetScanStateKeepsPhase ==
    /\ scanReq' = FALSE
    /\ connectReq' = FALSE
    /\ asked' = NotAsked
    /\ UNCHANGED phase

\* controller_central_reset_scan_state.
ResetScanState ==
    /\ phase' = "idle"
    /\ scanReq' = FALSE
    /\ connectReq' = FALSE
    /\ asked' = NotAsked

\* The part of controller_central_state_reset that concerns scanning.
StateReset ==
    /\ ResetScanState
    /\ scanning' = FALSE
    /\ candidate' = None

\* ble_evt_notify_scan_report and what it carries.
Report(p, rsp) ==
    /\ Post("report")
    /\ reported' = [peer |-> p, rsp |-> rsp]

\* controller_central_handle_radio_event lets an event through.
Hears == ~connected /\ mask = "scan" /\ phase # "idle"

-----------------------------------------------------------------------------
(***************************************************************************)
(* The timers (app_timer).                                                 *)
(***************************************************************************)

\* controller_central_scan_timer_handler past its tests: open a window.  What
\* is here called at once with it is the start of the window timer.
ArmRx ==
    /\ mask' = "scan"
    /\ phase' = "rx"
    /\ air' = "rx"
    /\ endEvt' = FALSE

MayArm == ~connected /\ scanning /\ phase = "idle"

\* Mutant of ScanTimerFires: the window is opened without its timer.
ScanTimerFiresUnbounded ==
    /\ LevelFree
    /\ timer
    /\ MayArm
    /\ ArmRx
    /\ UNCHANGED <<app, scanVars, scanReq, connectReq, asked, window, connected,
                   config, disabledEvt, news, callVars, historyVars>>

\* The scan interval is over.
ScanTimerFires ==
    /\ LevelFree
    /\ timer
    /\ MayArm
    /\ ArmRx
    /\ window' = TRUE
    /\ UNCHANGED <<app, scanVars, scanReq, connectReq, asked, connected, config,
                   disabledEvt, news, callVars, historyVars>>

\* What controller_central_scan_window_timeout_handler asks before it ends the
\* window: a phase that receives, a radio that does, and no completion pending.
\* EVENTS_END is cleared when a mode is set and before a SCAN_REQ is started.
InWindow ==
    /\ scanning /\ ~connected
    /\ phase \in {"rx", "rspRx"}
    /\ air \in {"rx", "rspRx"}
    /\ ~endEvt

\* The window timer is single shot: it is spent, whatever the handler finds.
WindowTimerFires ==
    /\ LevelFree
    /\ window
    /\ window' = FALSE
    /\ IF InWindow
       THEN ResetScanState /\ air' = "off"
       ELSE UNCHANGED <<pendVars, air>>
    /\ UNCHANGED <<app, scanVars, connected, mask, config, endEvt, disabledEvt,
                   news, callVars, historyVars>>

-----------------------------------------------------------------------------
(***************************************************************************)
(* The RADIO interrupt.                                                    *)
(***************************************************************************)

\* The advertiser is the one whose scan response met the filter, or meets it
\* now, and accepts connections.
FoundTarget(p, type, meets) ==
    type \in Connectable /\ (p = candidate \/ Admits(filter, p, meets))

\* Mutant of HandleAdv: the interval timer is left running.
HandleAdvTimed(p, type, meets) ==
    /\ Report(p, FALSE)
    /\ IF FoundTarget(p, type, meets)
       THEN /\ target' = p
            /\ candidate' = None
            /\ scanning' = FALSE
            /\ connectReq' = TRUE
            /\ UNCHANGED <<timer, scanReq, asked>>
       ELSE /\ IF Active /\ type \in Scannable
               THEN /\ scanReq' = TRUE
                    /\ asked' = [peer |-> p,
                                 connectable |-> type \in Connectable]
               ELSE UNCHANGED <<scanReq, asked>>
            /\ UNCHANGED <<timer, target, candidate, scanning, connectReq>>

\* controller_central_handle_scan_crc_ok: report, then connect or ask.
HandleAdv(p, type, meets) ==
    /\ Report(p, FALSE)
    /\ IF FoundTarget(p, type, meets)
       THEN /\ timer' = FALSE
            /\ target' = p
            /\ candidate' = None
            /\ scanning' = FALSE
            /\ connectReq' = TRUE
            /\ UNCHANGED <<scanReq, asked>>
       ELSE /\ IF Active /\ type \in Scannable
               THEN /\ scanReq' = TRUE
                    /\ asked' = [peer |-> p,
                                 connectable |-> type \in Connectable]
               ELSE UNCHANGED <<scanReq, asked>>
            /\ UNCHANGED <<timer, target, candidate, scanning, connectReq>>

\* A packet ends in the scan window: CRCOK of an advertisement, ...
AdvReceived(p, type, meets) ==
    /\ air = "rx"
    /\ air' = "rxEnd"
    /\ endEvt' = TRUE
    /\ IF Hears /\ phase = "rx"
       THEN HandleAdv(p, type, meets)
       ELSE UNCHANGED <<timer, target, candidate, scanning, connectReq, scanReq,
                        asked, news, reported>>
    /\ UNCHANGED <<app, filter, phase, window, connected, mask, config,
                   disabledEvt, callVars, vouched, reached, doubled>>

\* ... or CRCERROR, or another type of packet, which only ends the reception.
OtherReceived ==
    /\ air \in {"rx", "rspRx"}
    /\ air' = IF air = "rx" THEN "rxEnd" ELSE "rspEnd"
    /\ endEvt' = TRUE
    /\ UNCHANGED <<app, scanVars, pendVars, window, connected, mask, config,
                   disabledEvt, news, callVars, historyVars>>

\* Mutant of HandleScanRsp: a response of any advertiser will do.
HandleScanRspOfAny(p, meets) ==
    /\ Report(p, TRUE)
    /\ IF asked.connectable /\ Admits(filter, p, meets)
       THEN candidate' = p /\ vouched' = filter
       ELSE UNCHANGED <<candidate, vouched>>

\* controller_central_handle_scan_rsp_crc_ok: report the response that was
\* asked for, and remember an advertiser whose response meets the filter.
HandleScanRsp(p, meets) ==
    IF asked.peer = p
    THEN /\ Report(p, TRUE)
         /\ IF asked.connectable /\ Admits(filter, p, meets)
            THEN candidate' = p /\ vouched' = filter
            ELSE UNCHANGED <<candidate, vouched>>
    ELSE UNCHANGED <<news, reported, candidate, vouched>>

\* CRCOK of a SCAN_RSP.
ScanRspReceived(p, meets) ==
    /\ air = "rspRx"
    /\ air' = "rspEnd"
    /\ endEvt' = TRUE
    /\ IF Hears /\ phase = "rspRx"
       THEN HandleScanRsp(p, meets)
       ELSE UNCHANGED <<news, reported, candidate, vouched>>
    /\ UNCHANGED <<app, scanning, timer, target, filter, pendVars, window,
                   connected, mask, config, disabledEvt, callVars, reached,
                   doubled>>

\* controller_central_apply_connect_request after the reset of its caller.
ApplyConnectRequest ==
    /\ connected' = TRUE
    /\ scanning' = FALSE
    /\ candidate' = None
    /\ mask' = "conn"
    /\ config' = "link"
    /\ reached' = (config = "connect" /\ air = "connTx")

\* controller_central_handle_scan_disabled.  Where it starts no transmission,
\* the radio goes on with next by itself.
HandleScanDisabled(next) ==
    CASE phase = "rx" /\ connectReq ->
            /\ connectReq' = FALSE
            /\ window' = FALSE
            /\ phase' = "connTx"
            /\ air' = "connTx"
            /\ config' = "connect"
            /\ UNCHANGED <<scanReq, asked, connected, scanning, candidate, mask,
                           reached>>
      [] phase = "rx" /\ ~connectReq /\ scanReq ->
            /\ scanReq' = FALSE
            /\ phase' = "reqTx"
            /\ air' = "reqTx"
            /\ UNCHANGED <<connectReq, asked, window, connected, scanning,
                           candidate, mask, config, reached>>
      [] phase = "reqTx" ->
            /\ phase' = "rspRx"
            /\ air' = next
            /\ UNCHANGED <<scanReq, connectReq, asked, window, connected,
                           scanning, candidate, mask, config, reached>>
      [] phase = "connTx" ->
            /\ window' = FALSE
            /\ ResetScanState
            /\ air' = next
            /\ ApplyConnectRequest
      [] OTHER ->
            /\ window' = FALSE
            /\ ResetScanState
            /\ air' = next
            /\ UNCHANGED <<connected, scanning, candidate, mask, config,
                           reached>>

\* DISABLED reaches the handler or not; a SCAN_REQ clears EVENTS_END, end.
Disabled(next, end) ==
    /\ IF Hears
       THEN HandleScanDisabled(next)
       ELSE /\ air' = next
            /\ UNCHANGED <<pendVars, window, connected, scanning, candidate,
                           mask, config, reached>>
    /\ endEvt' = (end /\ ~(phase = "rx" /\ phase' = "reqTx"))
    /\ UNCHANGED <<app, timer, target, filter, news, callVars, reported,
                   vouched, doubled>>

\* DISABLED after a reception.
RxDisabled ==
    /\ air \in {"rxEnd", "rspEnd"}
    /\ Disabled("off", endEvt)
    /\ UNCHANGED disabledEvt

\* DISABLED after the SCAN_REQ.  Its END stays set; the shorts start RX.
ReqTxDisabled ==
    /\ air = "reqTx"
    /\ Disabled("rspRx", TRUE)
    /\ UNCHANGED disabledEvt

\* DISABLED after the CONNECT_REQ.
ConnTxDisabled ==
    /\ air = "connTx"
    /\ Disabled("off", TRUE)
    /\ UNCHANGED disabledEvt

\* DISABLED while radio_disable polls for it: the handler clears the event.
DisabledCleared ==
    /\ disabledEvt
    /\ mask # "off"
    /\ disabledEvt' = FALSE
    /\ Disabled("off", endEvt)

\* controller_disconnect_internal in TIMER0 or RADIO: the link is lost.
LinkLost ==
    /\ connected
    /\ connected' = FALSE
    /\ timer' = FALSE /\ window' = FALSE
    /\ StateReset
    /\ air' = "off" /\ mask' = "off"
    /\ Post("disconnected")
    /\ doubled' = (doubled \/ \E c \in Contexts : was[c] /\ pc[c] = "unlink")
    /\ UNCHANGED <<app, target, filter, config, endEvt, disabledEvt, callVars,
                   reported, vouched, reached>>

-----------------------------------------------------------------------------
(***************************************************************************)
(* Calls of the application, from context c.                               *)
(***************************************************************************)

\* ble_gap_set_scan_filter and ble_gap_clear_scan_filter: the filter, ...
SetFilter(c) ==
    /\ Runs(c)
    /\ pc[c] = "filter"
    /\ filter' = wanted[c].filter
    /\ Goto(c, "forget")
    /\ UNCHANGED <<app, scanning, timer, candidate, target, pendVars, window,
                   connected, radioVars, news, was, wanted, historyVars>>

\* Mutant of ForgetCandidate: the advertiser found before may still be wanted.
KeepCandidate(c) ==
    /\ Runs(c)
    /\ pc[c] = "forget"
    /\ Goto(c, IF wanted[c].start THEN "start" ELSE "idle")
    /\ UNCHANGED <<app, scanVars, pendVars, window, connected, radioVars, news,
                   was, wanted, historyVars>>

\* ... and the candidate found under the last one.  ble_gap_connect and
\* central_demo go on with ble_gap_start_scanning.
ForgetCandidate(c) ==
    /\ Runs(c)
    /\ pc[c] = "forget"
    /\ candidate' = None
    /\ Goto(c, IF wanted[c].start THEN "start" ELSE "idle")
    /\ UNCHANGED <<app, scanning, timer, target, filter, pendVars, window,
                   connected, radioVars, news, was, wanted, historyVars>>

\* ble_gap_start_scanning: nothing to do if connected or scanning, ...
StartTest(c) ==
    /\ Runs(c)
    /\ pc[c] = "start"
    /\ Goto(c, IF connected \/ scanning THEN "idle" ELSE "config")
    /\ UNCHANGED <<app, scanVars, pendVars, window, connected, radioVars, news,
                   was, wanted, historyVars>>

\* ... the radio's packet configuration, the flag and the timer, ...
StartConfig(c) ==
    /\ Runs(c)
    /\ pc[c] = "config"
    /\ config' = "scan"
    /\ scanning' = TRUE
    /\ timer' = TRUE
    /\ Goto(c, "arm")
    /\ UNCHANGED <<app, candidate, target, filter, pendVars, window, connected,
                   mask, air, endEvt, disabledEvt, news, was, wanted,
                   historyVars>>

\* ... the timer handler, called for the first window ...
StartArm(c) ==
    /\ Runs(c)
    /\ pc[c] = "arm"
    /\ IF MayArm
       THEN ArmRx /\ Goto(c, "window")
       ELSE Goto(c, "idle") /\ UNCHANGED <<mask, phase, air, endEvt>>
    /\ UNCHANGED <<app, scanVars, scanReq, connectReq, asked, window, connected,
                   config, disabledEvt, news, was, wanted, historyVars>>

\* ... which starts the window timer when the radio is ready.
StartWindow(c) ==
    /\ Runs(c)
    /\ pc[c] = "window"
    /\ window' = TRUE
    /\ Goto(c, "idle")
    /\ UNCHANGED <<app, scanVars, pendVars, connected, radioVars, news, was,
                   wanted, historyVars>>

\* ble_gap_stop_scanning: the timers and the flag, ...
StopTimers(c) ==
    /\ Runs(c)
    /\ pc[c] = "stop"
    /\ timer' = FALSE /\ window' = FALSE
    /\ scanning' = FALSE
    /\ Goto(c, "reset")
    /\ UNCHANGED <<app, candidate, target, filter, pendVars, connected,
                   radioVars, news, was, wanted, historyVars>>

\* ... the candidate and the scan state, ...
StopReset(c) ==
    /\ Runs(c)
    /\ pc[c] = "reset"
    /\ candidate' = None
    /\ ResetScanState
    /\ Goto(c, "test")
    /\ UNCHANGED <<app, scanning, timer, target, filter, window, connected,
                   radioVars, news, was, wanted, historyVars>>

\* ... and, if there is no link, the radio.
StopTest(c) ==
    /\ Runs(c)
    /\ pc[c] = "test"
    /\ Goto(c, IF connected THEN "idle" ELSE "silence")
    /\ UNCHANGED <<app, scanVars, pendVars, window, connected, radioVars, news,
                   was, wanted, historyVars>>

\* radio_disable, from site at: if the radio is on, wait for EVENTS_DISABLED ...
Silence(c, at, wait, next) ==
    /\ Runs(c)
    /\ pc[c] = at
    /\ air' = "off"
    /\ disabledEvt' = (air # "off")
    /\ Goto(c, IF air = "off" THEN next ELSE wait)
    /\ UNCHANGED <<app, scanVars, pendVars, window, connected, mask, config,
                   endEvt, news, was, wanted, historyVars>>

\* ... until the polled register shows it.
DisableSeen(c, wait, next) ==
    /\ Runs(c)
    /\ pc[c] = wait
    /\ disabledEvt
    /\ disabledEvt' = FALSE
    /\ Goto(c, next)
    /\ UNCHANGED <<app, scanVars, pendVars, window, connected, mask, config, air,
                   endEvt, news, was, wanted, historyVars>>

StopMask(c) ==
    /\ Runs(c)
    /\ pc[c] = "quiet"
    /\ mask' = "off"
    /\ Goto(c, "idle")
    /\ UNCHANGED <<app, scanVars, pendVars, window, connected, config, air,
                   endEvt, disabledEvt, news, was, wanted, historyVars>>

\* ble_gap_disconnect: m_link.connected and m_link.role are sampled, ...
HangupSample(c) ==
    /\ Runs(c)
    /\ pc[c] = "hangup"
    /\ was' = [was EXCEPT ![c] = connected]
    /\ timer' = (timer /\ ~connected)
    /\ window' = (window /\ ~connected)
    /\ Goto(c, "unlink")
    /\ UNCHANGED <<app, scanning, candidate, target, filter, pendVars, connected,
                   radioVars, news, wanted, historyVars>>

\* ... the link is cleared, then radio_disable, ...
HangupUnlink(c) ==
    /\ Runs(c)
    /\ pc[c] = "unlink"
    /\ connected' = FALSE
    /\ Goto(c, "hangSilence")
    /\ UNCHANGED <<app, scanVars, pendVars, window, radioVars, news, was, wanted,
                   historyVars>>

\* ... and the state of the sampled role, the mask and DISCONNECTED.
HangupClear(c) ==
    /\ Runs(c)
    /\ pc[c] = "clear"
    /\ mask' = "off"
    /\ IF was[c]
       THEN StateReset /\ Post("disconnected")
       ELSE UNCHANGED <<pendVars, scanning, candidate, news>>
    /\ Goto(c, "idle")
    /\ UNCHANGED <<app, timer, target, filter, window, connected, config, air,
                   endEvt, disabledEvt, was, wanted, historyVars>>

Call(c) ==
    \/ SetFilter(c)
    \/ ForgetCandidate(c)
    \/ StartTest(c) \/ StartConfig(c) \/ StartArm(c) \/ StartWindow(c)
    \/ StopTimers(c) \/ StopReset(c) \/ StopTest(c) \/ StopMask(c)
    \/ Silence(c, "silence", "spin", "quiet")
    \/ DisableSeen(c, "spin", "quiet")
    \/ HangupSample(c) \/ HangupUnlink(c) \/ HangupClear(c)
    \/ Silence(c, "hangSilence", "hangSpin", "clear")
    \/ DisableSeen(c, "hangSpin", "clear")

-----------------------------------------------------------------------------
(***************************************************************************)
(* The application.                                                        *)
(***************************************************************************)

Enters(c, site) ==
    /\ Goto(c, site)
    /\ UNCHANGED <<app, scanVars, pendVars, window, connected, radioVars, was,
                   historyVars>>

\* The main loop calls.
MainCalls ==
    /\ Runs("main")
    /\ pc["main"] = "idle"
    /\ \/ "stop" \in app /\ Enters("main", "stop")
       \/ "start" \in app /\ Enters("main", "start")
       \/ "hangup" \in app /\ connected /\ Enters("main", "hangup")
       \/ "hangupUnlinked" \in app /\ Enters("main", "hangup")
    /\ UNCHANGED <<wanted, news>>

\* The callback of a scan report: nothing, or a call.
ReportCallback ==
    /\ LevelFree
    /\ Take("report")
    /\ \/ Enters("swi", "idle") /\ UNCHANGED wanted
       \/ "stopInCallback" \in app /\ Enters("swi", "stop") /\ UNCHANGED wanted
       \/ /\ "hangupInCallback" \in app
          /\ connected
          /\ Enters("swi", "hangup")
          /\ UNCHANGED wanted
       \/ /\ "refilter" \in app
          /\ \E f \in Filters \ {TargetFilter} :
                 wanted' = [wanted EXCEPT !["swi"] = [filter |-> f, start |-> FALSE]]
          /\ Enters("swi", "filter")
       \/ /\ "connect" \in app
          /\ \E p \in Peers :
                 wanted' = [wanted EXCEPT
                     !["swi"] = [filter |-> AddressFilter(p), start |-> TRUE]]
          /\ Enters("swi", "filter")

\* The callback of DISCONNECTED.
DisconnectedCallback ==
    /\ LevelFree
    /\ Take("disconnected")
    /\ IF "restart" \in app
       THEN /\ wanted' = [wanted EXCEPT !["swi"] = TargetScan]
            /\ Enters("swi", "filter")
       ELSE Enters("swi", "idle") /\ UNCHANGED wanted

-----------------------------------------------------------------------------

Timers == ScanTimerFires \/ WindowTimerFires

Receptions ==
    \/ \E p \in Peers, type \in AdvTypes, meets \in BOOLEAN :
           AdvReceived(p, type, meets)
    \/ \E p \in Peers, meets \in BOOLEAN : ScanRspReceived(p, meets)
    \/ OtherReceived

Completions == RxDisabled \/ ReqTxDisabled \/ ConnTxDisabled

Callbacks == ReportCallback \/ DisconnectedCallback

Next ==
    \/ Timers
    \/ Receptions
    \/ Completions
    \/ DisabledCleared
    \/ LinkLost
    \/ \E c \in Contexts : Call(c)
    \/ MainCalls
    \/ Callbacks

Spec == Init /\ [][Next]_vars

(***************************************************************************)
(* Timers and interrupts that are due are served, callbacks are called and *)
(* return, and a call of the main loop goes on while nothing preempts it.  *)
(* Nothing is assumed of the advertisers.                                  *)
(***************************************************************************)
Fairness ==
    /\ WF_vars(ScanTimerFires)
    /\ WF_vars(WindowTimerFires)
    /\ WF_vars(Completions)
    /\ WF_vars(Callbacks)
    /\ \A c \in Contexts : WF_vars(Call(c))

FairSpec == Spec /\ Fairness

\* A channel on which something is transmitted again and again.
BusySpec == FairSpec /\ WF_vars(air = "rspRx" /\ Receptions)

-----------------------------------------------------------------------------
(***************************************************************************)
(* Properties.                                                             *)
(***************************************************************************)

Quiet == NoNews /\ \A c \in Contexts : pc[c] = "idle"

\* The main loop neither stops a scan nor hangs up.
EndsInCallbacks == app \cap {"stop", "hangup", "hangupUnlinked"} = {}

\* The application starts a scan at the beginning and after DISCONNECTED only.
StartsUnlinked == app \cap {"start", "connect"} = {}

\* Whenever no call is in progress the scan phase says what the radio does, so
\* that its next interrupt finds the handler that belongs to it.
PhaseInStep ==
    EndsInCallbacks /\ Quiet /\ ~connected =>
        CASE phase = "idle"   -> air = "off"
          [] phase = "rx"     -> air \in {"rx", "rxEnd"}
          [] phase = "reqTx"  -> air = "reqTx"
          [] phase = "rspRx"  -> air \in {"rspRx", "rspEnd"}
          [] phase = "connTx" -> air = "connTx"

\* An open window has its timer and a central that scans its interval timer; one
\* that has a link has no timer that could take the radio away from it, unless the
\* end of one was told twice: lost by itself once ble_gap_disconnect had found it.
ScanTimed ==
    /\ air = "rx" /\ Quiet => window
    /\ EndsInCallbacks /\ Quiet /\ scanning => timer
    /\ EndsInCallbacks /\ StartsUnlinked /\ ~doubled /\ connected =>
           ~scanning /\ ~timer

\* A link is one that its peer can know of: its CONNECT_REQ went out whole and as
\* it was built, and the radio is set up for the link; with the same exception.
LinkReached ==
    EndsInCallbacks /\ StartsUnlinked /\ ~doubled /\ connected =>
        reached /\ config = "link"

\* An advertiser found by its scan response is remembered only under the filter
\* that the response met.
CandidateCurrent ==
    candidate # None /\ (\A c \in Contexts : pc[c] # "forget") =>
        vouched = filter

\* The report of a scan response follows the report of the advertisement of
\* the same advertiser (scan_rsp_target).
ResponseFollowsReport ==
    [][reported' # reported /\ reported'.rsp =>
           reported = [peer |-> reported'.peer, rsp |-> FALSE]]_vars

\* A central that scans closes every window and opens another, until it finds
\* its peer; with the same exception.
ScanGoesOn ==
    EndsInCallbacks /\ StartsUnlinked =>
        \/ <>doubled
        \/ /\ []<>(~scanning \/ phase = "idle")
           /\ []<>(~scanning \/ phase = "rx")

\* "WaitScanRspRxDisabled --> ScanIdle: SCAN_RSP handled or timeout".
ScanRspOrTimeout == phase = "rspRx" ~> phase = "idle"

=============================================================================
