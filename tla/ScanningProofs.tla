---------------------------- MODULE ScanningProofs ----------------------------
(***************************************************************************)
(* Proofs about Scanning, for every set of advertisers, passive or active  *)
(* scanning, and every set of applications.                                *)
(***************************************************************************)
EXTENDS Scanning, TLAPS

-----------------------------------------------------------------------------
(***************************************************************************)
(* The inductive invariants.                                               *)
(***************************************************************************)

\* What waits for the advertiser that was asked is bound to its report.
ResponseInv ==
    /\ phase = "idle" \/ (phase = "rx" /\ air = "rx") => ~scanReq
    /\ /\ asked.peer # None
       /\ \/ phase = "rx" /\ scanReq
          \/ phase = air /\ phase \in {"reqTx", "rspRx"}
       => reported = [peer |-> asked.peer, rsp |-> FALSE]
    /\ air = "reqTx" => phase # "rspRx"

\* The phase says what the radio does.
InStep ==
    /\ phase = "idle" => air = "off"
    /\ phase = "rx" => air \in {"rx", "rxEnd"}
    /\ phase = "reqTx" => air = "reqTx"
    /\ phase = "rspRx" => air \in {"rspRx", "rspEnd"}
    /\ phase = "connTx" => air = "connTx"

\* Between the reset of the scan state and radio_disable.
Draining == pc["swi"] \in {"test", "silence"}

\* An application that stops and hangs up in callbacks only: a callback keeps
\* the timers away while it does, and only ble_gap_stop_scanning leaves the
\* radio on without a phase.
RadioInv ==
    /\ pc["main"] \in {"idle"} \union StartSites
    /\ ~connected /\ ~Draining => InStep
    /\ connected => phase = "idle" /\ air = "off"
    /\ pc["swi"] \in {"test", "silence", "spin", "quiet"} => phase = "idle"
    /\ pc["swi"] \in HangupSites => phase = "idle" /\ air = "off"
    /\ phase # "idle" => mask = "scan"
    /\ disabledEvt => pc["swi"] \in {"spin", "hangSpin"}

\* A call of ble_gap_start_scanning that context c has begun and not finished.
StartUnderWay(c) ==
    \/ pc[c] \in {"start", "config"}
    \/ pc[c] \in {"filter", "forget"} /\ wanted[c].start

Unlinked == ~connected /\ phase = "idle"

\* Context c is in a ble_gap_disconnect that found a link.
AtHangup(c) == was[c] /\ pc[c] \in {"unlink", "hangSilence", "hangSpin", "clear"}

\* An application that, besides, starts a scan only when it has no link: a link, a
\* call that ends it, its DISCONNECTED and the start of a scan follow each other,
\* as long as no end of a link is told twice.
LinkInv ==
    /\ news["disconnected"] > 0 =>
           news["disconnected"] = 1 /\ Unlinked /\ ~scanning
    /\ StartUnderWay("swi") => Unlinked /\ news["disconnected"] = 0
    /\ StartUnderWay("main") =>
           Unlinked /\ ~scanning /\ NoNews /\ pc["swi"] = "idle"
    /\ AtHangup("swi") =>
           news["disconnected"] = 0 /\ (pc["swi"] = "unlink" => connected)
    /\ pc["swi"] \in {"hangSilence", "hangSpin", "clear"} => ~connected
    /\ phase = "connTx" => config = "connect"
    /\ connected => reached /\ config = "link"

\* A window was reset under a scan that the callback of DISCONNECTED, or one that
\* calls ble_gap_connect, is about to start again.
Restarting ==
    /\ ~connected /\ phase = "idle"
    /\ \/ /\ ~scanning
          /\ \/ news["disconnected"] > 0 /\ "restart" \in app
             \/ StartUnderWay("swi")
       \/ scanning /\ pc["swi"] = "arm"

\* The radio that listens in a window: the window's timer runs or is about to be
\* started, and finds a window to close when it fires; or a call will silence
\* the radio, or open the window again.
WindowInv ==
    /\ connected => phase = "idle" /\ air # "rx"
    /\ /\ air = "rx"
       /\ \A c \in Contexts : pc[c] \notin {"reset", "test", "silence"}
       => \/ /\ scanning /\ phase = "rx" /\ ~endEvt
             /\ window \/ \E c \in Contexts : pc[c] = "window"
          \/ Restarting
    /\ AtHangup("swi") => phase = "idle" /\ air # "rx"
    /\ AtHangup("main") /\ "restart" \notin app =>
           /\ phase = "idle" /\ air # "rx" /\ ~timer
           /\ pc["swi"] = "idle" /\ news["report"] = 0

\* Only a ble_gap_disconnect that is under way stops the timer before the scan.
TimerInv == scanning /\ ~timer => \E c \in Contexts : AtHangup(c)

\* From the decision to connect on, no timer runs.
CommitInv ==
    /\ connectReq => phase = "rx"
    /\ connectReq \/ phase = "connTx" \/ connected => ~scanning /\ ~timer

-----------------------------------------------------------------------------
(***************************************************************************)
(* Type correctness.                                                       *)
(***************************************************************************)

\* Setting pc of a context to a site keeps its type.
LEMMA GotoType ==
    ASSUME TypeOK, NEW c \in Contexts, NEW site \in CallSites, Goto(c, site)
    PROVE  /\ pc' \in [Contexts -> CallSites]
           /\ pc'[c] = site
           /\ \A d \in Contexts \ {c} : pc'[d] = pc[d]
BY DEF TypeOK, Goto

\* An event that is posted is one more of its kind, unless the queue is full.
LEMMA Posting ==
    ASSUME TypeOK, NEW e \in Events, Post(e)
    PROVE  /\ news' \in [Events -> 0 .. QueueSize]
           /\ news'["report"] + news'["disconnected"] <= QueueSize
           /\ \A d \in Events \ {e} : news'[d] = news[d]
           /\ news'[e] \in {news[e], news[e] + 1}
           /\ NoNews => news'[e] = 1
BY QueueAssumption DEF TypeOK, Events, Post, NoNews

\* An event that is taken is one less.
LEMMA Taking ==
    ASSUME TypeOK, NEW e \in Events, Take(e)
    PROVE  /\ news' \in [Events -> 0 .. QueueSize]
           /\ news'["report"] + news'["disconnected"] <= QueueSize
           /\ \A d \in Events \ {e} : news'[d] = news[d]
           /\ news[e] > 0 /\ news'[e] = news[e] - 1
BY QueueAssumption DEF TypeOK, Events, Take

LEMMA Kinds ==
    /\ "report" \in Events /\ "disconnected" \in Events
    /\ TypeOK => news["report"] \in Nat /\ news["disconnected"] \in Nat
BY QueueAssumption DEF Events, TypeOK

\* What the queue holds is of its type.
NewsType ==
    /\ news \in [Events -> 0 .. QueueSize]
    /\ news["report"] + news["disconnected"] <= QueueSize

\* The places of a call.
LEMMA Sites ==
    /\ {"idle", "filter", "forget", "start", "config", "arm", "window"}
           \subseteq CallSites
    /\ {"stop", "reset", "test", "silence", "spin", "quiet"} \subseteq CallSites
    /\ {"hangup", "unlink", "hangSilence", "hangSpin", "clear"}
           \subseteq CallSites
BY DEF CallSites, StartSites, StopSites, HangupSites

\* The steps of the application's calls keep the types.
LEMMA CallType ==
    ASSUME TypeOK, NEW c \in Contexts, Call(c)
    PROVE  TypeOK'
<1> USE Sites DEF TypeOK, scanVars, pendVars, radioVars, callVars, historyVars, Goto
<1>1. CASE SetFilter(c)
  BY <1>1 DEF SetFilter
<1>2. CASE ForgetCandidate(c)
  BY <1>2 DEF ForgetCandidate
<1>3. CASE StartTest(c)
  BY <1>3 DEF StartTest
<1>4. CASE StartConfig(c)
  BY <1>4 DEF StartConfig
<1>5. CASE StartArm(c)
  <2>1. endEvt' \in BOOLEAN
    BY <1>5, Zenon DEF StartArm, ArmRx
  <2> QED
    BY <1>5, <2>1 DEF StartArm, ArmRx, Phases, AirStates
<1>6. CASE StartWindow(c)
  BY <1>6 DEF StartWindow
<1>7. CASE StopTimers(c)
  <2>1. timer' \in BOOLEAN /\ window' \in BOOLEAN /\ scanning' \in BOOLEAN
    BY <1>7, Zenon DEF StopTimers
  <2> QED
    BY <1>7, <2>1 DEF StopTimers
<1>8. CASE StopReset(c)
  <2>1. scanReq' \in BOOLEAN /\ connectReq' \in BOOLEAN
    BY <1>8, Zenon DEF StopReset, ResetScanState
  <2> QED
    BY <1>8, <2>1 DEF StopReset, ResetScanState, Phases
<1>9. CASE StopTest(c)
  BY <1>9 DEF StopTest
<1>10. CASE StopMask(c)
  BY <1>10 DEF StopMask
<1>11. ASSUME NEW at \in CallSites, NEW wait \in CallSites, NEW next \in CallSites,
             Silence(c, at, wait, next)
       PROVE  TypeOK'
  BY <1>11 DEF Silence, AirStates
<1>12. ASSUME NEW wait \in CallSites, NEW next \in CallSites,
              DisableSeen(c, wait, next)
       PROVE  TypeOK'
  <2>1. disabledEvt' \in BOOLEAN
    BY <1>12, Zenon DEF DisableSeen
  <2> QED
    BY <1>12, <2>1 DEF DisableSeen
<1>13. CASE HangupSample(c)
  BY <1>13 DEF HangupSample
<1>14. CASE HangupUnlink(c)
  <2>1. connected' \in BOOLEAN
    BY <1>14, Zenon DEF HangupUnlink
  <2> QED
    BY <1>14, <2>1 DEF HangupUnlink
<1>15. CASE HangupClear(c)
  <2>1. scanReq' \in BOOLEAN /\ connectReq' \in BOOLEAN /\ scanning' \in BOOLEAN
    BY <1>15, Zenon DEF HangupClear, StateReset, ResetScanState
  <2>2. phase' \in Phases /\ candidate' \in Peers \union {None}
    BY <1>15 DEF HangupClear, StateReset, ResetScanState, Phases
  <2>3. NewsType'
    BY <1>15, Posting, Kinds DEF HangupClear, NewsType
  <2>4. asked' \in [peer : Peers, connectable : BOOLEAN] \union {NotAsked}
    BY <1>15 DEF HangupClear, StateReset, ResetScanState
  <2> QED
    BY <1>15, <2>1, <2>2, <2>3, <2>4 DEF HangupClear, NewsType
<1> QED
  BY <1>1, <1>2, <1>3, <1>4, <1>5, <1>6, <1>7, <1>8, <1>9, <1>10, <1>11, <1>12,
     <1>13, <1>14, <1>15 DEF Call

\* What a report says.
LEMMA Records ==
    \A p \in Peers, b \in BOOLEAN :
        [peer |-> p, rsp |-> b] \in [peer : Peers \union {None}, rsp : BOOLEAN]
BY Zenon

\* DISABLED keeps the types.
LEMMA DisabledType ==
    ASSUME TypeOK, NEW next \in AirStates, NEW end \in BOOLEAN,
           Disabled(next, end), disabledEvt' \in BOOLEAN
    PROVE  TypeOK'
<1> USE DEF TypeOK, scanVars, pendVars, callVars, Phases, AirStates
<1>1. CASE Hears
  <2>1. HandleScanDisabled(next)
    BY <1>1 DEF Disabled
  <2>2. /\ phase' \in Phases /\ air' \in AirStates
        /\ asked' \in [peer : Peers, connectable : BOOLEAN] \union {NotAsked}
        /\ candidate' \in Peers \union {None}
        /\ mask' \in {"off", "scan", "conn"}
        /\ config' \in {"scan", "connect", "link"}
    BY <2>1 DEF HandleScanDisabled, ResetScanState, ApplyConnectRequest
  <2>3. /\ scanReq' \in BOOLEAN /\ connectReq' \in BOOLEAN /\ window' \in BOOLEAN
        /\ connected' \in BOOLEAN /\ scanning' \in BOOLEAN /\ reached' \in BOOLEAN
    BY <2>1, Zenon DEF HandleScanDisabled, ResetScanState, ApplyConnectRequest
  <2>4. endEvt' \in BOOLEAN
    BY Zenon DEF Disabled
  <2> HIDE DEF Phases, AirStates
  <2> QED
    BY <2>2, <2>3, <2>4 DEF Disabled
<1>2. CASE ~Hears
  BY <1>2 DEF Disabled
<1> QED
  BY <1>1, <1>2

\* What a report's callback may call keeps the types.
LEMMA EntersType ==
    ASSUME TypeOK, NEW c \in Contexts, NEW site \in CallSites, Enters(c, site),
           NewsType',
           wanted' \in [Contexts -> [filter : Filters, start : BOOLEAN]]
    PROVE  TypeOK'
BY GotoType DEF Enters, NewsType, TypeOK, scanVars, pendVars, radioVars, historyVars

\* Every variable keeps its type: in particular the scan phase and what is
\* remembered of the advertiser that was asked stay among their values.
THEOREM TypeCorrect == Spec => []TypeOK
<1>1. Init => TypeOK
  <2> SUFFICES ASSUME Init PROVE TypeOK
    OBVIOUS
  <2>1. /\ scanning \in BOOLEAN /\ timer \in BOOLEAN /\ window \in BOOLEAN
        /\ scanReq \in BOOLEAN /\ connectReq \in BOOLEAN /\ connected \in BOOLEAN
        /\ endEvt \in BOOLEAN /\ disabledEvt \in BOOLEAN /\ reached \in BOOLEAN
        /\ doubled \in BOOLEAN
        /\ was \in [Contexts -> BOOLEAN]
    BY Zenon DEF Init
  <2>2. /\ NoFilter \in Filters /\ TargetFilter \in Filters
        /\ TargetScan \in [filter : Filters, start : BOOLEAN]
    BY DEF Filters, TargetScan
  <2>3. pc \in [Contexts -> CallSites]
    BY Sites DEF Init
  <2>4. NewsType
    BY QueueAssumption DEF Init, NewsType, Events
  <2> QED
    BY <2>1, <2>2, <2>3, <2>4 DEF Init, NewsType, TypeOK, Phases, AirStates
<1>2. TypeOK /\ [Next]_vars => TypeOK'
  <2> SUFFICES ASSUME TypeOK, [Next]_vars PROVE TypeOK'
    OBVIOUS
  <2> USE DEF scanVars, pendVars, radioVars, callVars, historyVars
  <2>1. CASE ScanTimerFires
    <3>1. window' \in BOOLEAN /\ endEvt' \in BOOLEAN
      BY <2>1, Zenon DEF ScanTimerFires, ArmRx
    <3> QED
      BY <2>1, <3>1 DEF ScanTimerFires, ArmRx, TypeOK, Phases, AirStates
  <2>2. CASE WindowTimerFires
    <3>1. /\ window' \in BOOLEAN
          /\ scanReq' \in BOOLEAN /\ connectReq' \in BOOLEAN
      BY <2>2, Zenon DEF WindowTimerFires, ResetScanState, TypeOK
    <3> QED
      BY <2>2, <3>1
         DEF WindowTimerFires, ResetScanState, TypeOK, Phases, AirStates
  <2>3. ASSUME NEW p \in Peers, NEW type \in AdvTypes, NEW meets \in BOOLEAN,
               AdvReceived(p, type, meets)
        PROVE  TypeOK'
    <3>1. /\ timer' \in BOOLEAN /\ scanning' \in BOOLEAN /\ endEvt' \in BOOLEAN
          /\ scanReq' \in BOOLEAN /\ connectReq' \in BOOLEAN
      BY <2>3, Zenon DEF AdvReceived, HandleAdv, TypeOK
    <3>2. reported' \in [peer : Peers \union {None}, rsp : BOOLEAN]
      <4>1. CASE Hears /\ phase = "rx"
        BY <2>3, <4>1, Records DEF AdvReceived, HandleAdv, Report
      <4>2. CASE ~(Hears /\ phase = "rx")
        BY <2>3, <4>2 DEF AdvReceived, TypeOK
      <4> QED
        BY <4>1, <4>2
    <3>3. asked' \in [peer : Peers, connectable : BOOLEAN] \union {NotAsked}
      <4>1. (type \in Connectable) \in BOOLEAN
        OBVIOUS
      <4>2. \/ asked' = [peer |-> p, connectable |-> type \in Connectable]
            \/ asked' = asked
        BY <2>3, Zenon DEF AdvReceived, HandleAdv
      <4>3. [peer |-> p, connectable |-> type \in Connectable]
                \in [peer : Peers, connectable : BOOLEAN]
        BY <4>1, Zenon
      <4> QED
        BY <4>2, <4>3 DEF TypeOK
    <3>4. NewsType'
      <4>1. news' = news \/ Post("report")
        BY <2>3 DEF AdvReceived, HandleAdv, Report
      <4> QED
        BY <4>1, Posting, Kinds DEF NewsType, TypeOK
    <3> QED
      BY <2>3, <3>1, <3>2, <3>3, <3>4
         DEF AdvReceived, HandleAdv, NewsType, TypeOK, AirStates
  <2>4. ASSUME NEW p \in Peers, NEW meets \in BOOLEAN, ScanRspReceived(p, meets)
        PROVE  TypeOK'
    <3>1. endEvt' \in BOOLEAN
      BY <2>4, Zenon DEF ScanRspReceived
    <3>2. reported' \in [peer : Peers \union {None}, rsp : BOOLEAN]
      <4>1. reported' = [peer |-> p, rsp |-> TRUE] \/ reported' = reported
        BY <2>4, Zenon DEF ScanRspReceived, HandleScanRsp, Report
      <4> QED
        BY <4>1, Records DEF TypeOK
    <3>3. candidate' \in Peers \union {None} /\ vouched' \in Filters
      BY <2>4 DEF ScanRspReceived, HandleScanRsp, TypeOK
    <3>5. NewsType'
      <4>1. news' = news \/ Post("report")
        BY <2>4 DEF ScanRspReceived, HandleScanRsp, Report
      <4> QED
        BY <4>1, Posting, Kinds DEF NewsType, TypeOK
    <3>4. air' \in AirStates
      BY <2>4 DEF ScanRspReceived, AirStates
    <3> QED
      BY <2>4, <3>1, <3>2, <3>3, <3>4, <3>5 DEF ScanRspReceived, NewsType, TypeOK
  <2>5. CASE OtherReceived
    BY <2>5 DEF OtherReceived, TypeOK, AirStates
  <2>6. CASE Completions \/ DisabledCleared
    <3>1. "off" \in AirStates /\ "rspRx" \in AirStates
      BY DEF AirStates
    <3>2. endEvt \in BOOLEAN /\ disabledEvt \in BOOLEAN
      BY DEF TypeOK
    <3>3. CASE RxDisabled
      BY <3>1, <3>2, <3>3, DisabledType DEF RxDisabled
    <3>4. CASE ReqTxDisabled
      BY <3>1, <3>2, <3>4, DisabledType DEF ReqTxDisabled
    <3>5. CASE ConnTxDisabled
      BY <3>1, <3>2, <3>5, DisabledType DEF ConnTxDisabled
    <3>6. CASE DisabledCleared
      BY <3>1, <3>2, <3>6, DisabledType DEF DisabledCleared
    <3> QED
      BY <2>6, <3>3, <3>4, <3>5, <3>6 DEF Completions
  <2>7. CASE LinkLost
    <3>1. NewsType'
      BY <2>7, Posting, Kinds DEF LinkLost, NewsType
    <3>2. /\ connected' \in BOOLEAN /\ timer' \in BOOLEAN /\ window' \in BOOLEAN
          /\ scanning' \in BOOLEAN /\ scanReq' \in BOOLEAN /\ connectReq' \in BOOLEAN
          /\ doubled' \in BOOLEAN
      BY <2>7, Zenon DEF LinkLost, StateReset, ResetScanState
    <3> QED
      BY <2>7, <3>1, <3>2
         DEF LinkLost, StateReset, ResetScanState, NewsType, TypeOK, Phases, AirStates
  <2>8. ASSUME NEW c \in Contexts, Call(c) PROVE TypeOK'
    BY <2>8, CallType
  <2>9. CASE MainCalls
    <3>1. "main" \in Contexts /\ {"stop", "start", "hangup"} \subseteq CallSites
      BY DEF Contexts, CallSites, StartSites, StopSites, HangupSites
    <3>2. /\ NewsType'
          /\ wanted' \in [Contexts -> [filter : Filters, start : BOOLEAN]]
      BY <2>9 DEF MainCalls, NewsType, TypeOK
    <3> QED
      BY <2>9, <3>1, <3>2, EntersType DEF MainCalls
  <2>10. CASE Callbacks
    <3>1. /\ "swi" \in Contexts
          /\ {"idle", "stop", "hangup", "filter"} \subseteq CallSites
      BY DEF Contexts, CallSites, StartSites, StopSites, HangupSites
    <3>2. NewsType'
      BY <2>10, Taking, Kinds DEF Callbacks, ReportCallback, DisconnectedCallback, NewsType
    <3>3. wanted' \in [Contexts -> [filter : Filters, start : BOOLEAN]]
      <4>1. /\ TargetScan \in [filter : Filters, start : BOOLEAN]
            /\ \A p \in Peers : AddressFilter(p) \in Filters
        BY DEF TargetScan, Filters
      <4>2. \A w \in [filter : Filters, start : BOOLEAN] :
                [wanted EXCEPT !["swi"] = w]
                    \in [Contexts -> [filter : Filters, start : BOOLEAN]]
        BY DEF TypeOK
      <4>3. CASE ReportCallback
        <5>1. \A f \in Filters, b \in BOOLEAN :
                  [filter |-> f, start |-> b] \in [filter : Filters, start : BOOLEAN]
          BY Zenon
        <5>2. \/ wanted' = wanted
              \/ \E f \in Filters, b \in BOOLEAN :
                     wanted' = [wanted EXCEPT !["swi"] = [filter |-> f, start |-> b]]
          BY <4>1, <4>3, Zenon DEF ReportCallback
        <5> QED
          BY <4>2, <5>1, <5>2 DEF TypeOK
      <4>4. CASE DisconnectedCallback
        BY <4>1, <4>2, <4>4 DEF DisconnectedCallback, TypeOK
      <4> QED
        BY <2>10, <4>3, <4>4 DEF Callbacks
    <3> QED
      BY <2>10, <3>1, <3>2, <3>3, EntersType
         DEF Callbacks, ReportCallback, DisconnectedCallback
  <2>11. CASE UNCHANGED vars
    BY <2>11 DEF vars, TypeOK
  <2> QED
    BY <2>1, <2>2, <2>3, <2>4, <2>5, <2>6, <2>7, <2>8, <2>9, <2>10, <2>11
       DEF Next, Timers, Receptions
<1> QED
  BY <1>1, <1>2, PTL DEF Spec

-----------------------------------------------------------------------------
(***************************************************************************)
(* What is remembered of an advertiser.                                    *)
(***************************************************************************)

\* A step of a call, other than the two that set a filter and forget the
\* candidate, changes neither the filter nor what the candidate met.
LEMMA CallKeepsFilter ==
    ASSUME TypeOK, NEW c \in Contexts, Call(c),
           ~SetFilter(c), ~ForgetCandidate(c)
    PROVE  /\ UNCHANGED <<filter, vouched>>
           /\ candidate' \in {candidate, None}
           /\ pc[c] # "forget" /\ \A d \in Contexts \ {c} : pc'[d] = pc[d]
<1> USE DEF TypeOK, scanVars, historyVars, Goto
<1>1. CASE StartTest(c) \/ StartConfig(c) \/ StartArm(c) \/ StartWindow(c)
  BY <1>1 DEF StartTest, StartConfig, StartArm, StartWindow
<1>2. CASE StopTimers(c) \/ StopReset(c) \/ StopTest(c) \/ StopMask(c)
  BY <1>2 DEF StopTimers, StopReset, StopTest, StopMask
<1>3. CASE HangupSample(c) \/ HangupUnlink(c) \/ HangupClear(c)
  BY <1>3 DEF HangupSample, HangupUnlink, HangupClear, StateReset
<1>4. CASE \/ Silence(c, "silence", "spin", "quiet")
           \/ Silence(c, "hangSilence", "hangSpin", "clear")
  BY <1>4 DEF Silence
<1>5. CASE \/ DisableSeen(c, "spin", "quiet")
           \/ DisableSeen(c, "hangSpin", "clear")
  BY <1>5 DEF DisableSeen
<1> QED
  BY <1>1, <1>2, <1>3, <1>4, <1>5 DEF Call

\* What DISABLED does to the variables of a scan.
LEMMA DisabledScan ==
    ASSUME Completions \/ DisabledCleared
    PROVE  /\ UNCHANGED <<app, timer, target, filter, news, pc, was, wanted,
                          reported, vouched, doubled>>
           /\ candidate' \in {candidate, None}
BY DEF Completions, RxDisabled, ReqTxDisabled, ConnTxDisabled, DisabledCleared,
       Disabled, HandleScanDisabled, ApplyConnectRequest, callVars

\* The candidate is one that the filter in force admits: the filter's change and
\* the forgetting of the candidate are two steps, and RADIO may set a candidate
\* before, between and after them.
THEOREM CandidateKept == Spec => []CandidateCurrent
<1>1. Init => CandidateCurrent
  BY DEF Init, CandidateCurrent
<1>2. TypeOK /\ CandidateCurrent /\ [Next]_vars => CandidateCurrent'
  <2> SUFFICES ASSUME TypeOK, CandidateCurrent, [Next]_vars
               PROVE  CandidateCurrent'
    OBVIOUS
  <2> USE DEF CandidateCurrent, scanVars, callVars, historyVars
  <2>1. CASE Timers
    BY <2>1 DEF Timers, ScanTimerFires, WindowTimerFires
  <2>2. ASSUME NEW p \in Peers, NEW type \in AdvTypes, NEW meets \in BOOLEAN,
               AdvReceived(p, type, meets)
        PROVE  CandidateCurrent'
    BY <2>2 DEF AdvReceived, HandleAdv
  <2>3. ASSUME NEW p \in Peers, NEW meets \in BOOLEAN, ScanRspReceived(p, meets)
        PROVE  CandidateCurrent'
    BY <2>3 DEF ScanRspReceived, HandleScanRsp
  <2>4. CASE OtherReceived
    BY <2>4 DEF OtherReceived
  <2>5. CASE Completions \/ DisabledCleared
    BY <2>5, DisabledScan
  <2>6. CASE LinkLost
    BY <2>6 DEF LinkLost, StateReset
  <2>7. ASSUME NEW c \in Contexts, Call(c) PROVE CandidateCurrent'
    <3>1. CASE SetFilter(c)
      BY <3>1 DEF SetFilter, Goto, TypeOK
    <3>2. CASE ForgetCandidate(c)
      BY <3>2 DEF ForgetCandidate
    <3>3. CASE ~SetFilter(c) /\ ~ForgetCandidate(c)
      BY <2>7, <3>3, CallKeepsFilter
    <3> QED
      BY <3>1, <3>2, <3>3
  <2>8. CASE MainCalls
    BY <2>8 DEF MainCalls, Enters, Goto, TypeOK, Contexts
  <2>9. CASE Callbacks
    BY <2>9 DEF Callbacks, ReportCallback, DisconnectedCallback, Enters, Goto,
                LevelFree, TypeOK, Contexts
  <2>10. CASE UNCHANGED vars
    BY <2>10 DEF vars
  <2> QED
    BY <2>1, <2>2, <2>3, <2>4, <2>5, <2>6, <2>7, <2>8, <2>9, <2>10
       DEF Next, Receptions
<1> QED
  BY <1>1, <1>2, TypeCorrect, PTL DEF Spec

-----------------------------------------------------------------------------
(***************************************************************************)
(* Scan responses.                                                         *)
(***************************************************************************)

\* What a step of a call does to what waits for a scan response: nothing, or a
\* reset, or the opening of a window.
LEMMA CallPending ==
    ASSUME NEW c \in Contexts, Call(c)
    PROVE  /\ UNCHANGED reported
           /\ \/ UNCHANGED <<phase, air, scanReq, asked>>
              \/ UNCHANGED <<phase, scanReq, asked>> /\ air' = "off"
              \/ phase = "idle" /\ UNCHANGED <<scanReq, asked>> /\ phase' = "rx"
              \/ phase' = "idle" /\ ~scanReq' /\ asked'.peer = None
<1> USE DEF scanVars, pendVars, radioVars, historyVars
<1>1. CASE SetFilter(c) \/ ForgetCandidate(c)
  BY <1>1 DEF SetFilter, ForgetCandidate
<1>2. CASE StartTest(c) \/ StartConfig(c) \/ StartArm(c) \/ StartWindow(c)
  BY <1>2 DEF StartTest, StartConfig, StartArm, StartWindow, MayArm, ArmRx
<1>3. CASE StopTimers(c) \/ StopReset(c) \/ StopTest(c) \/ StopMask(c)
  BY <1>3 DEF StopTimers, StopReset, StopTest, StopMask, ResetScanState, NotAsked
<1>4. CASE HangupSample(c) \/ HangupUnlink(c) \/ HangupClear(c)
  BY <1>4 DEF HangupSample, HangupUnlink, HangupClear, StateReset,
              ResetScanState, NotAsked
<1>5. CASE \/ Silence(c, "silence", "spin", "quiet")
           \/ Silence(c, "hangSilence", "hangSpin", "clear")
  BY <1>5 DEF Silence
<1>6. CASE \/ DisableSeen(c, "spin", "quiet")
           \/ DisableSeen(c, "hangSpin", "clear")
  BY <1>6 DEF DisableSeen
<1> QED
  BY <1>1, <1>2, <1>3, <1>4, <1>5, <1>6 DEF Call

\* What DISABLED does to it: the phase moves on with the radio, or is reset, or
\* only the radio stops or goes on.
LEMMA DisabledPending ==
    ASSUME Completions \/ DisabledCleared
    PROVE  \/ /\ phase = "rx" /\ phase' = "connTx" /\ air' = "connTx"
              /\ UNCHANGED asked
           \/ /\ phase = "rx" /\ scanReq /\ phase' = "reqTx"
              /\ UNCHANGED asked
           \/ /\ phase = "reqTx" /\ phase' = "rspRx"
              /\ air' = "off" \/ (air = "reqTx" /\ air' = "rspRx")
              /\ UNCHANGED asked
           \/ phase' = "idle" /\ ~scanReq' /\ asked'.peer = None
           \/ /\ UNCHANGED <<phase, scanReq, asked>>
              /\ air' = "off" \/ (air = "reqTx" /\ air' = "rspRx")
<1> USE DEF pendVars, NotAsked, Disabled, HandleScanDisabled, ResetScanState,
            ApplyConnectRequest
<1>1. CASE RxDisabled
  BY <1>1 DEF RxDisabled
<1>2. CASE ReqTxDisabled
  BY <1>2 DEF ReqTxDisabled
<1>3. CASE ConnTxDisabled
  BY <1>3 DEF ConnTxDisabled
<1>4. CASE DisabledCleared
  BY <1>4 DEF DisabledCleared
<1> QED
  BY <1>1, <1>2, <1>3, <1>4 DEF Completions

LEMMA ResponseKept == Spec => []ResponseInv
<1>1. Init => ResponseInv
  BY DEF Init, ResponseInv, NotAsked
<1>2. ResponseInv /\ [Next]_vars => ResponseInv'
  <2> SUFFICES ASSUME ResponseInv, [Next]_vars PROVE ResponseInv'
    OBVIOUS
  <2> USE DEF ResponseInv, pendVars, historyVars
  <2>1. CASE ScanTimerFires
    BY <2>1 DEF ScanTimerFires, MayArm, ArmRx
  <2>2. CASE WindowTimerFires
    BY <2>2 DEF WindowTimerFires, ResetScanState, NotAsked
  <2>3. ASSUME NEW p \in Peers, NEW type \in AdvTypes, NEW meets \in BOOLEAN,
               AdvReceived(p, type, meets)
        PROVE  ResponseInv'
    BY <2>3 DEF AdvReceived, HandleAdv, Report
  <2>4. ASSUME NEW p \in Peers, NEW meets \in BOOLEAN, ScanRspReceived(p, meets)
        PROVE  ResponseInv'
    BY <2>4 DEF ScanRspReceived, HandleScanRsp
  <2>5. CASE OtherReceived
    BY <2>5 DEF OtherReceived
  <2>6. CASE Completions \/ DisabledCleared
    BY <2>6, DisabledPending, DisabledScan
  <2>7. CASE LinkLost
    BY <2>7 DEF LinkLost, StateReset, ResetScanState, NotAsked
  <2>8. ASSUME NEW c \in Contexts, Call(c) PROVE ResponseInv'
    BY <2>8, CallPending
  <2>9. CASE MainCalls \/ Callbacks
    BY <2>9 DEF MainCalls, Callbacks, ReportCallback, DisconnectedCallback,
                Enters, radioVars
  <2>10. CASE UNCHANGED vars
    BY <2>10 DEF vars, radioVars
  <2> QED
    BY <2>1, <2>2, <2>3, <2>4, <2>5, <2>6, <2>7, <2>8, <2>9, <2>10
       DEF Next, Timers, Receptions
<1> QED
  BY <1>1, <1>2, PTL DEF Spec

\* A scan response is reported right after the advertisement that it completes:
\* no other report comes between the two, whatever the application calls.
THEOREM ResponseOrder == Spec => ResponseFollowsReport
<1>1. ResponseInv /\ [Next]_vars =>
          [reported' # reported /\ reported'.rsp =>
              reported = [peer |-> reported'.peer, rsp |-> FALSE]]_vars
  <2> SUFFICES ASSUME ResponseInv, Next, reported' # reported, reported'.rsp
               PROVE  reported = [peer |-> reported'.peer, rsp |-> FALSE]
    OBVIOUS
  <2> USE DEF historyVars
  <2>1. CASE Timers \/ OtherReceived \/ LinkLost
    BY <2>1 DEF Timers, ScanTimerFires, WindowTimerFires, OtherReceived, LinkLost
  <2>2. ASSUME NEW p \in Peers, NEW type \in AdvTypes, NEW meets \in BOOLEAN,
               AdvReceived(p, type, meets)
        PROVE  FALSE
    BY <2>2 DEF AdvReceived, HandleAdv, Report
  <2>3. ASSUME NEW p \in Peers, NEW meets \in BOOLEAN, ScanRspReceived(p, meets)
        PROVE  reported = [peer |-> reported'.peer, rsp |-> FALSE]
    <3>1. /\ phase = "rspRx" /\ air = "rspRx" /\ asked.peer = p
          /\ reported' = [peer |-> p, rsp |-> TRUE]
      BY <2>3 DEF ScanRspReceived, HandleScanRsp, Report
    <3>2. p # None
      BY PeersAssumption
    <3> QED
      BY <3>1, <3>2 DEF ResponseInv
  <2>4. CASE Completions \/ DisabledCleared
    BY <2>4, DisabledScan
  <2>5. ASSUME NEW c \in Contexts, Call(c) PROVE FALSE
    BY <2>5, CallPending
  <2>6. CASE MainCalls \/ Callbacks
    BY <2>6 DEF MainCalls, Callbacks, ReportCallback, DisconnectedCallback, Enters
  <2> QED
    BY <2>1, <2>2, <2>3, <2>4, <2>5, <2>6 DEF Next, Receptions
<1> QED
  BY <1>1, ResponseKept, PTL DEF Spec, ResponseFollowsReport

-----------------------------------------------------------------------------
(***************************************************************************)
(* Applications that stop and hang up in callbacks only.                   *)
(***************************************************************************)

\* The two contexts: where the callback or the main loop goes.
LEMMA Moves ==
    ASSUME TypeOK, NEW c \in Contexts, NEW site, Goto(c, site)
    PROVE  /\ c = "main" \/ c = "swi"
           /\ pc'[c] = site
           /\ c = "main" => pc'["swi"] = pc["swi"]
           /\ c = "swi" => pc'["main"] = pc["main"]
BY DEF TypeOK, Goto, Contexts

\* RADIO's handlers keep the radio in step with the phase.
LEMMA RadioInStep ==
    ASSUME TypeOK, RadioInv, Receptions \/ Completions \/ DisabledCleared \/ LinkLost
    PROVE  RadioInv'
<1> USE DEF RadioInv, InStep, Draining, Hears, callVars, pendVars,
            StartSites, StopSites, HangupSites
<1>1. ASSUME NEW p \in Peers, NEW type \in AdvTypes, NEW meets \in BOOLEAN,
             AdvReceived(p, type, meets)
      PROVE  RadioInv'
  BY <1>1 DEF AdvReceived
<1>2. ASSUME NEW p \in Peers, NEW meets \in BOOLEAN, ScanRspReceived(p, meets)
      PROVE  RadioInv'
  BY <1>2 DEF ScanRspReceived
<1>3. CASE OtherReceived
  BY <1>3 DEF OtherReceived
<1> USE DEF Disabled, HandleScanDisabled, ResetScanState, ApplyConnectRequest
<1>4. CASE RxDisabled
  BY <1>4 DEF RxDisabled
<1>5. CASE ReqTxDisabled
  <2>1. phase \in Phases
    BY DEF TypeOK
  <2> QED
    BY <1>5, <2>1 DEF ReqTxDisabled, Phases
<1>6. CASE ConnTxDisabled
  BY <1>6 DEF ConnTxDisabled
<1>7. CASE DisabledCleared
  BY <1>7 DEF DisabledCleared
<1>8. CASE LinkLost
  BY <1>8 DEF LinkLost, StateReset
<1> QED
  BY <1>1, <1>2, <1>3, <1>4, <1>5, <1>6, <1>7, <1>8 DEF Receptions, Completions

\* So do the timers, which fire only while no callback runs, ...
LEMMA TimersInStep ==
    ASSUME RadioInv, Timers
    PROVE  RadioInv'
<1> USE DEF RadioInv, InStep, Draining, LevelFree, callVars, pendVars,
            StopSites, HangupSites
<1>1. CASE ScanTimerFires
  BY <1>1 DEF ScanTimerFires, MayArm, ArmRx
<1>2. CASE WindowTimerFires
  BY <1>2 DEF WindowTimerFires, InWindow, ResetScanState
<1> QED
  BY <1>1, <1>2 DEF Timers

\* ... and the steps of the calls.
LEMMA CallInStep ==
    ASSUME TypeOK, EndsInCallbacks, RadioInv, NEW c \in Contexts, Call(c)
    PROVE  RadioInv'
<1> USE DEF RadioInv, InStep, Draining, Runs, LevelFree, radioVars, pendVars,
            StartSites, StopSites, HangupSites
<1>1. CASE SetFilter(c) \/ ForgetCandidate(c) \/ StartTest(c) \/ StartWindow(c)
  BY <1>1, Moves DEF SetFilter, ForgetCandidate, StartTest, StartWindow
<1>2. CASE StartConfig(c)
  BY <1>2, Moves DEF StartConfig
<1>3. CASE StartArm(c)
  BY <1>3, Moves DEF StartArm, MayArm, ArmRx
<1>4. CASE StopTimers(c) \/ StopTest(c)
  BY <1>4, Moves DEF StopTimers, StopTest
<1>5. CASE StopReset(c)
  BY <1>5, Moves DEF StopReset, ResetScanState
<1>6. CASE StopMask(c)
  BY <1>6, Moves DEF StopMask
<1>7. CASE HangupSample(c) \/ HangupUnlink(c)
  BY <1>7, Moves DEF HangupSample, HangupUnlink
<1>8. CASE HangupClear(c)
  BY <1>8, Moves DEF HangupClear, StateReset, ResetScanState
<1>9. CASE Silence(c, "silence", "spin", "quiet")
  BY <1>9, Moves DEF Silence
<1>10. CASE Silence(c, "hangSilence", "hangSpin", "clear")
  BY <1>10, Moves DEF Silence
<1>11. CASE DisableSeen(c, "spin", "quiet")
  BY <1>11, Moves DEF DisableSeen
<1>12. CASE DisableSeen(c, "hangSpin", "clear")
  BY <1>12, Moves DEF DisableSeen
<1> QED
  BY <1>1, <1>2, <1>3, <1>4, <1>5, <1>6, <1>7, <1>8, <1>9, <1>10, <1>11, <1>12
     DEF Call

\* The calls that such an application begins.
LEMMA EntersInStep ==
    ASSUME TypeOK, EndsInCallbacks, RadioInv, MainCalls \/ Callbacks
    PROVE  RadioInv'
<1> USE DEF RadioInv, InStep, Draining, LevelFree, Enters, radioVars, pendVars,
            StartSites, StopSites, HangupSites
<1>1. CASE MainCalls
  <2>1. "start" \in app /\ Enters("main", "start")
    BY <1>1 DEF MainCalls, EndsInCallbacks
  <2>2. "main" \in Contexts
    BY DEF Contexts
  <2> QED
    BY <2>1, <2>2, Moves
<1>2. CASE Callbacks
  <2>1. PICK site \in {"idle", "stop", "hangup", "filter"} :
            Enters("swi", site) /\ LevelFree /\ (site = "hangup" => connected)
    BY <1>2 DEF Callbacks, ReportCallback, DisconnectedCallback
  <2>2. "swi" \in Contexts
    BY DEF Contexts
  <2> QED
    BY <2>1, <2>2, Moves
<1> QED
  BY <1>1, <1>2

\* The application's habits never change, and only the loss of a link can be told
\* twice.
LEMMA HabitsKept ==
    ASSUME [Next]_vars
    PROVE  app' = app /\ (doubled' = doubled \/ (LinkLost /\ (doubled => doubled')))
<1> USE DEF historyVars
<1>1. ASSUME NEW c \in Contexts, Call(c) PROVE app' = app /\ doubled' = doubled
  BY <1>1 DEF Call, SetFilter, ForgetCandidate, StartTest, StartConfig, StartArm,
     StartWindow, StopTimers, StopReset, StopTest, StopMask, Silence, DisableSeen,
     HangupSample, HangupUnlink, HangupClear
<1>2. CASE Timers \/ Receptions \/ LinkLost
  BY <1>2 DEF Timers, ScanTimerFires, WindowTimerFires, Receptions, AdvReceived,
     ScanRspReceived, OtherReceived, LinkLost
<1>3. CASE MainCalls \/ Callbacks
  BY <1>3 DEF MainCalls, Callbacks, ReportCallback, DisconnectedCallback, Enters
<1>4. CASE UNCHANGED vars
  BY <1>4 DEF vars
<1> QED
  BY <1>1, <1>2, <1>3, <1>4, DisabledScan DEF Next

LEMMA RadioKept == Spec => [](EndsInCallbacks => RadioInv)
<1>1. Init => RadioInv
  BY DEF Init, RadioInv, InStep, Draining, Contexts, StartSites, StopSites,
         HangupSites
<1>2. /\ TypeOK
      /\ EndsInCallbacks => RadioInv
      /\ [Next]_vars
      => (EndsInCallbacks => RadioInv)'
  <2> SUFFICES ASSUME TypeOK, EndsInCallbacks, RadioInv, [Next]_vars
               PROVE  RadioInv'
    BY HabitsKept DEF EndsInCallbacks
  <2>1. CASE UNCHANGED vars
    BY <2>1 DEF vars, RadioInv, InStep, Draining, pendVars, radioVars, callVars
  <2> QED
    BY <2>1, RadioInStep, TimersInStep, CallInStep, EntersInStep DEF Next
<1> QED
  BY <1>1, <1>2, TypeCorrect, PTL DEF Spec

\* The phase is in step with the radio whenever no call is in progress, for an
\* application that ends scans and links in callbacks.
THEOREM PhaseKept == Spec => []PhaseInStep
<1>1. TypeOK /\ (EndsInCallbacks => RadioInv) => PhaseInStep
  BY DEF TypeOK, Phases, RadioInv, InStep, Draining, PhaseInStep, Quiet, Contexts
<1> QED
  BY <1>1, TypeCorrect, RadioKept, PTL

-----------------------------------------------------------------------------
(***************************************************************************)
(* Applications that, besides, start a scan only when they have no link.   *)
(***************************************************************************)

\* RADIO's handlers: the only way to a link is the CONNECT_REQ.
LEMMA RadioLinks ==
    ASSUME TypeOK, RadioInv, LinkInv, ~doubled',
           Receptions \/ Completions \/ DisabledCleared \/ LinkLost
    PROVE  LinkInv'
<1> USE Kinds DEF RadioInv, InStep, Draining, LinkInv, Unlinked, StartUnderWay,
            Hears, AtHangup, HangupSites, callVars, pendVars, historyVars
<1>1. ASSUME NEW p \in Peers, NEW type \in AdvTypes, NEW meets \in BOOLEAN,
             AdvReceived(p, type, meets)
      PROVE  LinkInv'
  <2>1. news'["disconnected"] = news["disconnected"] /\ (NoNews /\ ~Hears => NoNews')
    <3>1. news' = news \/ (Hears /\ Post("report"))
      BY <1>1 DEF AdvReceived, HandleAdv, Report
    <3> QED
      BY <3>1, Posting DEF NoNews
  <2> QED
    BY <1>1, <2>1 DEF AdvReceived, HandleAdv
<1>2. ASSUME NEW p \in Peers, NEW meets \in BOOLEAN, ScanRspReceived(p, meets)
      PROVE  LinkInv'
  <2>1. news'["disconnected"] = news["disconnected"] /\ (NoNews /\ ~Hears => NoNews')
    <3>1. news' = news \/ (Hears /\ Post("report"))
      BY <1>2 DEF ScanRspReceived, HandleScanRsp, Report
    <3> QED
      BY <3>1, Posting DEF NoNews
  <2> QED
    BY <1>2, <2>1 DEF ScanRspReceived, HandleScanRsp
<1>3. CASE OtherReceived
  BY <1>3 DEF OtherReceived, scanVars
<1> USE DEF Disabled, HandleScanDisabled, ResetScanState, ApplyConnectRequest
<1>4. CASE RxDisabled
  BY <1>4 DEF RxDisabled
<1>5. CASE ReqTxDisabled
  BY <1>5 DEF ReqTxDisabled
<1>6. CASE ConnTxDisabled
  BY <1>6 DEF ConnTxDisabled
<1>7. CASE DisabledCleared
  BY <1>7 DEF DisabledCleared
<1>8. CASE LinkLost
  <2>1. news'["disconnected"] \in {0, 1}
    BY <1>8, Posting DEF LinkLost
  <2>2. ~AtHangup("swi") /\ ~StartUnderWay("swi") /\ ~StartUnderWay("main")
    BY <1>8 DEF LinkLost, Contexts
  <2> QED
    BY <1>8, <2>1, <2>2 DEF LinkLost, StateReset
<1> QED
  BY <1>1, <1>2, <1>3, <1>4, <1>5, <1>6, <1>7, <1>8 DEF Receptions, Completions

\* The timers open no window where a scan is about to be started.
LEMMA TimersLink ==
    ASSUME LinkInv, Timers
    PROVE  LinkInv'
<1> USE DEF LinkInv, Unlinked, StartUnderWay, LevelFree, scanVars, callVars,
            AtHangup, NoNews, pendVars, historyVars
<1>1. CASE ScanTimerFires
  BY <1>1 DEF ScanTimerFires, MayArm, ArmRx
<1>2. CASE WindowTimerFires
  BY <1>2 DEF WindowTimerFires, InWindow, ResetScanState
<1> QED
  BY <1>1, <1>2 DEF Timers

LEMMA CallLinks ==
    ASSUME TypeOK, RadioInv, LinkInv, NEW c \in Contexts, Call(c)
    PROVE  LinkInv'
<1> USE Kinds DEF LinkInv, AtHangup, NoNews, Unlinked, StartUnderWay, Runs,
            LevelFree, scanVars,
            radioVars, pendVars, historyVars
<1>1. CASE SetFilter(c)
  BY <1>1, Moves DEF SetFilter
<1>2. CASE ForgetCandidate(c)
  BY <1>2, Moves DEF ForgetCandidate
<1>3. CASE StartTest(c)
  BY <1>3, Moves DEF StartTest
<1>4. CASE StartConfig(c)
  BY <1>4, Moves DEF StartConfig
<1>5. CASE StartArm(c)
  BY <1>5, Moves DEF StartArm, MayArm, ArmRx
<1>6. CASE StartWindow(c) \/ StopTest(c) \/ StopMask(c)
  BY <1>6, Moves DEF StartWindow, StopTest, StopMask
<1>7. CASE StopTimers(c)
  BY <1>7, Moves DEF StopTimers
<1>8. CASE StopReset(c)
  BY <1>8, Moves DEF StopReset, ResetScanState
<1>9. CASE HangupSample(c)
  <2>1. was'[c] = connected /\ (c = "main" => was'["swi"] = was["swi"])
    BY <1>9 DEF HangupSample, TypeOK, Contexts
  <2> QED
    BY <1>9, <2>1, Moves DEF HangupSample
<1>10. CASE HangupUnlink(c)
  BY <1>10, Moves DEF HangupUnlink
<1>11. CASE HangupClear(c)
  <2>1. c = "swi"
    BY <1>11 DEF HangupClear, RadioInv, StartSites, Contexts
  <2>2. was["swi"] => news'["disconnected"] \in {0, 1}
    BY <1>11, <2>1, Posting DEF HangupClear
  <2> QED
    BY <1>11, <2>1, <2>2, Moves
       DEF HangupClear, StateReset, ResetScanState, RadioInv, StartSites, HangupSites
<1>12. CASE Silence(c, "silence", "spin", "quiet")
  BY <1>12, Moves DEF Silence
<1>13. CASE Silence(c, "hangSilence", "hangSpin", "clear")
  BY <1>13, Moves DEF Silence, RadioInv, StartSites
<1>14. CASE DisableSeen(c, "spin", "quiet")
  BY <1>14, Moves DEF DisableSeen
<1>15. CASE DisableSeen(c, "hangSpin", "clear")
  BY <1>15, Moves DEF DisableSeen, RadioInv, StartSites
<1> QED
  BY <1>1, <1>2, <1>3, <1>4, <1>5, <1>6, <1>7, <1>8, <1>9, <1>10, <1>11, <1>12,
     <1>13, <1>14, <1>15 DEF Call

\* A scan is started after DISCONNECTED, when there is neither link nor phase.
LEMMA EntersLink ==
    ASSUME TypeOK, EndsInCallbacks, StartsUnlinked, LinkInv, MainCalls \/ Callbacks
    PROVE  LinkInv'
<1> USE Kinds DEF LinkInv, AtHangup, NoNews, Unlinked, StartUnderWay, LevelFree,
            Enters, scanVars,
            radioVars, pendVars, historyVars
<1>1. ~MainCalls
  BY DEF MainCalls, EndsInCallbacks, StartsUnlinked
<1>2. "swi" \in Contexts
  BY DEF Contexts
<1>3. "main" \in Contexts /\ \A w : [wanted EXCEPT !["swi"] = w]["main"] = wanted["main"]
  BY DEF TypeOK, Contexts
<1>4. \A w : [wanted EXCEPT !["swi"] = w]["swi"] = w
  BY <1>2 DEF TypeOK
<1>5. CASE ReportCallback
  <2>1. /\ LevelFree /\ Take("report")
        /\ wanted'["main"] = wanted["main"]
        /\ \E site \in {"idle", "stop", "hangup", "filter"} :
               /\ Enters("swi", site)
               /\ site = "filter" => ~wanted'["swi"].start
    <3>1. "connect" \notin app
      BY DEF StartsUnlinked
    <3>2. CASE /\ UNCHANGED wanted
               /\ \E site \in {"idle", "stop", "hangup"} : Enters("swi", site)
      BY <1>5, <3>2 DEF ReportCallback
    <3>3. ASSUME NEW f \in Filters, Enters("swi", "filter"),
                 wanted' = [wanted EXCEPT !["swi"] = [filter |-> f, start |-> FALSE]]
          PROVE  /\ wanted'["main"] = wanted["main"]
                 /\ ~wanted'["swi"].start
      BY <1>3, <1>4, <3>3
    <3> QED
      BY <1>5, <3>1, <3>2, <3>3 DEF ReportCallback
  <2>2. PICK site \in {"idle", "stop", "hangup", "filter"} :
            Enters("swi", site) /\ (site = "filter" => ~wanted'["swi"].start)
    BY <2>1
  <2>3. news["report"] > 0 /\ news'["disconnected"] = news["disconnected"]
    BY <2>1, Taking
  <2> QED
    BY <1>2, <2>1, <2>2, <2>3, Moves
<1>6. CASE DisconnectedCallback
  <2>1. /\ LevelFree /\ Take("disconnected")
        /\ wanted'["main"] = wanted["main"]
    BY <1>3, <1>6 DEF DisconnectedCallback
  <2>2. PICK site \in {"idle", "filter"} : Enters("swi", site)
    BY <1>6 DEF DisconnectedCallback
  <2>3. news["disconnected"] > 0 /\ news'["disconnected"] = news["disconnected"] - 1
    BY <2>1, Taking
  <2> QED
    BY <1>2, <2>1, <2>2, <2>3, Moves
<1> QED
  BY <1>1, <1>5, <1>6 DEF Callbacks

LEMMA LinkKept ==
    Spec => [](EndsInCallbacks /\ StartsUnlinked /\ ~doubled => LinkInv)
<1>1. Init => LinkInv
  BY DEF Init, LinkInv, AtHangup, HangupSites, NoNews, Events, Unlinked,
         StartUnderWay, Contexts
<1>2. /\ TypeOK
      /\ EndsInCallbacks => RadioInv
      /\ EndsInCallbacks /\ StartsUnlinked /\ ~doubled => LinkInv
      /\ [Next]_vars
      => (EndsInCallbacks /\ StartsUnlinked /\ ~doubled => LinkInv)'
  <2> SUFFICES ASSUME TypeOK, EndsInCallbacks, StartsUnlinked, RadioInv, LinkInv,
                      ~doubled', [Next]_vars
               PROVE  LinkInv'
    BY HabitsKept DEF EndsInCallbacks, StartsUnlinked
  <2>1. CASE UNCHANGED vars
    BY <2>1 DEF vars, LinkInv, AtHangup, NoNews, Unlinked, StartUnderWay, scanVars,
                pendVars,
                radioVars, callVars, historyVars
  <2> QED
    BY <2>1, RadioLinks, TimersLink, CallLinks, EntersLink DEF Next
<1> QED
  BY <1>1, <1>2, TypeCorrect, RadioKept, PTL DEF Spec

\* For such an application every link is one whose CONNECT_REQ went out whole and
\* as it was built, whatever call or timer comes between the interrupts, until the
\* end of one is told twice.
THEOREM LinkIsReached == Spec => []LinkReached
<1>1. (EndsInCallbacks /\ StartsUnlinked /\ ~doubled => LinkInv) => LinkReached
  BY DEF LinkInv, LinkReached
<1> QED
  BY <1>1, LinkKept, PTL

-----------------------------------------------------------------------------
(***************************************************************************)
(* The timers of a scan.                                                   *)
(***************************************************************************)

\* RADIO's handlers end a window with the reception, and never open one.
LEMMA RadioWindow ==
    ASSUME TypeOK, WindowInv, Receptions \/ Completions \/ DisabledCleared \/ LinkLost
    PROVE  WindowInv'
<1> USE Kinds DEF WindowInv, AtHangup, Restarting, StartUnderWay, Hears, callVars,
            pendVars, scanVars, Contexts
<1>1. ASSUME NEW p \in Peers, NEW type \in AdvTypes, NEW meets \in BOOLEAN,
             AdvReceived(p, type, meets)
      PROVE  WindowInv'
  <2>1. news'["disconnected"] = news["disconnected"] /\ (~Hears => news' = news)
    <3>1. news' = news \/ (Hears /\ Post("report"))
      BY <1>1 DEF AdvReceived, HandleAdv, Report
    <3> QED
      BY <3>1, Posting
  <2> QED
    BY <1>1, <2>1 DEF AdvReceived, HandleAdv
<1>2. ASSUME NEW p \in Peers, NEW meets \in BOOLEAN, ScanRspReceived(p, meets)
      PROVE  WindowInv'
  <2>1. news'["disconnected"] = news["disconnected"] /\ (~Hears => news' = news)
    <3>1. news' = news \/ (Hears /\ Post("report"))
      BY <1>2 DEF ScanRspReceived, HandleScanRsp, Report
    <3> QED
      BY <3>1, Posting
  <2> QED
    BY <1>2, <2>1 DEF ScanRspReceived, HandleScanRsp
<1>3. CASE OtherReceived
  BY <1>3 DEF OtherReceived
<1> USE DEF Disabled, HandleScanDisabled, ResetScanState, ApplyConnectRequest
<1>4. CASE RxDisabled
  BY <1>4 DEF RxDisabled
<1>5. CASE ReqTxDisabled
  BY <1>5 DEF ReqTxDisabled
<1>6. CASE ConnTxDisabled
  BY <1>6 DEF ConnTxDisabled
<1>7. CASE DisabledCleared
  BY <1>7 DEF DisabledCleared
<1>8. CASE LinkLost
  <2>1. news'["report"] = news["report"]
    BY <1>8, Posting DEF LinkLost
  <2> QED
    BY <1>8, <2>1 DEF LinkLost, StateReset
<1> QED
  BY <1>1, <1>2, <1>3, <1>4, <1>5, <1>6, <1>7, <1>8 DEF Receptions, Completions

\* The window's timer finds the window it was started for.
LEMMA TimersWindow ==
    ASSUME WindowInv, Timers
    PROVE  WindowInv'
<1> USE DEF WindowInv, AtHangup, Restarting, StartUnderWay, LevelFree, callVars,
            pendVars, scanVars, Contexts
<1>1. CASE ScanTimerFires
  BY <1>1 DEF ScanTimerFires, MayArm, ArmRx
<1>2. CASE WindowTimerFires
  BY <1>2 DEF WindowTimerFires, InWindow, ResetScanState
<1> QED
  BY <1>1, <1>2 DEF Timers

LEMMA CallWindow ==
    ASSUME TypeOK, WindowInv, NEW c \in Contexts, Call(c)
    PROVE  WindowInv'
<1> USE Kinds DEF WindowInv, AtHangup, Restarting, StartUnderWay, Runs, LevelFree,
            NoNews, scanVars, radioVars, pendVars, Contexts
<1>1. CASE SetFilter(c)
  BY <1>1, Moves DEF SetFilter
<1>2. CASE ForgetCandidate(c)
  BY <1>2, Moves DEF ForgetCandidate
<1>3. CASE StartTest(c)
  BY <1>3, Moves DEF StartTest
<1>4. CASE StartConfig(c)
  BY <1>4, Moves DEF StartConfig
<1>5. CASE StartArm(c)
  BY <1>5, Moves DEF StartArm, MayArm, ArmRx
<1>6. CASE StartWindow(c)
  BY <1>6, Moves DEF StartWindow
<1>7. CASE StopTimers(c)
  BY <1>7, Moves DEF StopTimers
<1>8. CASE StopReset(c)
  BY <1>8, Moves DEF StopReset, ResetScanState
<1>9. CASE HangupSample(c)
  BY <1>9, Moves DEF HangupSample, TypeOK
<1>10. CASE HangupUnlink(c)
  BY <1>10, Moves DEF HangupUnlink
<1>11. CASE HangupClear(c)
  <2>1. was[c] /\ c = "main" => news'["disconnected"] = 1
    BY <1>11, Posting DEF HangupClear
  <2>2. news'["report"] = news["report"]
    BY <1>11, Posting DEF HangupClear
  <2> QED
    BY <1>11, <2>1, <2>2, Moves DEF HangupClear, StateReset, ResetScanState
<1>12. CASE Silence(c, "silence", "spin", "quiet")
  BY <1>12, Moves DEF Silence
<1>13. CASE Silence(c, "hangSilence", "hangSpin", "clear")
  BY <1>13, Moves DEF Silence
<1>14. CASE DisableSeen(c, "spin", "quiet")
  BY <1>14, Moves DEF DisableSeen
<1>15. CASE DisableSeen(c, "hangSpin", "clear")
  BY <1>15, Moves DEF DisableSeen
<1>16. CASE StopTest(c)
  BY <1>16, Moves DEF StopTest
<1>17. CASE StopMask(c)
  BY <1>17, Moves DEF StopMask
<1> QED
  BY <1>1, <1>2, <1>3, <1>4, <1>5, <1>6, <1>7, <1>8, <1>9, <1>10, <1>11, <1>12,
     <1>13, <1>14, <1>15, <1>16, <1>17 DEF Call

\* The calls that an application begins.  None but the one that DISCONNECTED
\* brings touches a window that was reset.
LEMMA EntersWindow ==
    ASSUME TypeOK, WindowInv, MainCalls \/ Callbacks
    PROVE  WindowInv'
<1> USE Kinds DEF WindowInv, AtHangup, Restarting, StartUnderWay, LevelFree, Runs,
            NoNews, Enters, scanVars, radioVars, pendVars, Contexts
<1>1. CASE MainCalls
  <2>1. PICK site \in {"stop", "start", "hangup"} : Enters("main", site)
    BY <1>1 DEF MainCalls
  <2> QED
    BY <1>1, <2>1, Moves DEF MainCalls
<1>2. CASE ReportCallback
  <2>1. PICK site \in {"idle", "stop", "hangup", "filter"} :
            Enters("swi", site) /\ (site = "hangup" => connected)
    BY <1>2 DEF ReportCallback
  <2>2. news["report"] > 0 /\ news'["disconnected"] = news["disconnected"]
    BY <1>2, Taking DEF ReportCallback
  <2> QED
    BY <1>2, <2>1, <2>2, Moves DEF ReportCallback
<1>3. CASE DisconnectedCallback
  <2>1. PICK site \in {"idle", "filter"} : Enters("swi", site)
    BY <1>3 DEF DisconnectedCallback
  <2>2. "restart" \in app => site = "filter" /\ wanted'["swi"].start
    BY <1>3, <2>1, Moves DEF DisconnectedCallback, TargetScan, TypeOK
  <2>3. news'["report"] = news["report"]
    BY <1>3, Taking DEF DisconnectedCallback
  <2> QED
    BY <1>3, <2>1, <2>2, <2>3, Moves DEF DisconnectedCallback
<1> QED
  BY <1>1, <1>2, <1>3 DEF Callbacks

LEMMA WindowKept == Spec => []WindowInv
<1>1. Init => WindowInv
  BY DEF Init, WindowInv, AtHangup, Contexts
<1>2. TypeOK /\ WindowInv /\ [Next]_vars => WindowInv'
  <2> SUFFICES ASSUME TypeOK, WindowInv, [Next]_vars PROVE WindowInv'
    OBVIOUS
  <2>1. CASE UNCHANGED vars
    BY <2>1 DEF vars, WindowInv, AtHangup, Restarting, StartUnderWay, scanVars,
                pendVars, radioVars, callVars
  <2> QED
    BY <2>1, RadioWindow, TimersWindow, CallWindow, EntersWindow DEF Next
<1> QED
  BY <1>1, <1>2, TypeCorrect, PTL DEF Spec

\* A scan loses its timer only to a ble_gap_disconnect that then ends the scan.
LEMMA TimerKept == Spec => []TimerInv
<1>1. Init => TimerInv
  BY DEF Init, TimerInv
<1>2. TypeOK /\ TimerInv /\ [Next]_vars => TimerInv'
  <2> SUFFICES ASSUME TypeOK, TimerInv, [Next]_vars PROVE TimerInv'
    OBVIOUS
  <2> USE DEF TimerInv, AtHangup, scanVars, callVars, Contexts
  <2>1. CASE Timers
    BY <2>1 DEF Timers, ScanTimerFires, WindowTimerFires
  <2>2. ASSUME NEW p \in Peers, NEW type \in AdvTypes, NEW meets \in BOOLEAN,
               AdvReceived(p, type, meets)
        PROVE  TimerInv'
    BY <2>2 DEF AdvReceived, HandleAdv
  <2>3. ASSUME NEW p \in Peers, NEW meets \in BOOLEAN, ScanRspReceived(p, meets)
        PROVE  TimerInv'
    BY <2>3 DEF ScanRspReceived
  <2>4. CASE OtherReceived
    BY <2>4 DEF OtherReceived
  <2>5. CASE Completions \/ DisabledCleared
    <3>1. scanning' \in {scanning, FALSE}
      BY <2>5 DEF Completions, RxDisabled, ReqTxDisabled, ConnTxDisabled,
         DisabledCleared, Disabled, HandleScanDisabled, ApplyConnectRequest
    <3> QED
      BY <2>5, <3>1, DisabledScan
  <2>6. CASE LinkLost
    BY <2>6 DEF LinkLost, StateReset
  <2>7. ASSUME NEW c \in Contexts, Call(c) PROVE TimerInv'
    <3> USE DEF Runs, LevelFree
    <3>1. CASE SetFilter(c) \/ ForgetCandidate(c) \/ StartTest(c)
      BY <3>1, Moves DEF SetFilter, ForgetCandidate, StartTest
    <3>2. CASE StartConfig(c)
      BY <3>2 DEF StartConfig
    <3>3. CASE StartArm(c) \/ StartWindow(c)
      BY <3>3, Moves DEF StartArm, StartWindow
    <3>4. CASE StopTimers(c)
      BY <3>4 DEF StopTimers
    <3>5. CASE StopReset(c) \/ StopTest(c) \/ StopMask(c)
      BY <3>5, Moves DEF StopReset, StopTest, StopMask
    <3>6. CASE HangupSample(c)
      BY <3>6, Moves DEF HangupSample, TypeOK
    <3>7. CASE HangupUnlink(c)
      BY <3>7, Moves DEF HangupUnlink
    <3>8. CASE HangupClear(c)
      BY <3>8, Moves DEF HangupClear, StateReset
    <3>9. CASE \/ Silence(c, "silence", "spin", "quiet")
               \/ Silence(c, "hangSilence", "hangSpin", "clear")
      BY <3>9, Moves DEF Silence
    <3>10. CASE \/ DisableSeen(c, "spin", "quiet")
                \/ DisableSeen(c, "hangSpin", "clear")
      BY <3>10, Moves DEF DisableSeen
    <3> QED
      BY <2>7, <3>1, <3>2, <3>3, <3>4, <3>5, <3>6, <3>7, <3>8, <3>9, <3>10
         DEF Call
  <2>8. CASE MainCalls
    <3>1. PICK site : Enters("main", site)
      BY <2>8 DEF MainCalls
    <3> QED
      BY <2>8, <3>1, Moves DEF MainCalls, Enters
  <2>9. CASE Callbacks
    <3>1. LevelFree /\ \E site : Enters("swi", site)
      BY <2>9 DEF Callbacks, ReportCallback, DisconnectedCallback
    <3>2. PICK site : Enters("swi", site)
      BY <3>1
    <3> QED
      BY <3>1, <3>2, Moves DEF LevelFree, Enters
  <2>10. CASE UNCHANGED vars
    BY <2>10 DEF vars
  <2> QED
    BY <2>1, <2>2, <2>3, <2>4, <2>5, <2>6, <2>7, <2>8, <2>9, <2>10
       DEF Next, Receptions
<1> QED
  BY <1>1, <1>2, TypeCorrect, PTL DEF Spec

\* The decision to connect stops the scan and its timer; no start of a scan is
\* under way then, nor until the link is gone.
LEMMA CommitStep ==
    ASSUME TypeOK, RadioInv, LinkInv, CommitInv, [Next]_vars
    PROVE  CommitInv'
<1> USE DEF CommitInv, Hears, pendVars, scanVars, Contexts
<1>1. CASE ScanTimerFires
  BY <1>1 DEF ScanTimerFires, MayArm, ArmRx
<1>2. CASE WindowTimerFires
  BY <1>2 DEF WindowTimerFires, InWindow, ResetScanState
<1>3. ASSUME NEW p \in Peers, NEW type \in AdvTypes, NEW meets \in BOOLEAN,
             AdvReceived(p, type, meets)
      PROVE  CommitInv'
  BY <1>3 DEF AdvReceived, HandleAdv, Report
<1>4. ASSUME NEW p \in Peers, NEW meets \in BOOLEAN, ScanRspReceived(p, meets)
      PROVE  CommitInv'
  BY <1>4 DEF ScanRspReceived, HandleScanRsp, Report
<1>5. CASE OtherReceived
  BY <1>5 DEF OtherReceived
<1>6. CASE Completions \/ DisabledCleared
  BY <1>6 DEF Completions, RxDisabled, ReqTxDisabled, ConnTxDisabled,
     DisabledCleared, Disabled, HandleScanDisabled, ResetScanState,
     ApplyConnectRequest
<1>7. CASE LinkLost
  BY <1>7 DEF LinkLost, StateReset, ResetScanState
<1>8. ASSUME NEW c \in Contexts, Call(c) PROVE CommitInv'
  <2>1. CASE SetFilter(c) \/ ForgetCandidate(c) \/ StartTest(c) \/ StartWindow(c)
    BY <2>1 DEF SetFilter, ForgetCandidate, StartTest, StartWindow
  <2>2. CASE StartConfig(c)
    BY <2>2 DEF StartConfig, LinkInv, StartUnderWay, Unlinked
  <2>3. CASE StartArm(c)
    BY <2>3 DEF StartArm, MayArm, ArmRx
  <2>4. CASE StopTimers(c) \/ StopTest(c) \/ StopMask(c)
    BY <2>4 DEF StopTimers, StopTest, StopMask
  <2>5. CASE StopReset(c)
    BY <2>5 DEF StopReset, ResetScanState
  <2>6. CASE HangupSample(c)
    BY <2>6 DEF HangupSample
  <2>7. CASE HangupUnlink(c) \/ HangupClear(c)
    BY <2>7 DEF HangupUnlink, HangupClear, StateReset, ResetScanState
  <2>8. CASE \/ Silence(c, "silence", "spin", "quiet")
             \/ Silence(c, "hangSilence", "hangSpin", "clear")
             \/ DisableSeen(c, "spin", "quiet")
             \/ DisableSeen(c, "hangSpin", "clear")
    BY <2>8 DEF Silence, DisableSeen
  <2> QED
    BY <1>8, <2>1, <2>2, <2>3, <2>4, <2>5, <2>6, <2>7, <2>8 DEF Call
<1>9. CASE MainCalls \/ Callbacks
  BY <1>9 DEF MainCalls, Callbacks, ReportCallback, DisconnectedCallback, Enters
<1>10. CASE UNCHANGED vars
  BY <1>10 DEF vars
<1> QED
  BY <1>1, <1>2, <1>3, <1>4, <1>5, <1>6, <1>7, <1>8, <1>9, <1>10
     DEF Next, Timers, Receptions

LEMMA CommitKept ==
    Spec => [](EndsInCallbacks /\ StartsUnlinked /\ ~doubled => CommitInv)
<1>1. Init => CommitInv
  BY DEF Init, CommitInv
<1>2. /\ TypeOK
      /\ EndsInCallbacks => RadioInv
      /\ EndsInCallbacks /\ StartsUnlinked /\ ~doubled => LinkInv
      /\ EndsInCallbacks /\ StartsUnlinked /\ ~doubled => CommitInv
      /\ [Next]_vars
      => (EndsInCallbacks /\ StartsUnlinked /\ ~doubled => CommitInv)'
  BY CommitStep, HabitsKept DEF EndsInCallbacks, StartsUnlinked
<1> QED
  BY <1>1, <1>2, TypeCorrect, RadioKept, LinkKept, PTL DEF Spec

\* A window that is open when no call is in progress has its timer, whatever the
\* application calls and wherever; a scan has its interval timer, and a link has
\* none, for the applications of which the property says so.
THEOREM ScanIsTimed == Spec => []ScanTimed
<1>1. TypeOK /\ WindowInv /\ Quiet => (air = "rx" => window)
  BY Kinds DEF WindowInv, Quiet, NoNews, Restarting, StartUnderWay, Contexts
<1>2. TimerInv /\ Quiet => (scanning => timer)
  BY DEF TimerInv, AtHangup, Quiet
<1>3. /\ TypeOK
      /\ WindowInv
      /\ TimerInv
      /\ EndsInCallbacks /\ StartsUnlinked /\ ~doubled => CommitInv
      => ScanTimed
  BY <1>1, <1>2 DEF ScanTimed, CommitInv
<1> QED
  BY <1>3, TypeCorrect, WindowKept, TimerKept, CommitKept, PTL

=============================================================================
