---------------------- MODULE PeripheralLifecycleProofs ----------------------
(***************************************************************************)
(* Proofs about PeripheralLifecycle, for every set of applications, every  *)
(* number of missed intervals and every queue.                             *)
(***************************************************************************)
EXTENDS PeripheralLifecycle, TLAPS

-----------------------------------------------------------------------------
(***************************************************************************)
(* The inductive invariants.                                               *)
(***************************************************************************)

\* The advertising timer handler and the callbacks have one priority, and the
\* loop over the channels ends with the last.
LevelInv ==
    /\ advPc = "idle" \/ pc["swi"] = "idle"
    /\ advPc # "idle" => advChannel \in 1 .. 3

\* Context c has unlinked a live link and has not told the application yet.
Unlinking(c) == pc[c] \in {"untime", "silence", "spin", "notify"} /\ was[c]

\* A timer without a link is about to be stopped.  Unless a link was made inside
\* a call of ble_gap_disconnect, a link has its timer, a call that has cleared
\* m_link.connected has no link, nor has one that found none.
EndingInv ==
    /\ connTimer => connected \/ \E c \in Contexts : pc[c] = "untime"
    /\ ~overtaken =>
           /\ connected => connTimer
           /\ \A c \in Contexts :
                 \/ pc[c] \in {"untime", "silence", "spin", "notify"}
                 \/ pc[c] = "unlink" /\ ~was[c]
                 => ~connected

\* e is the later of e and f among what the application was told and what it
\* will be.
LastTold(e, f) ==
    \/ told = e /\ \A i \in 1 .. Len(queue) : queue[i] # f
    \/ \E i \in 1 .. Len(queue) :
           queue[i] = e /\ \A j \in i + 1 .. Len(queue) : queue[j] # f

\* The application has been, or will be, told that a link is gone.
GoneInv ==
    ~overtaken /\ ~connected =>
        LastTold("disconnected", "connected") \/ \E c \in Contexts : Unlinking(c)

\* An application that acts in callbacks: either the link has the radio, or
\* advertising has it, or neither and RADIO is masked or about to be.
ModeInv ==
    /\ pc["main"] = "idle" /\ ~overtaken
    /\ connected => /\ config = "conn" /\ mask = "conn"
                    /\ pc["swi"] \notin {"arm", "untime", "silence", "spin", "notify"}
    /\ config = "conn" => ~advTimer /\ ~connectPending
    /\ config = "conn" /\ ~connected => mask # "adv"
    /\ config = "adv" => ~connected /\ mask = "adv"
    /\ config = "adv" => pc["swi"] \in {"idle", "callback", "asked", "arm"}
    /\ ~connected /\ advPc = "idle" => advPhase = "idle" \/ Unlinking("swi")
    /\ pc["swi"] = "unlink" /\ connected => was["swi"]

\* Such an application is told of a link that is there.
KnownInv ==
    /\ connected => LastTold("connected", "disconnected")
    /\ paramTimer => connected \/ Unlinking("swi")
                  \/ \E i \in 1 .. Len(queue) : queue[i] = "disconnected"

-----------------------------------------------------------------------------
(***************************************************************************)
(* Type correctness.                                                       *)
(***************************************************************************)

\* Posting an event keeps the queue's type and its bound.
LEMMA PostedType ==
    ASSUME NEW q \in Seq(Events), Len(q) <= QueueSize, NEW e \in Events
    PROVE  Posted(q, e) \in Seq(Events) /\ Len(Posted(q, e)) <= QueueSize
BY BoundAssumption DEF Posted

LEMMA PostType ==
    ASSUME TypeOK, NEW e \in Events, Post(e)
    PROVE  queue' \in Seq(Events) /\ Len(queue') <= QueueSize
BY PostedType DEF TypeOK, Post

LEMMA PostTwoType ==
    ASSUME TypeOK, NEW e \in Events, NEW f \in Events, PostTwo(e, f)
    PROVE  queue' \in Seq(Events) /\ Len(queue') <= QueueSize
<1>1. Posted(queue, e) \in Seq(Events) /\ Len(Posted(queue, e)) <= QueueSize
  BY PostedType DEF TypeOK
<1> QED
  BY <1>1, PostedType DEF PostTwo

\* The two contexts: where the callback or the main loop goes.
LEMMA Moves ==
    ASSUME TypeOK, NEW c \in Contexts, NEW site \in CallSites, Goto(c, site)
    PROVE  /\ c = "main" \/ c = "swi"
           /\ pc' \in [Contexts -> CallSites]
           /\ pc'[c] = site
           /\ c = "main" => pc'["swi"] = pc["swi"]
           /\ c = "swi" => pc'["main"] = pc["main"]
BY DEF TypeOK, Goto, Contexts

LEMMA Sites ==
    /\ {"idle", "callback", "asked", "arm"} \subseteq CallSites
    /\ {"hangup", "unlink", "untime", "silence", "spin", "notify"} \subseteq CallSites
    /\ "main" \in Contexts /\ "swi" \in Contexts
BY DEF CallSites, Contexts

\* The advertising handlers.
LEMMA AdvType ==
    ASSUME TypeOK, LevelInv, AdvHandler \/ AdvRadio
    PROVE  TypeOK'
<1> USE DEF TypeOK, linkVars, timerVars, radioVars, advVars, handlerVars, callVars,
            evtVars, ResetAdvState, AdvSites
<1>1. CASE AdvTimerFires
  BY <1>1 DEF AdvTimerFires
<1>2. CASE AdvSend
  <2>1. /\ scanRspPending' \in BOOLEAN /\ connectPending' \in BOOLEAN
        /\ disabledEvt' \in BOOLEAN
    BY <1>2, Zenon DEF AdvSend
  <2> QED
    BY <1>2, <2>1 DEF AdvSend, AirStates
<1>8. CASE AdvSilence \/ AdvDisableSeen
  <2>1. /\ scanRspPending' \in BOOLEAN /\ connectPending' \in BOOLEAN
        /\ disabledEvt' \in BOOLEAN
    BY <1>8, Zenon DEF AdvSilence, AdvDisableSeen
  <2> QED
    BY <1>8, <2>1 DEF AdvSilence, AdvDisableSeen, AirStates
<1>3. CASE AdvEndOfChannel
  <2>1. /\ scanRspPending' \in BOOLEAN /\ connectPending' \in BOOLEAN
        /\ disabledEvt' \in BOOLEAN
    BY <1>3, Zenon DEF AdvEndOfChannel
  <2>2. advChannel' \in 0 .. 3
    BY <1>3 DEF AdvEndOfChannel, LevelInv
  <2> QED
    BY <1>3, <2>1, <2>2 DEF AdvEndOfChannel, AirStates
<1>4. CASE AdvTxDisabled
  BY <1>4 DEF AdvTxDisabled, AirStates
<1>5. ASSUME NEW pdu \in {"scanReq", "connectReq", "other"}, AdvReceives(pdu)
      PROVE  TypeOK'
  <2>1. scanRspPending' \in BOOLEAN /\ connectPending' \in BOOLEAN
    BY <1>5, Zenon DEF AdvReceives
  <2> QED
    BY <1>5, <2>1 DEF AdvReceives, AirStates
<1>6. CASE AdvRxDisabled
  <2>1. /\ connected' \in BOOLEAN /\ started' \in BOOLEAN /\ rxSeen' \in BOOLEAN
        /\ connTimer' \in BOOLEAN /\ advTimer' \in BOOLEAN
        /\ paramTimer' \in BOOLEAN
        /\ scanRspPending' \in BOOLEAN /\ connectPending' \in BOOLEAN
        /\ disabledEvt' \in BOOLEAN /\ overtaken' \in BOOLEAN
    BY <1>6, Zenon DEF AdvRxDisabled, PrepareLink
  <2>2. missed' \in 0 .. MissLimit
    BY <1>6, BoundAssumption DEF AdvRxDisabled, PrepareLink
  <2>3. /\ mask' \in {"off", "adv", "conn"} /\ config' \in {"adv", "conn"}
        /\ air' \in AirStates
        /\ advPhase' \in {"idle", "waitTx", "waitRx", "waitRsp"}
    BY <1>6 DEF AdvRxDisabled, PrepareLink, AirStates
  <2>4. queue' \in Seq(Events) /\ Len(queue') <= QueueSize
    <3>1. queue' = queue \/ Post("connected")
      BY <1>6 DEF AdvRxDisabled
    <3> QED
      BY <3>1, PostType DEF Events
  <2> QED
    BY <1>6, <2>1, <2>2, <2>3, <2>4 DEF AdvRxDisabled
<1>7. CASE RspDisabled
  <2>1. scanRspPending' \in BOOLEAN /\ connectPending' \in BOOLEAN
    BY <1>7, Zenon DEF RspDisabled
  <2> QED
    BY <1>7, <2>1 DEF RspDisabled, AirStates
<1> QED
  BY <1>1, <1>2, <1>3, <1>4, <1>5, <1>6, <1>7, <1>8 DEF AdvHandler, AdvLoop, AdvRadio

\* What DropLink does to the types.
LEMMA DropType ==
    ASSUME TypeOK, DropLink
    PROVE  /\ connected' \in BOOLEAN /\ started' \in BOOLEAN /\ rxSeen' \in BOOLEAN
           /\ missed' \in 0 .. MissLimit
           /\ connTimer' \in BOOLEAN /\ advTimer' \in BOOLEAN
           /\ paramTimer' \in BOOLEAN /\ disabledEvt' \in BOOLEAN
           /\ scanRspPending' \in BOOLEAN /\ connectPending' \in BOOLEAN
           /\ mask' \in {"off", "adv", "conn"} /\ config' \in {"adv", "conn"}
           /\ air' \in AirStates
           /\ advPhase' \in {"idle", "waitTx", "waitRx", "waitRsp"}
<1>1. /\ connected' \in BOOLEAN /\ connTimer' \in BOOLEAN /\ disabledEvt' \in BOOLEAN
      /\ scanRspPending' \in BOOLEAN /\ connectPending' \in BOOLEAN
  BY Zenon DEF DropLink, ResetAdvState
<1> QED
  BY <1>1 DEF TypeOK, DropLink, ResetAdvState, AirStates

\* The interrupts of a connection.
LEMMA LinkType ==
    ASSUME TypeOK, Link
    PROVE  TypeOK'
<1> USE DEF TypeOK, timerVars, advVars, callVars, AdvSites
<1>1. CASE Timer0
  <2>1. CASE started /\ MissedAfter >= MissLimit
    <3>1. DropLink /\ PostTwo("supervision", "disconnected")
      BY <1>1, <2>1 DEF Timer0, SupervisionEvents
    <3>2. queue' \in Seq(Events) /\ Len(queue') <= QueueSize
      BY <3>1, PostTwoType DEF Events
    <3> QED
      BY <1>1, <3>1, <3>2, DropType DEF Timer0
  <2>2. CASE ~(started /\ MissedAfter >= MissLimit)
    <3>1. /\ missed' = MissedAfter /\ rxSeen' = FALSE
          /\ mask' = "conn" /\ air' = "connRx"
          /\ disabledEvt' = FALSE
          /\ advPc' = advPc \/ advPc' = "stalled"
          /\ UNCHANGED <<connected, started, timerVars, config, advVars, queue>>
          /\ UNCHANGED <<app, advChannel, callVars, told, overtaken>>
      BY <1>1, <2>2, Zenon DEF Timer0
    <3>2. MissedAfter \in 0 .. MissLimit
      <4>1. CASE ~started
        BY <4>1 DEF MissedAfter
      <4>2. CASE started /\ rxSeen
        BY <4>2, BoundAssumption DEF MissedAfter
      <4>3. CASE started /\ ~rxSeen
        <5>1. MissedAfter = missed + 1
          BY <4>3 DEF MissedAfter
        <5> QED
          BY <2>2, <4>3, <5>1, BoundAssumption
      <4> QED
        BY <4>1, <4>2, <4>3
    <3>3. rxSeen' \in BOOLEAN /\ disabledEvt' \in BOOLEAN
      BY <3>1, Zenon
    <3> QED
      BY <3>1, <3>2, <3>3 DEF AirStates
  <2> QED
    BY <2>1, <2>2
<1>2. CASE ConnReceives
  <2>1. queue' \in Seq(Events) /\ Len(queue') <= QueueSize
    BY <1>2, PostType DEF ConnReceives, Events
  <2>2. started' \in BOOLEAN /\ rxSeen' \in BOOLEAN
    BY <1>2, Zenon DEF ConnReceives
  <2>3. disabledEvt' \in BOOLEAN
    BY <1>2, Zenon DEF ConnReceives, Polled
  <2> QED
    BY <1>2, <2>1, <2>2, <2>3 DEF ConnReceives, AirStates
<1>3. CASE ConnReceivesTerminate
  <2>1. DropLink /\ PostTwo("terminate", "disconnected")
    BY <1>3 DEF ConnReceivesTerminate
  <2>2. queue' \in Seq(Events) /\ Len(queue') <= QueueSize
    BY <2>1, PostTwoType DEF Events
  <2> QED
    BY <1>3, <2>1, <2>2, DropType DEF ConnReceivesTerminate
<1> QED
  BY <1>1, <1>2, <1>3 DEF Link

\* The steps of the application's calls.
LEMMA CallType ==
    ASSUME TypeOK, NEW c \in Contexts, Call(c)
    PROVE  TypeOK'
<1> USE Sites, Moves DEF TypeOK, linkVars, timerVars, radioVars, advVars,
                         handlerVars, evtVars
<1>1. CASE StartAdvArm(c)
  <2>1. advTimer' \in BOOLEAN /\ disabledEvt' \in BOOLEAN
    BY <1>1, Zenon DEF StartAdvArm
  <2> QED
    BY <1>1, <2>1 DEF StartAdvArm
<1>2. CASE DisconnectSample(c)
  BY <1>2 DEF DisconnectSample
<1>3. CASE DisconnectUnlink(c)
  <2>1. connected' \in BOOLEAN
    BY <1>3, Zenon DEF DisconnectUnlink
  <2> QED
    BY <1>3, <2>1 DEF DisconnectUnlink
<1>7. CASE DisconnectUntime(c)
  <2>1. connTimer' \in BOOLEAN
    BY <1>7, Zenon DEF DisconnectUntime
  <2> QED
    BY <1>7, <2>1 DEF DisconnectUntime
<1>4. CASE DisconnectSilence(c)
  BY <1>4 DEF DisconnectSilence, AirStates
<1>5. CASE DisableSeen(c)
  <2>1. disabledEvt' \in BOOLEAN
    BY <1>5, Zenon DEF DisableSeen
  <2> QED
    BY <1>5, <2>1 DEF DisableSeen
<1>6. CASE DisconnectNotify(c)
  <2>1. queue' \in Seq(Events) /\ Len(queue') <= QueueSize
    BY <1>6, PostType DEF DisconnectNotify, Events
  <2>2. /\ scanRspPending' \in BOOLEAN /\ connectPending' \in BOOLEAN
        /\ disabledEvt' \in BOOLEAN
    BY <1>6, Zenon DEF DisconnectNotify, ResetAdvState
  <2> QED
    BY <1>6, <2>1, <2>2 DEF DisconnectNotify, ResetAdvState
<1> QED
  BY <1>1, <1>2, <1>3, <1>4, <1>5, <1>6, <1>7 DEF Call

\* Callbacks, and the calls of the main loop.
LEMMA AppType ==
    ASSUME TypeOK, Callbacks \/ MainAdvertises \/ MainHangsUp \/ DisabledCleared
    PROVE  TypeOK'
<1> USE Sites, Moves DEF TypeOK, linkVars, timerVars, radioVars, advVars,
                         handlerVars, callVars, evtVars
<1>1. CASE Dispatch
  <2>1. Head(queue) \in Events /\ Tail(queue) \in Seq(Events)
        /\ Len(Tail(queue)) <= QueueSize
    BY <1>1, BoundAssumption DEF Dispatch
  <2>2. paramTimer' \in BOOLEAN
    BY <1>1, Zenon DEF Dispatch, ParamTimerAfter
  <2>3. told' \in {"connected", "disconnected"}
    BY <1>1 DEF Dispatch
  <2>4. pc' \in [Contexts -> CallSites]
    BY <1>1 DEF Dispatch, Goto
  <2> QED
    BY <1>1, <2>1, <2>2, <2>3, <2>4 DEF Dispatch
<1>2. CASE CallbackAdvertises \/ MainAdvertises
  BY <1>2 DEF CallbackAdvertises, MainAdvertises, StartAdvTest
<1>3. CASE CallbackHangsUp \/ CallbackReturns \/ MainHangsUp
  BY <1>3 DEF CallbackHangsUp, CallbackReturns, MainHangsUp
<1>4. CASE ParamTimerFires
  <2>1. paramTimer' \in BOOLEAN
    BY <1>4, Zenon DEF ParamTimerFires
  <2> QED
    BY <1>4, <2>1 DEF ParamTimerFires
<1>5. CASE DisabledCleared
  <2>1. disabledEvt' \in BOOLEAN
    BY <1>5, Zenon DEF DisabledCleared
  <2> QED
    BY <1>5, <2>1 DEF DisabledCleared
<1> QED
  BY <1>1, <1>2, <1>3, <1>4, <1>5 DEF Callbacks

\* What an action leaves alone, for the actions the invariants ignore.
LEMMA LevelKeeps ==
    ASSUME TypeOK, LevelInv, [Next]_vars
    PROVE  LevelInv'
<1> USE Sites DEF LevelInv, LevelFree, handlerVars, callVars
<1>1. CASE AdvTimerFires
  BY <1>1 DEF AdvTimerFires
<1>2. CASE AdvSilence \/ AdvDisableSeen \/ AdvSend
  BY <1>2 DEF AdvSilence, AdvDisableSeen, AdvSend
<1>3. CASE AdvEndOfChannel
  BY <1>3 DEF AdvEndOfChannel
<1>4. CASE AdvRadio \/ Link \/ DisabledCleared
  BY <1>4 DEF AdvRadio, AdvTxDisabled, AdvReceives, AdvRxDisabled, RspDisabled,
              Link, Timer0, ConnReceives, ConnReceivesTerminate, DisabledCleared
<1> USE Moves DEF Runs
<1>5. ASSUME NEW c \in Contexts, Call(c)
      PROVE  LevelInv'
  <2>1. CASE StartAdvArm(c)
    BY <2>1 DEF StartAdvArm
  <2>2. CASE DisconnectSample(c)
    BY <2>2 DEF DisconnectSample
  <2>3. CASE DisconnectUnlink(c) \/ DisconnectUntime(c)
    BY <2>3 DEF DisconnectUnlink, DisconnectUntime
  <2>4. CASE DisconnectSilence(c)
    BY <2>4 DEF DisconnectSilence
  <2>5. CASE DisableSeen(c)
    BY <2>5 DEF DisableSeen
  <2>6. CASE DisconnectNotify(c)
    BY <2>6 DEF DisconnectNotify
  <2> QED
    BY <1>5, <2>1, <2>2, <2>3, <2>4, <2>5, <2>6 DEF Call
<1>6. CASE Dispatch
  BY <1>6 DEF Dispatch
<1>7. CASE CallbackAdvertises \/ MainAdvertises
  BY <1>7 DEF CallbackAdvertises, MainAdvertises, StartAdvTest
<1>8. CASE CallbackHangsUp \/ CallbackReturns \/ MainHangsUp
  BY <1>8 DEF CallbackHangsUp, CallbackReturns, MainHangsUp
<1>9. CASE ParamTimerFires
  BY <1>9 DEF ParamTimerFires
<1>10. CASE UNCHANGED vars
  BY <1>10 DEF vars
<1> QED
  BY <1>1, <1>2, <1>3, <1>4, <1>5, <1>6, <1>7, <1>8, <1>9, <1>10
     DEF Next, AdvHandler, AdvLoop, Callbacks

LEMMA TypeKept == Spec => [](TypeOK /\ LevelInv)
<1>1. Init => TypeOK /\ LevelInv
  <2> SUFFICES ASSUME Init PROVE TypeOK /\ LevelInv
    OBVIOUS
  <2>1. /\ connected \in BOOLEAN /\ started \in BOOLEAN /\ rxSeen \in BOOLEAN
        /\ connTimer \in BOOLEAN /\ advTimer \in BOOLEAN /\ paramTimer \in BOOLEAN
        /\ disabledEvt \in BOOLEAN
        /\ scanRspPending \in BOOLEAN /\ connectPending \in BOOLEAN
        /\ was \in [Contexts -> BOOLEAN] /\ overtaken \in BOOLEAN
    BY Zenon DEF Init
  <2>2. /\ pc \in [Contexts -> CallSites] /\ pc["main"] = "idle"
        /\ queue \in Seq(Events) /\ Len(queue) <= QueueSize
        /\ missed \in 0 .. MissLimit
    BY Sites, BoundAssumption DEF Init
  <2> QED
    BY <2>1, <2>2 DEF Init, TypeOK, LevelInv, AirStates, AdvSites
<1>2. TypeOK /\ LevelInv /\ [Next]_vars => (TypeOK /\ LevelInv)'
  <2> SUFFICES ASSUME TypeOK, LevelInv, [Next]_vars PROVE TypeOK'
    BY LevelKeeps
  <2>1. CASE UNCHANGED vars
    BY <2>1 DEF vars, TypeOK, linkVars, timerVars, radioVars, advVars, handlerVars,
                callVars, evtVars
  <2> QED
    BY <2>1, AdvType, LinkType, CallType, AppType DEF Next
<1> QED
  BY <1>1, <1>2, PTL DEF Spec

\* Every variable keeps its type: the loop over the advertising channels ends
\* with the last, the missed intervals stay below the limit that ends the link,
\* and the deferred queue never holds more than its size.
THEOREM TypeCorrect == Spec => []TypeOK
BY TypeKept, PTL

-----------------------------------------------------------------------------
(***************************************************************************)
(* ble_gap_disconnect and the end of a link.                               *)
(***************************************************************************)

\* The steps of calls and callbacks that leave the link, its timer, the
\* advertising state and the deferred events alone.
LEMMA LinkUntouched ==
    ASSUME \/ StartAdvArm("main") \/ StartAdvArm("swi")
           \/ DisconnectSample("main") \/ DisconnectSample("swi")
           \/ DisconnectSilence("main") \/ DisconnectSilence("swi")
           \/ DisableSeen("main") \/ DisableSeen("swi")
           \/ CallbackAdvertises \/ CallbackHangsUp \/ CallbackReturns
           \/ MainAdvertises \/ MainHangsUp \/ ParamTimerFires \/ DisabledCleared
    PROVE  UNCHANGED <<app, connected, connTimer, advPhase, connectPending, advPc,
                       queue, told, overtaken>>
BY DEF StartAdvArm, DisconnectSample, DisconnectSilence, DisableSeen,
       CallbackAdvertises, CallbackHangsUp, CallbackReturns, MainAdvertises,
       MainHangsUp, ParamTimerFires, DisabledCleared, StartAdvTest,
       linkVars, timerVars, advVars, handlerVars, evtVars

LEMMA EndingKeeps ==
    ASSUME TypeOK, EndingInv, [Next]_vars
    PROVE  EndingInv'
<1> USE Sites DEF EndingInv, handlerVars, callVars, linkVars, timerVars, Contexts
<1>1. CASE AdvHandler
  BY <1>1 DEF AdvHandler, AdvTimerFires, AdvLoop, AdvSilence, AdvDisableSeen, AdvSend,
              AdvEndOfChannel
<1>2. CASE AdvTxDisabled \/ RspDisabled
  BY <1>2 DEF AdvTxDisabled, RspDisabled
<1>3. ASSUME NEW pdu \in {"scanReq", "connectReq", "other"}, AdvReceives(pdu)
      PROVE  EndingInv'
  BY <1>3 DEF AdvReceives
<1>4. CASE AdvRxDisabled
  <2>1. \/ UNCHANGED <<connected, connTimer, overtaken>>
        \/ /\ connected' /\ connTimer'
           /\ overtaken' = (overtaken \/ \E c \in Contexts : pc[c] \in Ending)
    BY <1>4 DEF AdvRxDisabled, PrepareLink
  <2>2. UNCHANGED <<pc, was>>
    BY <1>4 DEF AdvRxDisabled
  <2>3. CASE UNCHANGED <<connected, connTimer, overtaken>>
    BY <2>2, <2>3
  <2>4. CASE connected' /\ connTimer' /\ overtaken'
    BY <2>4
  <2>5. ASSUME \A c \in Contexts : pc[c] \notin Ending, connected', connTimer'
        PROVE  EndingInv'
    BY <2>2, <2>5 DEF Ending
  <2> QED
    BY <2>1, <2>3, <2>4, <2>5
<1>5. CASE Timer0
  BY <1>5 DEF Timer0, DropLink
<1>6. CASE ConnReceives
  BY <1>6 DEF ConnReceives
<1>7. CASE ConnReceivesTerminate
  BY <1>7 DEF ConnReceivesTerminate, DropLink
<1>8. CASE DisabledCleared \/ ParamTimerFires
  BY <1>8 DEF DisabledCleared, ParamTimerFires
<1> USE Moves
<1>9. ASSUME NEW c \in Contexts, Call(c)
      PROVE  EndingInv'
  <2>1. CASE StartAdvArm(c)
    BY <2>1 DEF StartAdvArm
  <2>2. CASE DisconnectSample(c)
    <3>1. /\ was'[c] = connected
          /\ c = "main" => was'["swi"] = was["swi"]
          /\ c = "swi" => was'["main"] = was["main"]
      BY <2>2 DEF DisconnectSample, TypeOK
    <3> QED
      BY <2>2, <3>1 DEF DisconnectSample
  <2>3. CASE DisconnectUnlink(c)
    BY <2>3 DEF DisconnectUnlink
  <2>4. CASE DisconnectUntime(c)
    BY <2>4 DEF DisconnectUntime
  <2>5. CASE DisconnectSilence(c)
    BY <2>5 DEF DisconnectSilence
  <2>6. CASE DisableSeen(c)
    BY <2>6 DEF DisableSeen
  <2>7. CASE DisconnectNotify(c)
    BY <2>7 DEF DisconnectNotify
  <2> QED
    BY <1>9, <2>1, <2>2, <2>3, <2>4, <2>5, <2>6, <2>7, Zenon DEF Call
<1>10. CASE Dispatch
  BY <1>10 DEF Dispatch, LevelFree
<1>11. CASE CallbackAdvertises \/ MainAdvertises
  BY <1>11 DEF CallbackAdvertises, MainAdvertises, StartAdvTest
<1>12. CASE CallbackHangsUp \/ CallbackReturns \/ MainHangsUp
  BY <1>12 DEF CallbackHangsUp, CallbackReturns, MainHangsUp
<1>13. CASE UNCHANGED vars
  BY <1>13 DEF vars
<1> QED
  BY <1>1, <1>2, <1>3, <1>4, <1>5, <1>6, <1>7, <1>8, <1>9, <1>10, <1>11, <1>12,
     <1>13 DEF Next, AdvRadio, Link, Callbacks

LEMMA EndingKept == Spec => []EndingInv
<1>1. Init => EndingInv
  BY DEF Init, EndingInv, Contexts
<1>2. TypeOK /\ EndingInv /\ [Next]_vars => EndingInv'
  BY EndingKeeps
<1> QED
  BY <1>1, <1>2, TypeKept, PTL DEF Spec

\* A link has its timer, and the timer its link, whatever steps of a connection
\* interrupt ble_gap_disconnect between its test, its clearing of the link and its
\* stopping of the timer, and wherever it is called from, as long as none of them
\* makes another link.
THEOREM TimerKept == Spec => []LinkTimed
<1>1. EndingInv => LinkTimed
  BY DEF EndingInv, LinkTimed
<1> QED
  BY <1>1, EndingKept, PTL

-----------------------------------------------------------------------------
(***************************************************************************)
(* What the application is told last.                                      *)
(***************************************************************************)

\* An event that is posted into a queue with room is the last of it.
LEMMA PostLast ==
    ASSUME TypeOK, NEW e \in Events, NEW f \in Events, e # f,
           Len(queue) < QueueSize, Post(e), told' = told
    PROVE  LastTold(e, f)'
<1>1. queue' = Append(queue, e)
  BY DEF Post, Posted
<1>2. Len(queue') = Len(queue) + 1 /\ queue'[Len(queue) + 1] = e
  BY <1>1 DEF TypeOK
<1> QED
  BY <1>2 DEF TypeOK, LastTold

\* An event other than f leaves e the later of the two.
LEMMA PostKeepsLast ==
    ASSUME TypeOK, NEW e \in Events, NEW f \in Events, NEW g \in Events, g # f,
           LastTold(e, f), Post(g), told' = told
    PROVE  LastTold(e, f)'
<1>1. CASE queue' = queue
  BY <1>1 DEF LastTold
<1>2. CASE queue' = Append(queue, g)
  <2>1. queue \in Seq(Events)
    BY DEF TypeOK
  <2>2. /\ Len(queue') = Len(queue) + 1 /\ queue'[Len(queue) + 1] = g
        /\ \A i \in 1 .. Len(queue) : queue'[i] = queue[i]
    BY <1>2, <2>1
  <2> QED
    BY <2>1, <2>2 DEF LastTold
<1> QED
  BY <1>1, <1>2 DEF Post, Posted

\* Giving the head of the queue to the application changes nothing of it.
LEMMA DispatchKeepsLast ==
    ASSUME TypeOK, NEW e, NEW f, e # f,
           {e, f} = {"connected", "disconnected"},
           LastTold(e, f), Dispatch
    PROVE  LastTold(e, f)'
<1>1. /\ queue # <<>> /\ queue' = Tail(queue)
      /\ told' = IF Head(queue) \in {e, f} THEN Head(queue) ELSE told
  BY DEF Dispatch
<1>2. /\ Len(queue) >= 1 /\ Len(queue') = Len(queue) - 1
      /\ Head(queue) = queue[1]
      /\ \A i \in 1 .. Len(queue') : queue'[i] = queue[i + 1]
  BY <1>1 DEF TypeOK
<1>3. CASE told = e /\ \A i \in 1 .. Len(queue) : queue[i] # f
  BY <1>1, <1>2, <1>3 DEF LastTold
<1>4. ASSUME NEW i \in 1 .. Len(queue), queue[i] = e,
             \A j \in i + 1 .. Len(queue) : queue[j] # f
      PROVE  LastTold(e, f)'
  <2>1. CASE i = 1
    <3>1. told' = e
      BY <1>1, <1>2, <1>4, <2>1
    <3>2. \A k \in 1 .. Len(queue') : queue'[k] # f
      BY <1>2, <1>4, <2>1
    <3> QED
      BY <3>1, <3>2 DEF LastTold
  <2>2. CASE i # 1
    <3>1. i - 1 \in 1 .. Len(queue') /\ queue'[i - 1] = e
      BY <1>2, <1>4, <2>2
    <3>2. \A k \in (i - 1) + 1 .. Len(queue') : queue'[k] # f
      BY <1>2, <1>4, <2>2
    <3> QED
      BY <3>1, <3>2 DEF LastTold
  <2> QED
    BY <2>1, <2>2
<1> QED
  BY <1>3, <1>4 DEF LastTold

\* Of two events posted with room for both, the second is the last.
LEMMA PostTwoLast ==
    ASSUME TypeOK, NEW e \in Events, NEW f \in Events, NEW g \in Events, f # g,
           Len(queue) + 2 < QueueSize, PostTwo(e, f)
    PROVE  LastTold(f, g)'
<1>1. queue' = Append(Append(queue, e), f)
  BY BoundAssumption DEF TypeOK, PostTwo, Posted
<1>2. Len(queue') = Len(queue) + 2 /\ queue'[Len(queue) + 2] = f
  BY <1>1 DEF TypeOK
<1> QED
  BY <1>2 DEF TypeOK, LastTold

\* DROP: the link is gone and the application will be told last that it is.
LEMMA DropTells ==
    ASSUME TypeOK, ~Overrun, Keeps(2), NEW e \in Events, PostTwo(e, "disconnected")
    PROVE  LastTold("disconnected", "connected")'
BY PostTwoLast DEF Keeps, Events

LEMMA GoneKeeps ==
    ASSUME ~Overrun, TypeOK, EndingInv, GoneInv, [Next]_vars
    PROVE  GoneInv'
<1> USE Sites DEF GoneInv, Unlinking, Contexts, linkVars, callVars, evtVars
<1>1. CASE AdvHandler
  BY <1>1 DEF AdvHandler, AdvTimerFires, AdvLoop, AdvSilence, AdvDisableSeen, AdvSend,
              AdvEndOfChannel, LastTold
<1>2. CASE AdvTxDisabled \/ RspDisabled
  BY <1>2 DEF AdvTxDisabled, RspDisabled, LastTold
<1>3. ASSUME NEW pdu \in {"scanReq", "connectReq", "other"}, AdvReceives(pdu)
      PROVE  GoneInv'
  BY <1>3 DEF AdvReceives, LastTold
<1>4. CASE AdvRxDisabled
  <2>1. connected' \/ UNCHANGED <<connected, queue, told, pc, was, overtaken>>
    BY <1>4 DEF AdvRxDisabled, PrepareLink
  <2> QED
    BY <2>1 DEF LastTold
<1>5. CASE Timer0
  <2>1. \/ Keeps(2) /\ PostTwo("supervision", "disconnected")
        \/ connected'
    BY <1>5 DEF Timer0, SupervisionEvents
  <2> QED
    BY <2>1, DropTells DEF Events
<1>6. CASE ConnReceives
  BY <1>6 DEF ConnReceives
<1>7. CASE ConnReceivesTerminate
  BY <1>7, DropTells DEF ConnReceivesTerminate, Events
<1>8. CASE DisabledCleared \/ ParamTimerFires
  BY <1>8 DEF DisabledCleared, ParamTimerFires, LastTold
<1> USE Moves
<1>9. ASSUME NEW c \in Contexts, Call(c)
      PROVE  GoneInv'
  <2>1. CASE StartAdvArm(c)
    BY <2>1 DEF StartAdvArm, LastTold
  <2>2. CASE DisconnectSample(c)
    <3>1. /\ c = "main" => was'["swi"] = was["swi"]
          /\ c = "swi" => was'["main"] = was["main"]
      BY <2>2 DEF DisconnectSample, TypeOK
    <3> QED
      BY <2>2, <3>1 DEF DisconnectSample, LastTold
  <2>3. CASE DisconnectUnlink(c)
    <3>1. overtaken \/ was[c] \/ ~connected
      BY <2>3 DEF DisconnectUnlink, EndingInv
    <3> QED
      BY <2>3, <3>1 DEF DisconnectUnlink, LastTold
  <2>7. CASE DisconnectUntime(c)
    BY <2>7 DEF DisconnectUntime, LastTold
  <2>4. CASE DisconnectSilence(c)
    BY <2>4 DEF DisconnectSilence, LastTold
  <2>5. CASE DisableSeen(c)
    BY <2>5 DEF DisableSeen, LastTold
  <2>6. CASE DisconnectNotify(c)
    <3>1. CASE was[c]
      <4>1. Post("disconnected") /\ Len(queue) < QueueSize /\ told' = told
        BY <2>6, <3>1 DEF DisconnectNotify
      <4>2. LastTold("disconnected", "connected")'
        BY <4>1, PostLast DEF Events
      <4> QED
        BY <4>2
    <3>2. CASE ~was[c]
      BY <2>6, <3>2 DEF DisconnectNotify, LastTold
    <3> QED
      BY <3>1, <3>2
  <2> QED
    BY <1>9, <2>1, <2>2, <2>3, <2>4, <2>5, <2>6, <2>7 DEF Call
<1>10. CASE Dispatch
  <2>1. LastTold("disconnected", "connected")
            => LastTold("disconnected", "connected")'
    BY <1>10, DispatchKeepsLast
  <2>2. UNCHANGED <<connected, was, overtaken>> /\ pc["swi"] = "idle" /\ pc'["main"] = pc["main"]
    BY <1>10 DEF Dispatch, LevelFree
  <2> QED
    BY <2>1, <2>2
<1>11. CASE CallbackAdvertises \/ MainAdvertises
  BY <1>11 DEF CallbackAdvertises, MainAdvertises, StartAdvTest, LastTold
<1>12. CASE CallbackHangsUp \/ CallbackReturns \/ MainHangsUp
  BY <1>12 DEF CallbackHangsUp, CallbackReturns, MainHangsUp, LastTold
<1>13. CASE UNCHANGED vars
  BY <1>13 DEF vars, LastTold
<1> QED
  BY <1>1, <1>2, <1>3, <1>4, <1>5, <1>6, <1>7, <1>8, <1>9, <1>10, <1>11, <1>12,
     <1>13 DEF Next, AdvRadio, Link, Callbacks

\* While callbacks return before the queue is full, an application that has no
\* event to come does not believe in a link that is gone, whatever it calls, when,
\* and from where, unless a link was made while a call ended another.
THEOREM NoGhost ==
    ASSUME ~Overrun
    PROVE  Spec => []NoGhostLink
<1>1. Init => GoneInv
  BY DEF Init, GoneInv, LastTold
<1>2. TypeOK /\ EndingInv /\ GoneInv /\ [Next]_vars => GoneInv'
  BY GoneKeeps
<1>3. GoneInv => NoGhostLink
  BY DEF GoneInv, Unlinking, LastTold, NoGhostLink, Quiet, Contexts
<1> QED
  BY <1>1, <1>2, <1>3, TypeKept, EndingKept, PTL DEF Spec

-----------------------------------------------------------------------------
(***************************************************************************)
(* Applications that act in their callbacks.                               *)
(***************************************************************************)

LEMMA AppKept ==
    ASSUME [Next]_vars
    PROVE  app' = app
<1>1. CASE AdvHandler \/ AdvRadio \/ Link
  BY <1>1 DEF AdvHandler, AdvTimerFires, AdvLoop, AdvSilence, AdvDisableSeen, AdvSend,
     AdvEndOfChannel, AdvRadio,
     AdvTxDisabled, AdvReceives, AdvRxDisabled, RspDisabled, Link, Timer0,
     ConnReceives, ConnReceivesTerminate
<1>2. ASSUME NEW c \in Contexts,
             DisconnectUnlink(c) \/ DisconnectUntime(c) \/ DisconnectNotify(c)
      PROVE  app' = app
  BY <1>2 DEF DisconnectUnlink, DisconnectUntime, DisconnectNotify
<1>3. CASE Dispatch \/ UNCHANGED vars
  BY <1>3 DEF Dispatch, vars
<1> QED
  BY <1>1, <1>2, <1>3, LinkUntouched DEF Next, Call, Callbacks, Contexts

\* Handlers of interrupts and timers keep the mode.
LEMMA HandlersKeepMode ==
    ASSUME TypeOK, LevelInv, ModeInv,
           AdvHandler \/ AdvRadio \/ Link \/ DisabledCleared \/ ParamTimerFires
    PROVE  ModeInv'
<1> USE DEF ModeInv, LevelInv, LevelFree, Unlinking, Advertises, TypeOK, linkVars,
            timerVars, advVars, handlerVars, callVars, radioVars
<1>1. CASE AdvTimerFires
  BY <1>1 DEF AdvTimerFires
<1>2. CASE AdvSilence \/ AdvDisableSeen \/ AdvSend
  BY <1>2 DEF AdvSilence, AdvDisableSeen, AdvSend, ResetAdvState
<1>3. CASE AdvEndOfChannel
  BY <1>3 DEF AdvEndOfChannel, ResetAdvState
<1>4. CASE AdvTxDisabled
  BY <1>4 DEF AdvTxDisabled
<1>5. ASSUME NEW pdu \in {"scanReq", "connectReq", "other"}, AdvReceives(pdu)
      PROVE  ModeInv'
  BY <1>5 DEF AdvReceives
<1>6. CASE AdvRxDisabled
  BY <1>6 DEF AdvRxDisabled, ResetAdvState, PrepareLink, Ending, Contexts
<1>7. CASE RspDisabled
  BY <1>7 DEF RspDisabled, ResetAdvState
<1>8. CASE Timer0
  BY <1>8 DEF Timer0, DropLink, ResetAdvState
<1>9. CASE ConnReceives
  BY <1>9 DEF ConnReceives
<1>10. CASE ConnReceivesTerminate
  BY <1>10 DEF ConnReceivesTerminate, DropLink, ResetAdvState
<1>11. CASE DisabledCleared
  BY <1>11 DEF DisabledCleared
<1>12. CASE ParamTimerFires
  BY <1>12 DEF ParamTimerFires
<1> QED
  BY <1>1, <1>2, <1>3, <1>4, <1>5, <1>6, <1>7, <1>8, <1>9, <1>10, <1>11, <1>12
     DEF AdvHandler, AdvLoop, AdvRadio, Link

\* So do the steps of the callback, the only context that calls.
LEMMA CallsKeepMode ==
    ASSUME TypeOK, LevelInv, ModeInv, NEW c \in Contexts, Call(c)
    PROVE  ModeInv'
<1> USE Sites, Moves DEF ModeInv, LevelInv, Unlinking, linkVars, timerVars,
                         advVars, handlerVars, radioVars
<1>1. CASE StartAdvArm(c)
  BY <1>1 DEF StartAdvArm
<1>2. CASE DisconnectSample(c)
  <2>1. c = "swi" /\ was'["swi"] = connected
    BY <1>2 DEF DisconnectSample, TypeOK
  <2> QED
    BY <1>2, <2>1 DEF DisconnectSample
<1>3. CASE DisconnectUnlink(c)
  BY <1>3 DEF DisconnectUnlink
<1>7. CASE DisconnectUntime(c)
  BY <1>7 DEF DisconnectUntime
<1>4. CASE DisconnectSilence(c)
  BY <1>4 DEF DisconnectSilence
<1>5. CASE DisableSeen(c)
  BY <1>5 DEF DisableSeen
<1>6. CASE DisconnectNotify(c)
  BY <1>6 DEF DisconnectNotify, ResetAdvState
<1> QED
  BY <1>1, <1>2, <1>3, <1>4, <1>5, <1>6, <1>7 DEF Call

LEMMA ModeKeeps ==
    ASSUME ActsInCallbacks, TypeOK, LevelInv, ModeInv, [Next]_vars
    PROVE  ModeInv'
<1>1. ~MainAdvertises /\ ~MainHangsUp
  BY DEF ActsInCallbacks, MainAdvertises, MainHangsUp
<1> USE Sites, Moves DEF ModeInv, LevelInv, LevelFree, Unlinking, linkVars,
                         timerVars, advVars, handlerVars, radioVars
<1>2. CASE Dispatch
  BY <1>2 DEF Dispatch
<1>3. CASE CallbackAdvertises
  BY <1>3 DEF CallbackAdvertises, StartAdvTest
<1>4. CASE CallbackHangsUp \/ CallbackReturns
  BY <1>4 DEF CallbackHangsUp, CallbackReturns
<1>5. CASE UNCHANGED vars
  BY <1>5 DEF vars, callVars
<1> QED
  BY <1>1, <1>2, <1>3, <1>4, <1>5, HandlersKeepMode, CallsKeepMode
     DEF Next, Callbacks

LEMMA ModeKept == Spec => [](ActsInCallbacks => ModeInv)
<1>1. Init => ModeInv
  BY DEF Init, ModeInv, Contexts
<1>2. TypeOK /\ LevelInv /\ (ActsInCallbacks => ModeInv) /\ [Next]_vars
          => (ActsInCallbacks => ModeInv)'
  BY ModeKeeps, AppKept DEF ActsInCallbacks
<1> QED
  BY <1>1, <1>2, TypeKept, PTL DEF Spec

\* For an application that acts in its callbacks, a live link has its timer, its
\* interrupt mask and its radio configuration, and no advertising timer, however
\* calls, advertising loop and interrupts are interleaved.
THEOREM LinkIsDriven == Spec => []LinkDriven
<1>1. (ActsInCallbacks => ModeInv) /\ EndingInv => LinkDriven
  BY DEF ModeInv, EndingInv, LinkDriven
<1> QED
  BY <1>1, ModeKept, EndingKept, PTL

\* For such an application, advertising without a link can be connected to.
THEOREM Connectable == Spec => []AdvertisingConnectable
<1>1. TypeOK /\ (ActsInCallbacks => ModeInv) => AdvertisingConnectable
  BY DEF TypeOK, ModeInv, AdvertisingConnectable
<1> QED
  BY <1>1, TypeKept, ModeKept, PTL

\* A DISCONNECTED that is the later event and was posted waits.
LEMMA LastWaits ==
    ASSUME TypeOK, NEW e \in Events, PostTwo(e, "disconnected"),
           Len(queue) + 2 < QueueSize
    PROVE  \E i \in 1 .. Len(queue') : queue'[i] = "disconnected"
<1>1. queue' = Append(Append(queue, e), "disconnected")
  BY BoundAssumption DEF TypeOK, PostTwo, Posted
<1>2. Len(queue') = Len(queue) + 2 /\ queue'[Len(queue) + 2] = "disconnected"
  BY <1>1 DEF TypeOK, Events
<1> QED
  BY <1>2 DEF TypeOK

LEMMA KnownKeeps ==
    ASSUME ~Overrun, ActsInCallbacks, TypeOK, LevelInv, ModeInv, KnownInv,
           [Next]_vars
    PROVE  KnownInv'
<1>1. ~MainAdvertises /\ ~MainHangsUp
  BY DEF ActsInCallbacks, MainAdvertises, MainHangsUp
<1> USE Sites DEF KnownInv, Unlinking, linkVars, timerVars, callVars, evtVars
<1>2. CASE AdvHandler
  BY <1>2 DEF AdvHandler, AdvTimerFires, AdvLoop, AdvSilence, AdvDisableSeen, AdvSend,
              AdvEndOfChannel, LastTold
<1>3. CASE AdvTxDisabled \/ RspDisabled
  BY <1>3 DEF AdvTxDisabled, RspDisabled, LastTold
<1>4. ASSUME NEW pdu \in {"scanReq", "connectReq", "other"}, AdvReceives(pdu)
      PROVE  KnownInv'
  BY <1>4 DEF AdvReceives, LastTold
<1>5. CASE AdvRxDisabled
  <2>1. \/ /\ Keeps(1) /\ connected' /\ Post("connected")
           /\ UNCHANGED <<told, paramTimer>>
        \/ UNCHANGED <<connected, queue, told, paramTimer, pc, was>>
    BY <1>5 DEF AdvRxDisabled, PrepareLink
  <2>2. CASE UNCHANGED <<connected, queue, told, paramTimer, pc, was>>
    BY <2>2 DEF LastTold
  <2>3. CASE /\ Keeps(1) /\ connected' /\ Post("connected")
             /\ UNCHANGED <<told, paramTimer>>
    <3>1. Len(queue) < QueueSize
      BY <2>3, BoundAssumption DEF Keeps, TypeOK
    <3>2. LastTold("connected", "disconnected")'
      BY <2>3, <3>1, PostLast DEF Events
    <3> QED
      BY <2>3, <3>2
  <2> QED
    BY <2>1, <2>2, <2>3
<1>6. CASE Timer0
  <2>1. \/ Keeps(2) /\ PostTwo("supervision", "disconnected") /\ ~connected'
        \/ UNCHANGED <<connected, queue, told, paramTimer, pc, was>>
    BY <1>6 DEF Timer0, SupervisionEvents, DropLink
  <2> QED
    BY <2>1, LastWaits DEF Keeps, Events, LastTold
<1>7. CASE ConnReceives
  <2>1. /\ UNCHANGED <<connected, told, paramTimer, pc, was>>
        /\ connected
        /\ queue' = queue \/ Post("other")
    BY <1>7 DEF ConnReceives
  <2>2. CASE queue' = queue
    BY <2>1, <2>2 DEF LastTold
  <2>3. CASE Post("other")
    <3>1. LastTold("connected", "disconnected")'
      BY <2>1, <2>3, PostKeepsLast DEF Events
    <3> QED
      BY <2>1, <3>1
  <2> QED
    BY <2>1, <2>2, <2>3
<1>8. CASE ConnReceivesTerminate
  BY <1>8, LastWaits DEF ConnReceivesTerminate, DropLink, Keeps, Events
<1>9. CASE DisabledCleared \/ ParamTimerFires
  BY <1>9 DEF DisabledCleared, ParamTimerFires, LastTold
<1>10. CASE Dispatch
  <2>1. LastTold("connected", "disconnected")
            => LastTold("connected", "disconnected")'
    BY <1>10, DispatchKeepsLast
  <2>2. /\ UNCHANGED <<connected, was>> /\ pc["swi"] = "idle"
        /\ queue # <<>> /\ queue' = Tail(queue)
        /\ paramTimer' = ParamTimerAfter(Head(queue))
    BY <1>10 DEF Dispatch, LevelFree
  <2>3. CASE paramTimer' /\ ~connected
    <3>1. Head(queue) # "disconnected" /\ paramTimer
      BY <2>2, <2>3 DEF ParamTimerAfter
    <3>2. PICK i \in 1 .. Len(queue) : queue[i] = "disconnected"
      BY <2>2, <2>3, <3>1
    <3>3. /\ i # 1 /\ Len(queue') = Len(queue) - 1
          /\ \A k \in 1 .. Len(queue') : queue'[k] = queue[k + 1]
      BY <2>2, <3>1, <3>2 DEF TypeOK
    <3>4. i - 1 \in 1 .. Len(queue') /\ queue'[i - 1] = "disconnected"
      BY <3>2, <3>3 DEF TypeOK
    <3> QED
      BY <2>2, <2>3, <3>4
  <2> QED
    BY <2>1, <2>2, <2>3
<1> USE Moves DEF ModeInv
<1>11. ASSUME NEW c \in Contexts, Call(c)
       PROVE  KnownInv'
  <2>1. CASE StartAdvArm(c)
    BY <2>1 DEF StartAdvArm, LastTold
  <2>2. CASE DisconnectSample(c)
    BY <2>2 DEF DisconnectSample, LastTold
  <2>3. CASE DisconnectUnlink(c)
    BY <2>3 DEF DisconnectUnlink
  <2>7. CASE DisconnectUntime(c)
    BY <2>7 DEF DisconnectUntime, LastTold
  <2>4. CASE DisconnectSilence(c)
    BY <2>4 DEF DisconnectSilence, LastTold
  <2>5. CASE DisableSeen(c)
    BY <2>5 DEF DisableSeen, LastTold
  <2>6. CASE DisconnectNotify(c)
    <3>1. c = "swi" /\ UNCHANGED <<connected, told, paramTimer, was>> /\ ~connected
      BY <2>6 DEF DisconnectNotify
    <3>2. CASE was["swi"]
      <4>1. /\ Post("disconnected") /\ Len(queue) < QueueSize
        BY <2>6, <3>1, <3>2 DEF DisconnectNotify
      <4>2. queue' = Append(queue, "disconnected")
        BY <4>1 DEF Post, Posted
      <4>3. Len(queue') = Len(queue) + 1 /\ queue'[Len(queue) + 1] = "disconnected"
        BY <4>2 DEF TypeOK
      <4> QED
        BY <3>1, <4>3 DEF TypeOK
    <3>3. CASE ~was["swi"]
      BY <2>6, <3>1, <3>3 DEF DisconnectNotify
    <3> QED
      BY <3>2, <3>3
  <2> QED
    BY <1>11, <2>1, <2>2, <2>3, <2>4, <2>5, <2>6, <2>7 DEF Call
<1>12. CASE CallbackAdvertises
  BY <1>12 DEF CallbackAdvertises, StartAdvTest, LastTold
<1>13. CASE CallbackHangsUp \/ CallbackReturns
  BY <1>13 DEF CallbackHangsUp, CallbackReturns, LastTold
<1>14. CASE UNCHANGED vars
  BY <1>14 DEF vars, LastTold
<1> QED
  BY <1>1, <1>2, <1>3, <1>4, <1>5, <1>6, <1>7, <1>8, <1>9, <1>10, <1>11, <1>12,
     <1>13, <1>14 DEF Next, AdvRadio, Link, Callbacks

\* While callbacks return before the queue is full, an application that acts in
\* its callbacks knows, once no event is to come, whether there is a link, and
\* the parameter update timer runs for a link only.
THEOREM AppKnows ==
    ASSUME ~Overrun
    PROVE  Spec => []AppKnowsLink
<1>1. Init => KnownInv
  BY DEF Init, KnownInv
<1>2. /\ TypeOK /\ LevelInv
      /\ ActsInCallbacks => ModeInv
      /\ ActsInCallbacks => KnownInv
      /\ [Next]_vars
      => (ActsInCallbacks => KnownInv)'
  BY KnownKeeps, AppKept DEF ActsInCallbacks
<1>3. /\ TypeOK /\ NoGhostLink
      /\ ActsInCallbacks => ModeInv
      /\ ActsInCallbacks => KnownInv
      => AppKnowsLink
  BY DEF TypeOK, ModeInv, KnownInv, Unlinking, LastTold, NoGhostLink, AppKnowsLink, Quiet,
         Contexts
<1> QED
  BY <1>1, <1>2, <1>3, TypeKept, ModeKept, NoGhost, PTL DEF Spec

=============================================================================
