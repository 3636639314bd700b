------------------------ MODULE ChargingSessionProofs ------------------------
(***************************************************************************)
(* A session keeps the promise of ChargingSession: the initial states of   *)
(* IsoSession map to its initial state, and every step of poll(), of the   *)
(* EV and of the application maps to one of its steps or changes nothing   *)
(* it speaks of.  The mapping is Charging in IsoSession.                   *)
(***************************************************************************)
EXTENDS SessionSafetyProofs

-----------------------------------------------------------------------------
(* The steps of the promise, in terms of the session *)

PromiseStep == [Charging!PromiseNext]_(Charging!promiseVars)

\* The decisions the promise speaks of.
Standing == approvals \ {"contactor_closed"}

LEMMA PhaseIs ==
    /\ current_state \in {"SupportedAppProtocol", "SessionSetup",
                          "AuthorizationSetup", "Authorization"} => Phase = "setup"
    /\ current_state \in {"ServiceDiscovery", "ServiceDetail", "ServiceSelection"}
          => Phase = "authorized"
    /\ current_state \in {"AC_ChargeParameterDiscovery", "DC_ChargeParameterDiscovery",
                          "ScheduleExchange", "DC_CableCheck", "DC_PreCharge",
                          "PowerDelivery"} => Phase = "preparing"
    /\ current_state \in {"AC_ChargeLoop", "DC_ChargeLoop"} => Phase = "charging"
    /\ current_state \in {"DC_WeldingDetection", "SessionStop"} => Phase = "stopping"
BY DEF Phase, ChargeLoops

LEMMA NextPhaseIs ==
    /\ current_state' \in {"SupportedAppProtocol", "SessionSetup",
                           "AuthorizationSetup", "Authorization"} => Phase' = "setup"
    /\ current_state' \in {"ServiceDiscovery", "ServiceDetail", "ServiceSelection"}
          => Phase' = "authorized"
    /\ current_state' \in {"AC_ChargeParameterDiscovery",
                           "DC_ChargeParameterDiscovery", "ScheduleExchange",
                           "DC_CableCheck", "DC_PreCharge", "PowerDelivery"}
          => Phase' = "preparing"
    /\ current_state' \in {"AC_ChargeLoop", "DC_ChargeLoop"} => Phase' = "charging"
    /\ current_state' \in {"DC_WeldingDetection", "SessionStop"} => Phase' = "stopping"
BY DEF Phase, ChargeLoops

LEMMA StutterStep ==
    ASSUME Phase' = Phase, Link' = Link, session'.selected = session.selected,
           Standing' = Standing
    PROVE  PromiseStep
BY DEF PromiseStep, Standing, Charging!promiseVars

LEMMA DecideStep ==
    ASSUME NEW question,
           Link = "up", Link' = Link, Phase' = Phase,
           session'.selected = session.selected,
           Standing' \in {Standing \cup {question}, Standing \ {question}},
           \/ question = "authorized" /\ Phase = "setup"
           \/ question = "cable_checked" /\ Phase = "preparing" /\ session.selected = "DC"
    PROVE  PromiseStep
BY DEF PromiseStep, Standing, Charging!PromiseNext, Charging!Decide

LEMMA AuthorizeStep ==
    ASSUME Link = "up", Link' = Link, Phase = "setup", Phase' = "authorized",
           "authorized" \in approvals, session'.selected = session.selected,
           Standing' = Standing
    PROVE  PromiseStep
BY DEF PromiseStep, Standing, Charging!PromiseNext, Charging!Authorize

LEMMA ResumeStep ==
    ASSUME Link = "up", Link' = Link, Phase = "setup", Phase' = "preparing",
           session'.selected \in Services, Standing' = Standing \cup {"resumed"}
    PROVE  PromiseStep
BY DEF PromiseStep, Standing, Charging!PromiseNext, Charging!Resume

LEMMA SelectStep ==
    ASSUME Link = "up", Link' = Link, Phase = "authorized",
           Phase' \in {"authorized", "preparing"},
           session'.selected \in Services, Standing' = Standing
    PROVE  PromiseStep
BY DEF PromiseStep, Standing, Charging!PromiseNext, Charging!Select

LEMMA ChargeStep ==
    ASSUME Link = "up", Link' = Link, Phase = "preparing", Phase' = "charging",
           session.selected = "DC" => "cable_checked" \in approvals,
           session'.selected = session.selected, Standing' = Standing
    PROVE  PromiseStep
BY DEF PromiseStep, Standing, Charging!PromiseNext, Charging!Charge

LEMMA StopStep ==
    ASSUME Link = "up", Link' = Link, Phase = "charging", Phase' = "stopping",
           session'.selected = session.selected, Standing' = Standing
    PROVE  PromiseStep
BY DEF PromiseStep, Standing, Charging!PromiseNext, Charging!Stop

LEMMA ReleaseStep ==
    ASSUME Link = "up",
           Link' = "terminated" \/ (Link' = "paused" /\ Phase = "stopping"),
           Phase' = Phase, session'.selected = session.selected, Standing' = Standing
    PROVE  PromiseStep
BY DEF PromiseStep, Standing, Charging!PromiseNext, Charging!Release

-----------------------------------------------------------------------------
(* A request *)

\* Staying in a state, or going on within a phase, is no step of the promise.
LEMMA StayPromise ==
    ASSUME NEW l, Stay(l), Link' = Link, session'.selected = session.selected,
           approvals' = approvals
    PROVE  PromiseStep
<1>1. Phase' = Phase
  BY DEF Stay, Phase
<1>. QED BY <1>1, StutterStep DEF Standing

LEMMA UnexpectedPromise ==
    ASSUME Link' = Link, NEW m, NEW expected,
           UnexpectedRequest(m, expected) \/ StopOrSequenceError(m, expected)
    PROVE  PromiseStep
<1>1. Stay(local) /\ UNCHANGED quietVars
  BY DEF UnexpectedRequest, StopOrSequenceError, SequenceError
<1>. QED BY <1>1, StayPromise DEF quietVars, contextVars

LEMMA SetupPromise ==
    ASSUME TypeOK, StateInv, Link = "up", Link' = Link, NEW m \in Messages,
           \/ current_state = "SupportedAppProtocol" /\ SupportedAppProtocol_feed(m)
           \/ current_state = "SessionSetup" /\ SessionSetup_feed(m)
           \/ current_state = "AuthorizationSetup" /\ AuthorizationSetup_feed(m)
           \/ current_state = "Authorization" /\ Authorization_feed(m)
    PROVE  PromiseStep
<1>1. Phase = "setup"
  BY PhaseIs
<1>2. CASE current_state = "SessionSetup" /\ SessionSetup_feed(m)
  <2>1. session.selected = "None"
    BY <1>2 DEF StateInv, ServiceInv
  <2>2. CASE SessionSetup_new(m)
    <3>1. /\ current_state' = "AuthorizationSetup"
          /\ session'.selected = "None"
          /\ approvals' = approvals
      BY <2>2 DEF SessionSetup_new, RespondThen, Goto, NewSession
    <3>. QED BY <1>1, <2>1, <3>1, NextPhaseIs, StutterStep DEF Standing
  <2>3. CASE SessionSetup_resume(m)
    <3>1. pause_ctx.selected \in {"AC", "DC", "None"}
      BY DEF TypeOK, D20TypeOK, PauseContextType, Services
    <3>2. session'.selected = pause_ctx.selected
      BY <2>3 DEF SessionSetup_resume, NewSession
    <3>3. CASE pause_ctx.selected = "None"
      BY <2>1, <2>3, <3>2, <3>3, StayPromise DEF SessionSetup_resume
    <3>4. CASE pause_ctx.selected # "None"
      <4>1. /\ current_state' \in {"AC_ChargeParameterDiscovery",
                                   "DC_ChargeParameterDiscovery"}
            /\ approvals' = approvals \cup {"resumed"}
        BY <2>3, <3>1, <3>4 DEF SessionSetup_resume, Goto
      <4>2. Standing' = Standing \cup {"resumed"}
        BY <4>1 DEF Standing
      <4>. QED
        BY <1>1, <3>1, <3>2, <3>4, <4>1, <4>2, NextPhaseIs, ResumeStep DEF Services
    <3>. QED BY <3>3, <3>4
  <2>. QED BY <1>2, <2>2, <2>3, UnexpectedPromise DEF SessionSetup_feed
<1>3. CASE current_state = "Authorization" /\ Authorization_feed(m)
  <2>1. CASE \E x : StopOrSequenceError(m, x)
    BY <2>1, UnexpectedPromise
  <2>2. CASE ~\E x : StopOrSequenceError(m, x)
    <3>1. UNCHANGED <<session, approvals>>
      BY <1>3, <2>2 DEF Authorization_feed, contextVars
    <3>2. \/ \E l : Stay(l)
          \/ local.auth = "Accepted" /\ current_state' = "ServiceDiscovery"
      BY <1>3, <2>2 DEF Authorization_feed, AuthorizationGranted, Goto
    <3>3. local.auth = "Accepted" => "authorized" \in approvals
      BY <1>3 DEF StateInv, AuthorizationInv
    <3>. QED
      BY <1>1, <3>1, <3>2, <3>3, NextPhaseIs, StayPromise, AuthorizeStep DEF Standing
  <2>. QED BY <2>1, <2>2
<1>4. CASE \/ current_state = "SupportedAppProtocol" /\ SupportedAppProtocol_feed(m)
           \/ current_state = "AuthorizationSetup" /\ AuthorizationSetup_feed(m)
  <2>1. CASE \E x : StopOrSequenceError(m, x)
    BY <2>1, UnexpectedPromise
  <2>2. CASE ~\E x : StopOrSequenceError(m, x)
    <3>1. UNCHANGED <<session, approvals>>
      BY <1>4, <2>2
      DEF SupportedAppProtocol_feed, AuthorizationSetup_feed, quietVars, contextVars
    <3>2. current_state' \in {"SupportedAppProtocol", "SessionSetup",
                              "AuthorizationSetup", "Authorization"}
      BY <1>4, <2>2
      DEF SupportedAppProtocol_feed, AuthorizationSetup_feed, RespondThen, Stay, Goto
    <3>. QED BY <1>1, <3>1, <3>2, NextPhaseIs, StutterStep DEF Standing
  <2>. QED BY <2>1, <2>2
<1>. QED BY <1>2, <1>3, <1>4

LEMMA ServicePromise ==
    ASSUME TypeOK, StateInv, Link = "up", Link' = Link, NEW m \in Messages,
           \/ current_state = "ServiceDiscovery" /\ ServiceDiscovery_feed(m)
           \/ current_state = "ServiceDetail" /\ ServiceDetail_feed(m)
           \/ current_state = "ServiceSelection" /\ ServiceSelection_feed(m)
    PROVE  PromiseStep
<1>1. Phase = "authorized"
  BY PhaseIs
<1>2. CASE \E x : StopOrSequenceError(m, x)
  BY <1>2, UnexpectedPromise
<1>3. CASE /\ ~\E x : StopOrSequenceError(m, x)
           /\ \/ current_state = "ServiceDiscovery" /\ ServiceDiscovery_feed(m)
              \/ current_state = "ServiceDetail" /\ ServiceDetail_feed(m)
  <2>1. approvals' = approvals /\ session'.selected = session.selected
    BY <1>3
    DEF ServiceDiscovery_feed, ServiceDetail_feed, Detailed, contextVars, TypeOK,
        D20TypeOK, Sessions
  <2>2. current_state' \in {"ServiceDiscovery", "ServiceDetail", "ServiceSelection"}
    BY <1>3 DEF ServiceDiscovery_feed, ServiceDetail_feed, RespondThen, Stay, Goto
  <2>. QED BY <1>1, <2>1, <2>2, NextPhaseIs, StutterStep DEF Standing
<1>4. CASE /\ ~\E x : StopOrSequenceError(m, x)
           /\ current_state = "ServiceSelection"
           /\ ServiceSelection_feed(m)
  <2>1. approvals' = approvals
    BY <1>4 DEF ServiceSelection_feed, contextVars
  <2>2. CASE m.type = "ServiceDetailReq"
    <3>1. Stay(local) /\ session'.selected = session.selected
      BY <1>4, <2>2 DEF ServiceSelection_feed, Detailed, TypeOK, D20TypeOK, Sessions
    <3>. QED BY <2>1, <3>1, StayPromise
  <2>3. CASE m.type # "ServiceDetailReq"
    <3>1. current_state' \in {"ServiceSelection", "AC_ChargeParameterDiscovery",
                              "DC_ChargeParameterDiscovery"}
      BY <1>4, <2>3 DEF ServiceSelection_feed, RespondThen, Stay, Goto
    <3>2. CASE EnergySelected(m)
      <4>1. SelectedEnergy(m) \in Services
        BY <3>2
        DEF EnergySelected, SelectedEnergy, TypeOK, D20TypeOK, Sessions, Services,
            Offerable
      <4>2. session'.selected = SelectedEnergy(m)
        BY <1>4, <2>3, <3>2 DEF ServiceSelection_feed, TypeOK, D20TypeOK, Sessions
      <4>. QED
        BY <1>1, <2>1, <3>1, <4>1, <4>2, NextPhaseIs, SelectStep DEF Standing
    <3>3. CASE ~EnergySelected(m)
      <4>1. Stay(local) /\ session' = session
        BY <1>4, <2>3, <3>3
        DEF ServiceSelection_feed, ServiceSelectionCode, RespondThen
      <4>. QED BY <2>1, <4>1, StayPromise
    <3>. QED BY <3>2, <3>3
  <2>. QED BY <2>2, <2>3
<1>. QED BY <1>2, <1>3, <1>4

LEMMA PreparePromise ==
    ASSUME TypeOK, StateInv, Link = "up", Link' = Link, NEW m \in Messages,
           \/ /\ current_state = "AC_ChargeParameterDiscovery"
              /\ AC_ChargeParameterDiscovery_feed(m)
           \/ /\ current_state = "DC_ChargeParameterDiscovery"
              /\ DC_ChargeParameterDiscovery_feed(m)
           \/ current_state = "ScheduleExchange" /\ ScheduleExchange_feed(m)
           \/ current_state = "DC_CableCheck" /\ DC_CableCheck_feed(m)
           \/ current_state = "DC_PreCharge" /\ DC_PreCharge_feed(m)
           \/ current_state = "PowerDelivery" /\ PowerDelivery_feed(m)
    PROVE  PromiseStep
<1>1. Phase = "preparing"
  BY PhaseIs
<1>2. CASE \E x : StopOrSequenceError(m, x) \/ UnexpectedRequest(m, x)
  BY <1>2, UnexpectedPromise
<1>3. CASE ~\E x : StopOrSequenceError(m, x) \/ UnexpectedRequest(m, x)
  <2>1. UNCHANGED <<session, approvals>>
    BY <1>3
    DEF AC_ChargeParameterDiscovery_feed, DC_ChargeParameterDiscovery_feed,
        ScheduleExchange_feed, DC_CableCheck_feed, DC_PreCharge_feed,
        PowerDelivery_feed, PowerDelivery_await, PowerDelivery_answer, quietVars,
        sessionVars, contextVars
  <2>2. CASE current_state = "PowerDelivery"
    <3>1. \/ \E l : Stay(l)
          \/ current_state' \in {"AC_ChargeLoop", "DC_ChargeLoop"}
      BY <1>3, <2>2
      DEF PowerDelivery_feed, PowerDelivery_await, PowerDelivery_answer, Goto
    <3>2. session.selected = "DC" => "cable_checked" \in approvals
      BY <2>2 DEF StateInv, CableCheckInv, CableChecked
    <3>. QED
      BY <1>1, <2>1, <3>1, <3>2, NextPhaseIs, StayPromise, ChargeStep DEF Standing
  <2>3. CASE current_state # "PowerDelivery"
    <3>1. \/ \E l : Stay(l)
          \/ current_state' \in {"ScheduleExchange", "DC_CableCheck", "DC_PreCharge",
                                 "PowerDelivery"}
      BY <1>3, <2>3
      DEF AC_ChargeParameterDiscovery_feed, DC_ChargeParameterDiscovery_feed,
          ScheduleExchange_feed, DC_CableCheck_feed, DC_PreCharge_feed, RespondThen,
          Goto
    <3>. QED
      BY <1>1, <2>1, <3>1, NextPhaseIs, StayPromise, StutterStep DEF Standing
  <2>. QED BY <2>2, <2>3
<1>. QED BY <1>2, <1>3

LEMMA ChargePromise ==
    ASSUME TypeOK, StateInv, Link = "up", Link' = Link, NEW m \in Messages,
           \/ current_state = "AC_ChargeLoop" /\ AC_ChargeLoop_feed(m)
           \/ current_state = "DC_ChargeLoop" /\ DC_ChargeLoop_feed(m)
           \/ current_state = "DC_WeldingDetection" /\ DC_WeldingDetection_feed(m)
           \/ current_state = "SessionStop" /\ SessionStop_feed(m)
    PROVE  PromiseStep
<1>1. CASE \E x : UnexpectedRequest(m, x)
  BY <1>1, UnexpectedPromise
<1>2. CASE ~\E x : UnexpectedRequest(m, x)
  <2>1. UNCHANGED <<session, approvals>>
    BY <1>2
    DEF AC_ChargeLoop_feed, DC_ChargeLoop_feed, DC_WeldingDetection_feed,
        SessionStop_feed, ChargeLoopEnd, ChargeLoopRequest, EndSession, quietVars,
        contextVars
  <2>2. \/ \E l : Stay(l)
        \/ current_state' \in {"DC_WeldingDetection", "SessionStop"}
    BY <1>2
    DEF AC_ChargeLoop_feed, DC_ChargeLoop_feed, DC_WeldingDetection_feed,
        SessionStop_feed, ChargeLoopEnd, ChargeLoopRequest, EndSession, Goto
  <2>. QED
    BY <2>1, <2>2, PhaseIs, NextPhaseIs, StayPromise, StutterStep, StopStep
    DEF Standing
<1>. QED BY <1>1, <1>2

LEMMA FeedPromise ==
    ASSUME TypeOK, StateInv, Link = "up", Link' = Link, FeedMessage
    PROVE  PromiseStep
<1>1. request \in Messages
  BY DEF FeedMessage, TypeOK, D20TypeOK
<1>. QED
  BY <1>1, SetupPromise, ServicePromise, PreparePromise, ChargePromise
  DEF FeedMessage

-----------------------------------------------------------------------------
(* Control events, the end of the connection and all other steps *)

LEMMA ControlPromise ==
    ASSUME TypeOK, StateInv, Link = "up", Link' = Link, NEW e \in ControlEvents,
           FeedControl(e)
    PROVE  PromiseStep
<1>1. session' = session /\ approvals' = Approved(e)
  BY DEF FeedControl
<1>2. CASE current_state = "PowerDelivery" /\ e.kind = "ClosedContactor"
  <2>1. Standing' = Standing
    BY <1>1, <1>2, ApprovedIs DEF Standing
  <2>2. CASE \E l : Stay(l)
    <3>1. Phase' = Phase
      BY <2>2 DEF Stay, Phase
    <3>. QED BY <1>1, <2>1, <3>1, StutterStep
  <2>3. CASE ~\E l : Stay(l)
    <3>1. current_state' = "AC_ChargeLoop" /\ local.previous_req # "None"
      BY <1>2, <2>3 DEF FeedControl, ClosedContactor, Goto
    <3>2. session.selected = "AC"
      BY <1>2, <3>1 DEF StateInv, ServiceInv
    <3>. QED
      BY <1>1, <1>2, <2>1, <3>1, <3>2, PhaseIs, NextPhaseIs, ChargeStep
  <2>. QED BY <2>2, <2>3
<1>3. CASE ~(current_state = "PowerDelivery" /\ e.kind = "ClosedContactor")
  <2>1. Phase' = Phase
    BY <1>3 DEF FeedControl, Stay, Phase
  <2>2. CASE current_state = "Authorization" /\ e.kind = "AuthorizationResponse"
    <3>1. Standing' \in {Standing \cup {"authorized"}, Standing \ {"authorized"}}
      BY <1>1, <2>2, ApprovedIs DEF Standing
    <3>. QED BY <1>1, <2>1, <2>2, <3>1, PhaseIs, DecideStep
  <2>3. CASE current_state = "DC_CableCheck" /\ e.kind = "CableCheckFinished"
    <3>1. Standing' \in {Standing \cup {"cable_checked"}, Standing \ {"cable_checked"}}
      BY <1>1, <2>3, ApprovedIs DEF Standing
    <3>2. session.selected = "DC"
      BY <2>3 DEF StateInv, ServiceInv, ServiceAgreed
    <3>. QED BY <1>1, <2>1, <2>3, <3>1, <3>2, PhaseIs, DecideStep
  <2>4. CASE /\ ~(current_state = "Authorization" /\ e.kind = "AuthorizationResponse")
             /\ ~(current_state = "DC_CableCheck" /\ e.kind = "CableCheckFinished")
    <3>1. Standing' = Standing
      BY <1>1, <1>3, <2>4, ApprovedIs DEF Standing
    <3>. QED BY <1>1, <2>1, <3>1, StutterStep
  <2>. QED BY <2>2, <2>3, <2>4
<1>. QED BY <1>2, <1>3

\* The link is up as long as the connection is not closed.
LEMMA LinkIs ==
    ASSUME PollInv, connected # "closed" PROVE Link = "up" /\ dlink = <<>>
BY DEF PollInv, Link

LEMMA ClosePromise ==
    ASSUME TypeOK, StateInv, PollInv, Close \/ DelayedClose PROVE PromiseStep
<1>1. connected = "yes"
  BY DEF Close, DelayedClose, PollInv
<1>2. Link = "up" /\ dlink = <<>>
  BY <1>1, LinkIs
<1>3. UNCHANGED <<current_state, session, approvals>>
  BY DEF Close, DelayedClose, d20Vars, fsmVars, sessionVars, contextVars
<1>4. Phase' = Phase /\ Standing' = Standing
  BY <1>3 DEF Phase, Standing
<1>5. CASE dlink' = <<"DLINK_TERMINATE">>
  <2>1. Link' = "terminated"
    BY <1>5 DEF Link
  <2>. QED BY <1>2, <1>3, <1>4, <2>1, ReleaseStep
<1>6. CASE dlink' = <<"DLINK_PAUSE">> /\ session_paused
  <2>1. Link' = "paused"
    BY <1>6 DEF Link
  <2>2. Phase = "stopping"
    BY <1>6, PhaseIs DEF StateInv, PausedInv
  <2>. QED BY <1>2, <1>3, <1>4, <2>1, <2>2, ReleaseStep
<1>7. \/ dlink' = <<"DLINK_TERMINATE">>
      \/ dlink' = <<"DLINK_PAUSE">> /\ session_paused
  BY <1>2 DEF Close, DelayedClose
<1>. QED BY <1>5, <1>6, <1>7

LEMMA NextKeepsPromise ==
    TypeOK /\ StateInv /\ PollInv /\ [Next]_vars => PromiseStep
<1>. SUFFICES ASSUME TypeOK, StateInv, PollInv, [Next]_vars PROVE PromiseStep
  OBVIOUS
<1>. USE DEF ioVars, pollVars
<1>1. CASE UNCHANGED <<current_state, session, approvals, dlink>>
  <2>1. Phase' = Phase /\ Link' = Link /\ Standing' = Standing
    BY <1>1 DEF Phase, Link, Standing
  <2>. QED BY <1>1, <2>1, StutterStep
<1>2. CASE PopControl
  <2>1. Head(queue) \in ControlEvents
    BY <1>2 DEF PopControl, TypeOK
  <2>2. Link = "up"
    BY <1>2, LinkIs DEF PopControl, PollInv
  <2>3. Link' = Link
    BY <1>2 DEF PopControl, Link
  <2>. QED BY <1>2, <2>1, <2>2, <2>3, ControlPromise DEF PopControl
<1>3. CASE Feed
  <2>1. Link = "up"
    BY <1>3, LinkIs DEF Feed, PollInv
  <2>2. Link' = Link
    BY <1>3 DEF Feed, Link
  <2>. QED BY <1>3, <2>1, <2>2, FeedPromise DEF Feed
<1>4. CASE Close \/ DelayedClose
  BY <1>4, ClosePromise
<1>5. CASE OtherTimeout
  BY <1>1, <1>5 DEF OtherTimeout, FeedTimeout, Stay, quietVars, contextVars
<1>6. CASE \/ EvConnect \/ (\E q \in EvRequests : EvSend(q))
           \/ (\E e \in AppEvents : Push(e)) \/ Tick \/ UNCHANGED vars
  BY <1>1, <1>6, Zenon
  DEF EvConnect, EvSend, Push, Tick, vars, d20Vars, fsmVars, sessionVars, contextVars
<1>7. CASE \/ PollStart \/ ReadThrows \/ ControlDone \/ SequenceTimeout \/ TimeoutFed
           \/ NoPacket \/ SetRequest \/ DecodeThrows
  BY <1>1, <1>7
  DEF PollStart, ReadThrows, ControlDone, SequenceTimeout, TimeoutFed, NoPacket,
      SetRequest, DecodeThrows, d20Vars, fsmVars, sessionVars, contextVars
<1>8. CASE \/ CheckFeedResult \/ NoResponse \/ Respond \/ ResponseDiscarded
           \/ RespondThrows \/ PollEnd
  BY <1>1, <1>8
  DEF CheckFeedResult, NoResponse, Respond, ResponseDiscarded, RespondThrows, PollEnd,
      d20Vars, fsmVars, sessionVars, contextVars
<1>. QED
  BY <1>2, <1>3, <1>4, <1>5, <1>6, <1>7, <1>8 DEF Next, PollStep

LEMMA PromiseInitially == Init => Charging!PromiseInit
<1>. SUFFICES ASSUME Init PROVE Charging!PromiseInit
  OBVIOUS
<1>1. Phase = "setup"
  BY PhaseIs DEF Init
<1>2. Link = "up"
  BY DEF Init, Link
<1>3. session.selected = "None" /\ approvals = {}
  BY DEF Init, NewSession
<1>. QED BY <1>1, <1>2, <1>3 DEF Charging!PromiseInit

\* IsoSession implements ChargingSession for every EV, application, configuration and
\* duration: its phases only go forward, each is entered with the decision it needs
\* standing at that moment, and nothing that arrives late has an effect after the
\* data link was released.
THEOREM SessionKeepsPromise == Spec => KeepsPromise
<1>1. Init => Charging!PromiseInit
  BY PromiseInitially
<1>2. TypeOK /\ StateInv /\ PollInv /\ [Next]_vars
        => [Charging!PromiseNext]_(Charging!promiseVars)
  BY NextKeepsPromise DEF PromiseStep
<1>. QED
  BY <1>1, <1>2, TypeCorrectness, StateInvCorrect, PollInvCorrect, PTL
  DEF Spec, KeepsPromise, Charging!Promise

=============================================================================
