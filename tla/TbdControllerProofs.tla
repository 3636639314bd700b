------------------------- MODULE TbdControllerProofs -------------------------
(***************************************************************************)
(* Theorems about a controller that makes any number of sessions, one      *)
(* after the other: what the modules it extends show of one session holds  *)
(* for each of them, and what passes from one session to the next through  *)
(* the pause context is what the earlier one left.                         *)
(***************************************************************************)
EXTENDS TbdController, AnswerProofs, ChargingSessionProofs

-----------------------------------------------------------------------------
(* The inductive invariants *)

\* What is known of a session with an EV that sends one request at a time.
WaitingInv == MaxOutstanding = 1 => WaitInv /\ AwaitedInv

\* What is known of one session, see the other modules.
SessionInv ==
    /\ TypeOK
    /\ PollInv
    /\ ConnectInv
    /\ ExchangeInv
    /\ LatestParameters
    /\ StateInv
    /\ HealthInv
    /\ AccountInv
    /\ SupervisedInv
    /\ ContactorTimerInv
    /\ WaitingInv

ControllerTypeOK ==
    /\ alive \in BOOLEAN
    /\ made \in Nat
    /\ evse_services \in SUBSET Offerable

\* Some vehicle paused with service s: vehicle v in the session with this id, or a
\* vehicle without certificate.
PausedWith(s, v, id) ==
    \E p \in paused : p[3] = s /\ (p[1] = NoCert \/ (p[1] = v /\ p[2] = id))

EarlyStates ==
    {"SupportedAppProtocol", "SessionSetup", "AuthorizationSetup", "Authorization",
     "ServiceDiscovery", "ServiceDetail", "ServiceSelection"}

\* A resumed session has the service of a paused one.
ResumedInv ==
    /\ "resumed" \in approvals => current_state \notin EarlyStates
    /\ "resumed" \in approvals /\ session.selected # "None"
          => PausedWith(session.selected, cert, session.id)

\* So has the pause context, and a session that was just paused is recorded.
PauseRecordInv ==
    /\ pause_ctx.selected # "None"
          => PausedWith(pause_ctx.selected, pause_ctx.vehicle, pause_ctx.id)
    /\ session_paused => <<cert, session.id, session.selected>> \in paused

-----------------------------------------------------------------------------
(* Every session of the controller *)

LEMMA SessionInvInit == Init => SessionInv
<1>. SUFFICES ASSUME Init PROVE SessionInv
  OBVIOUS
<1>1. ConnectInv /\ ExchangeInv /\ LatestParameters
  BY DEF Init, ConnectInv, ExchangeInv, ExchangeEmptied, LatestParameters, ChargeLoops
<1>2. SupervisedInv /\ ContactorTimerInv /\ WaitingInv
  BY AnswerInvInit DEF WaitingInv
<1>. QED
  BY <1>1, <1>2, InitType, PollInvInit, StateInvInit, HealthInvInit, AccountInvInit
  DEF SessionInv

LEMMA SessionInvNext == SessionInv /\ [Next]_vars => SessionInv'
BY NextType, PollInvNext, ConnectInvNext, ExchangeInvNext, LatestParametersNext,
   StateInvNext, HealthInvNext, AccountInvNext, SupervisedInvNext,
   ContactorTimerInvNext, WaitInvNext, AwaitedInvNext
DEF SessionInv, WaitingInv

\* An update of the configuration is pushed like any control event.
LEMMA PushSessionInv ==
    ASSUME SessionInv, NEW e \in ControlEvents, Push(e) PROVE SessionInv'
<1>1. UNCHANGED <<d20Vars, pc, ioVars, pending, active_timeout, delayed_close, dlink>>
  BY DEF Push
<1>. USE DEF SessionInv, ioVars
<1>2. TypeOK'
  <2>1. queue' \in Seq(ControlEvents)
    BY DEF Push, TypeOK
  <2>. QED BY <1>1, <2>1, D20Unchanged DEF TypeOK
<1>. USE <1>1 DEF d20Vars, fsmVars, exchangeVars, sessionVars, contextVars
<1>3. PollInv' /\ ConnectInv' /\ ExchangeInv'
  BY DEF PollInv, ConnectInv, ExchangeInv, ExchangeEmptied, Finishing
<1>4. LatestParameters'
  BY DEF LatestParameters
<1>5. StateInv'
  BY NoFeedStateInv DEF stateInvVars
<1>6. HealthInv'
  BY DEF HealthInv, FailureInv, ContactorInv, SequenceInv, Unhandled, Finishing
<1>7. Taken' = Taken /\ Busy' = Busy /\ Unhandled' = Unhandled /\ Finishing' = Finishing
  BY DEF Taken, Busy, Unhandled, Finishing
<1>8. AccountInv'
  BY <1>7 DEF AccountInv, BufferOwed, LastTaken
<1>9. SupervisedInv' /\ ContactorTimerInv'
  BY <1>7 DEF SupervisedInv, Unanswerable, ContactorTimerInv
<1>10. WaitingInv'
  BY <1>7 DEF WaitingInv, WaitInv, AwaitedInv
<1>. QED BY <1>2, <1>3, <1>4, <1>5, <1>6, <1>8, <1>9, <1>10

\* A new session begins as the first one does, with the pause context it finds.
LEMMA FreshSessionInv ==
    ASSUME SessionInv, ControllerTypeOK, HandleSdp PROVE SessionInv'
<1>. USE DEF HandleSdp
<1>1. ~timeouts'["SEQUENCE"].on /\ ~timeouts'["CONTACTOR"].on /\ ~timeouts'["ONGOING"].on
  BY TheTimeouts DEF NoTimeouts, Off
<1>2. session'.selected = "None"
  BY DEF NewSession
<1>3. TypeOK'
  <2>1. local' \in Locals
    BY ConstructedType
  <2>2. timeouts' \in [TimeoutTypes -> Deadlines] /\ delayed_close' \in Deadlines
    BY DEF NoTimeouts, Off, Deadlines
  <2>3. session' \in Sessions /\ cache' \in CacheType /\ next_id' \in Nat
    BY DEF NewSession, Sessions, CacheType, SessionInv, TypeOK, D20TypeOK
  <2>4. pause_ctx' \in PauseContextType /\ services' \in SUBSET Offerable
    BY DEF SessionInv, TypeOK, D20TypeOK, ControllerTypeOK
  <2>5. D20TypeOK'
    BY <2>1, <2>2, <2>3, <2>4 DEF D20TypeOK, StateIDs
  <2>6. /\ inbox' \in Seq(Messages)
        /\ queue' \in Seq(ControlEvents)
        /\ dlink' \in Seq({"DLINK_PAUSE", "DLINK_TERMINATE"})
        /\ owed' \in Seq(MessageTypes)
    OBVIOUS
  <2>. QED BY <2>2, <2>5, <2>6 DEF TypeOK, PCs
<1>4. PollInv' /\ ConnectInv' /\ ExchangeInv' /\ LatestParameters'
  BY DEF PollInv, ConnectInv, ExchangeInv, ExchangeEmptied, LatestParameters,
         ChargeLoops, Finishing, Off
<1>5. StateInv'
  BY <1>1, <1>2
  DEF StateInv, AuthorizationInv, AuthorizedOrResumed, CableCheckInv, CableChecked,
      ServiceInv, ServiceAgreed, PausedInv, PauseContextOwn, OngoingTimerScoped
<1>6. local'.previous_req = "None"
  BY DEF Constructed
<1>7. HealthInv'
  BY <1>1, <1>6 DEF HealthInv, FailureInv, ContactorInv, SequenceInv
<1>8. AccountInv' /\ SupervisedInv'
  BY DEF AccountInv, BufferOwed, Taken, LastTaken, Busy, SupervisedInv
<1>9. ContactorTimerInv' /\ WaitingInv'
  BY <1>1, <1>6 DEF ContactorTimerInv, WaitingInv, WaitInv, AwaitedInv
<1>. QED BY <1>3, <1>4, <1>5, <1>7, <1>8, <1>9 DEF SessionInv

\* A step of the controller is a step of its session, an update of the services that
\* is pushed, or a new session.
LEMMA ControllerSteps ==
    ASSUME [TbdNext]_tbdVars
    PROVE  \/ [Next]_vars
           \/ \E e \in Updates : Push(e)
           \/ HandleSdp
<1>1. CASE \E e \in AppEvents : SendControlEvent(e)
  BY <1>1 DEF SendControlEvent, Next
<1>2. CASE \E e \in Updates : UpdateServices(e)
  BY <1>2 DEF UpdateServices
<1>3. CASE Environment
  BY <1>3 DEF Environment, Next
<1>4. CASE Polling \/ PollReturns
  BY <1>4 DEF Polling, PollReturns, Next, PollStep
<1>5. CASE UNCHANGED tbdVars
  BY <1>5 DEF tbdVars
<1>. QED BY <1>1, <1>2, <1>3, <1>4, <1>5 DEF TbdNext

LEMMA ControllerTypeNext ==
    ControllerTypeOK /\ [TbdNext]_tbdVars => ControllerTypeOK'
<1>. SUFFICES ASSUME ControllerTypeOK, [TbdNext]_tbdVars PROVE ControllerTypeOK'
  OBVIOUS
<1>. USE DEF ControllerTypeOK
<1>1. CASE \E e \in Updates : UpdateServices(e)
  <2>1. PICK e \in Updates : UpdateServices(e)
    BY <1>1
  <2>2. Configured(evse_services, e) \in SUBSET Offerable
    BY ControllerAssumption, ControlEventType DEF Configured, Offerable
  <2>. QED BY <2>1, <2>2 DEF UpdateServices
<1>2. CASE \/ (\E e \in AppEvents : SendControlEvent(e))
           \/ Environment
           \/ UNCHANGED tbdVars
  BY <1>2 DEF SendControlEvent, Environment, tbdVars, controllerVars
<1>3. CASE HandleSdp \/ Polling \/ PollReturns
  <2>1. made' \in Nat
    BY <1>3 DEF HandleSdp, Polling, PollReturns
  <2>. QED BY <1>3, <2>1, Zenon DEF HandleSdp, Polling, PollReturns
<1>. QED BY <1>1, <1>2, <1>3 DEF TbdNext

LEMMA SessionInvTbdNext ==
    SessionInv /\ ControllerTypeOK /\ [TbdNext]_tbdVars => SessionInv'
<1>. SUFFICES ASSUME SessionInv, ControllerTypeOK, [TbdNext]_tbdVars
              PROVE  SessionInv'
  OBVIOUS
<1>1. CASE [Next]_vars
  BY <1>1, SessionInvNext
<1>2. CASE \E e \in Updates : Push(e)
  BY <1>2, PushSessionInv, ControllerAssumption
<1>3. CASE HandleSdp
  BY <1>3, FreshSessionInv
<1>. QED BY <1>1, <1>2, <1>3, ControllerSteps

LEMMA SessionInvCorrect == TbdSpec => [](SessionInv /\ ControllerTypeOK)
<1>1. TbdInit => SessionInv /\ ControllerTypeOK
  <2>1. TbdInit => ControllerTypeOK
    <3>1. TbdInit => made \in Nat
      BY DEF TbdInit
    <3>. QED BY <3>1, EnvironmentAssumption, Zenon DEF TbdInit, ControllerTypeOK
  <2>. QED BY <2>1, SessionInvInit DEF TbdInit
<1>2. ControllerTypeOK /\ [TbdNext]_tbdVars => ControllerTypeOK'
  BY ControllerTypeNext
<1>3. SessionInv /\ ControllerTypeOK /\ [TbdNext]_tbdVars => SessionInv'
  BY SessionInvTbdNext
<1>. QED BY <1>1, <1>2, <1>3, PTL DEF TbdSpec

SessionSafe ==
    /\ TypeOK /\ ExchangeEmptied /\ LatestParameters
    /\ AuthorizedOrResumed /\ CableChecked /\ ServiceAgreed
    /\ PauseContextOwn /\ FailureEndsSession
    /\ OngoingTimerScoped /\ ContactorTimerScoped /\ SequenceSupervised
    /\ CloseScheduled /\ DlinkOnce
    /\ HealthyAnswersInOrder
    /\ MaxOutstanding = 1 => AnswersInOrder /\ ContactorAwaited

LEMMA SessionInvSafe == SessionInv => SessionSafe
<1>. SUFFICES ASSUME SessionInv PROVE SessionSafe
  OBVIOUS
<1>1. TypeOK /\ ExchangeEmptied /\ LatestParameters
  BY DEF SessionInv, ExchangeInv
<1>2. /\ AuthorizedOrResumed /\ CableChecked /\ ServiceAgreed
      /\ PauseContextOwn /\ OngoingTimerScoped
  BY DEF SessionInv, StateInv, AuthorizationInv, CableCheckInv, ServiceInv
<1>3. FailureEndsSession /\ ContactorTimerScoped
  BY DEF SessionInv, HealthInv, FailureInv, FailureEndsSession, ContactorInv,
         ContactorTimerScoped, Unhandled
<1>4. CloseScheduled /\ DlinkOnce
  BY DlinkCounted
  DEF SessionInv, PollInv, CloseScheduled, TypeOK, D20TypeOK, Finishing, Deadlines
<1>5. SequenceSupervised /\ HealthyAnswersInOrder
  BY Supervision, HealthyAnswers DEF SessionInv
<1>6. MaxOutstanding = 1 => AnswersInOrder /\ ContactorAwaited
  BY WaitedAnswers, WaitedContactor DEF SessionInv, WaitingInv
<1>. QED BY <1>1, <1>2, <1>3, <1>4, <1>5, <1>6 DEF SessionSafe

\* What one session guarantees, every session of the controller guarantees, whatever
\* pause context and configuration its predecessors left and however often the
\* application changed the services.
THEOREM EverySessionIsSafe ==
    TbdSpec => [](/\ TypeOK /\ ExchangeEmptied /\ LatestParameters
                  /\ AuthorizedOrResumed /\ CableChecked /\ ServiceAgreed
                  /\ PauseContextOwn /\ FailureEndsSession
                  /\ OngoingTimerScoped /\ ContactorTimerScoped /\ SequenceSupervised
                  /\ CloseScheduled /\ DlinkOnce
                  /\ HealthyAnswersInOrder
                  /\ MaxOutstanding = 1 => AnswersInOrder /\ ContactorAwaited)
<1>1. SessionInv => SessionSafe
  BY SessionInvSafe
<1>. QED BY <1>1, SessionInvCorrect, PTL DEF SessionSafe

-----------------------------------------------------------------------------
(* Every session keeps the promise *)

LEMMA ControllerPromise ==
    SessionInv /\ ControllerTypeOK /\ [TbdNext]_tbdVars
        => IF made' # made
           THEN Charging!PromiseInit'
           ELSE Charging!PromiseNext \/ UNCHANGED Charging!promiseVars
<1>. SUFFICES ASSUME SessionInv, ControllerTypeOK, [TbdNext]_tbdVars
              PROVE  IF made' # made
                     THEN Charging!PromiseInit'
                     ELSE Charging!PromiseNext \/ UNCHANGED Charging!promiseVars
  OBVIOUS
<1>1. CASE HandleSdp
  <2>1. made' # made
    BY <1>1 DEF HandleSdp, ControllerTypeOK
  <2>2. current_state' = "SupportedAppProtocol" /\ dlink' = <<>> /\ approvals' = {}
    BY <1>1 DEF HandleSdp
  <2>3. Phase' = "setup" /\ Link' = "up"
    BY <2>2, NextPhaseIs DEF Link
  <2>4. session'.selected = "None"
    BY <1>1 DEF HandleSdp, NewSession
  <2>. QED BY <2>1, <2>2, <2>3, <2>4 DEF Charging!PromiseInit
<1>2. CASE ~HandleSdp
  <2>1. made' = made
    BY <1>2
    DEF TbdNext, SendControlEvent, UpdateServices, Environment, Polling, PollReturns,
        tbdVars, controllerVars
  <2>2. CASE [Next]_vars
    BY <2>1, <2>2, NextKeepsPromise DEF PromiseStep, SessionInv
  <2>3. CASE \E e \in Updates : Push(e)
    <3>1. UNCHANGED <<current_state, session, approvals, dlink>>
      BY <2>3, Zenon DEF Push, d20Vars, fsmVars, sessionVars, contextVars
    <3>2. Phase' = Phase /\ Link' = Link /\ Standing' = Standing
      BY <3>1 DEF Phase, Link, Standing
    <3>. QED BY <2>1, <3>1, <3>2, StutterStep DEF PromiseStep
  <2>. QED BY <1>2, <2>2, <2>3, ControllerSteps
<1>. QED BY <1>1, <1>2

\* Every session of the controller implements ChargingSession anew: what an earlier
\* session was allowed or left behind, and updates of the services at any time, let no
\* session skip a phase or a decision.
THEOREM EverySessionPromises == TbdSpec => EverySessionKeepsPromise
<1>1. TbdInit => Charging!PromiseInit
  BY PromiseInitially DEF TbdInit
<1>2. SessionInv /\ ControllerTypeOK /\ [TbdNext]_tbdVars
        => [IF made' # made
            THEN Charging!PromiseInit'
            ELSE Charging!PromiseNext \/ UNCHANGED Charging!promiseVars]_tbdVars
  BY ControllerPromise
<1>. QED BY <1>1, <1>2, SessionInvCorrect, PTL DEF TbdSpec, EverySessionKeepsPromise

-----------------------------------------------------------------------------
(* From one session to the next *)

RecordInv == ResumedInv /\ PauseRecordInv

\* Records stay, so a step that touches nothing they speak of keeps the invariant.
LEMMA RecordKept ==
    ASSUME RecordInv, paused \subseteq paused',
           "resumed" \in approvals' => "resumed" \in approvals,
           current_state' \in EarlyStates => current_state \in EarlyStates,
           UNCHANGED <<session, session_paused, cert, pause_ctx>>
    PROVE  RecordInv'
<1>1. PausedWith(session.selected, cert, session.id)
        => PausedWith(session.selected, cert, session.id)'
  BY DEF PausedWith
<1>2. PausedWith(pause_ctx.selected, pause_ctx.vehicle, pause_ctx.id)
        => PausedWith(pause_ctx.selected, pause_ctx.vehicle, pause_ctx.id)'
  BY DEF PausedWith
<1>. QED BY <1>1, <1>2 DEF RecordInv, ResumedInv, PauseRecordInv

\* SessionSetup forgets the service of an older context or takes it over.
LEMMA SessionSetupRecord ==
    ASSUME SessionInv, RecordInv, paused' = paused, NEW m \in Messages,
           current_state = "SessionSetup",
           SessionSetup_new(m) \/ SessionSetup_resume(m)
    PROVE  RecordInv'
<1>1. "resumed" \notin approvals
  BY DEF RecordInv, ResumedInv, EarlyStates
<1>2. ~session_paused /\ session_paused \in BOOLEAN
  BY DEF SessionInv, StateInv, PausedInv, TypeOK, D20TypeOK
<1>3. CASE SessionSetup_new(m)
  <2>1. /\ UNCHANGED <<session_paused, cert, approvals>>
        /\ pause_ctx'.selected # "None" => pause_ctx' = pause_ctx
    BY <1>3 DEF SessionSetup_new
  <2>. QED
    BY <1>1, <1>2, <2>1 DEF RecordInv, ResumedInv, PauseRecordInv, PausedWith
<1>4. CASE SessionSetup_resume(m)
  <2>1. /\ session'.id = pause_ctx.id
        /\ session'.selected = pause_ctx.selected
        /\ pause_ctx.vehicle = cert
        /\ UNCHANGED <<session_paused, cert, pause_ctx>>
    BY <1>4 DEF SessionSetup_resume, NewSession, Resumes
  <2>2. "resumed" \in approvals' =>
            /\ pause_ctx.selected # "None"
            /\ current_state' \notin EarlyStates
    <3>1. pause_ctx.selected \in {"AC", "DC", "None"}
      BY DEF SessionInv, TypeOK, D20TypeOK, PauseContextType, Services
    <3>. QED BY <1>1, <1>4, <3>1 DEF SessionSetup_resume, Goto, EarlyStates
  <2>3. PauseRecordInv'
    BY <1>2, <2>1 DEF RecordInv, PauseRecordInv, PausedWith
  <2>4. ResumedInv'
    BY <2>1, <2>2 DEF RecordInv, ResumedInv, PauseRecordInv, PausedWith
  <2>. QED BY <2>3, <2>4 DEF RecordInv
<1>. QED BY <1>3, <1>4

\* SessionStopReq after charging writes the service into the context, which is that of
\* the vehicle itself if it has a certificate.
LEMMA EndSessionRecord ==
    ASSUME SessionInv, RecordInv, NEW m \in Messages, EndSession(m),
           current_state \in {"DC_WeldingDetection", "SessionStop"},
           paused' = IF session_paused' /\ ~session_paused
                     THEN paused \cup {<<cert, session.id, session.selected>>}
                     ELSE paused
    PROVE  RecordInv'
<1>. DEFINE record == <<cert, session.id, session.selected>>
<1>1. UNCHANGED <<current_state, session, cert, approvals>>
  BY DEF EndSession, Stay
<1>2. paused \subseteq paused'
  OBVIOUS
<1>3. session_paused' => record \in paused'
  BY DEF RecordInv, PauseRecordInv
<1>4. ResumedInv'
  BY <1>1, <1>2 DEF RecordInv, ResumedInv, PausedWith
<1>5. CASE m.arg = "Pause" /\ pause_ctx.set
  <2>1. pause_ctx' = [pause_ctx EXCEPT !.selected = session.selected]
    BY <1>5 DEF EndSession
  <2>2. /\ pause_ctx'.selected = session.selected
        /\ pause_ctx'.vehicle = pause_ctx.vehicle
        /\ pause_ctx'.id = pause_ctx.id
    BY <2>1 DEF SessionInv, TypeOK, D20TypeOK, PauseContextType
  <2>3. record \in paused'
    BY <1>3, <1>5 DEF EndSession
  <2>4. cert # NoCert => pause_ctx.vehicle = cert /\ pause_ctx.id = session.id
    BY <1>5 DEF SessionInv, StateInv, PauseContextOwn
  <2>5. PausedWith(pause_ctx.selected, pause_ctx.vehicle, pause_ctx.id)'
    <3>1. /\ record[3] = session.selected
          /\ record[1] = cert
          /\ record[2] = session.id
      OBVIOUS
    <3>. HIDE DEF record
    <3>. QED BY <2>2, <2>3, <2>4, <3>1 DEF PausedWith
  <2>. QED BY <1>1, <1>3, <1>4, <2>5 DEF RecordInv, PauseRecordInv
<1>6. CASE ~(m.arg = "Pause" /\ pause_ctx.set)
  <2>1. pause_ctx' = pause_ctx \/ pause_ctx'.selected = "None"
    BY <1>6 DEF EndSession, NoPause
  <2>2. pause_ctx'.selected # "None"
          => PausedWith(pause_ctx.selected, pause_ctx.vehicle, pause_ctx.id)'
    BY <1>2, <2>1 DEF RecordInv, PauseRecordInv, PausedWith
  <2>. QED BY <1>1, <1>3, <1>4, <2>2 DEF RecordInv, PauseRecordInv
<1>. QED BY <1>5, <1>6

\* All other requests: only ServiceSelection changes the service, and it is not
\* reached by a resumed session.
LEMMA OtherRequestRecord ==
    ASSUME SessionInv, RecordInv, paused \subseteq paused',
           UNCHANGED <<session_paused, cert, pause_ctx, approvals>>,
           session'.id = session.id,
           session'.selected # session.selected => current_state \in EarlyStates,
           current_state' \in EarlyStates => current_state \in EarlyStates
    PROVE  RecordInv'
<1>1. session_paused => session'.selected = session.selected
  BY DEF SessionInv, StateInv, PausedInv, EarlyStates
<1>2. "resumed" \in approvals => session'.selected = session.selected
  BY DEF RecordInv, ResumedInv
<1>. QED
  BY <1>1, <1>2 DEF RecordInv, ResumedInv, PauseRecordInv, PausedWith

LEMMA FeedRecord ==
    ASSUME SessionInv, RecordInv, FeedMessage,
           paused' = IF session_paused' /\ ~session_paused
                     THEN paused \cup {<<cert, session.id, session.selected>>}
                     ELSE paused
    PROVE  RecordInv'
<1>. DEFINE m == request
<1>1. m \in Messages /\ paused \subseteq paused'
  BY DEF FeedMessage, SessionInv, TypeOK, D20TypeOK
<1>2. session \in Sessions /\ session_paused \in BOOLEAN
  BY DEF SessionInv, TypeOK, D20TypeOK
<1>3. CASE /\ current_state = "SessionSetup"
           /\ SessionSetup_new(m) \/ SessionSetup_resume(m)
  <2>1. session_paused' = session_paused
    BY <1>3 DEF SessionSetup_new, SessionSetup_resume
  <2>2. paused' = paused
    BY <2>1
  <2>. QED BY <1>1, <1>3, <2>2, SessionSetupRecord
<1>4. CASE /\ current_state \in {"DC_WeldingDetection", "SessionStop"}
           /\ EndSession(m)
  BY <1>1, <1>4, EndSessionRecord
<1>5. CASE \E x : StopOrSequenceError(m, x) \/ UnexpectedRequest(m, x)
  <2>1. Stay(local) /\ UNCHANGED quietVars
    BY <1>5 DEF UnexpectedRequest, StopOrSequenceError, SequenceError
  <2>. QED BY <1>1, <2>1, RecordKept DEF Stay, quietVars, contextVars
<1>6. CASE /\ ~\E x : StopOrSequenceError(m, x) \/ UnexpectedRequest(m, x)
           /\ \/ current_state = "SupportedAppProtocol" /\ SupportedAppProtocol_feed(m)
              \/ current_state = "AuthorizationSetup" /\ AuthorizationSetup_feed(m)
              \/ current_state = "Authorization" /\ Authorization_feed(m)
              \/ current_state = "ServiceDiscovery" /\ ServiceDiscovery_feed(m)
              \/ current_state = "ServiceDetail" /\ ServiceDetail_feed(m)
              \/ current_state = "ServiceSelection" /\ ServiceSelection_feed(m)
  <2>1. UNCHANGED <<session_paused, cert, pause_ctx, approvals>>
    BY <1>6
    DEF SupportedAppProtocol_feed, AuthorizationSetup_feed, Authorization_feed,
        ServiceDiscovery_feed, ServiceDetail_feed, ServiceSelection_feed, quietVars,
        contextVars
  <2>2. session'.id = session.id
    BY <1>2, <1>6
    DEF SupportedAppProtocol_feed, AuthorizationSetup_feed, Authorization_feed,
        ServiceDiscovery_feed, ServiceDetail_feed, ServiceSelection_feed, Detailed,
        quietVars, Sessions
  <2>3. current_state \in EarlyStates
    BY <1>6 DEF EarlyStates
  <2>. QED BY <1>1, <2>1, <2>2, <2>3, OtherRequestRecord
<1>7. CASE /\ ~\E x : StopOrSequenceError(m, x) \/ UnexpectedRequest(m, x)
           /\ \/ /\ current_state = "AC_ChargeParameterDiscovery"
                 /\ AC_ChargeParameterDiscovery_feed(m)
              \/ /\ current_state = "DC_ChargeParameterDiscovery"
                 /\ DC_ChargeParameterDiscovery_feed(m)
              \/ current_state = "ScheduleExchange" /\ ScheduleExchange_feed(m)
              \/ current_state = "DC_CableCheck" /\ DC_CableCheck_feed(m)
              \/ current_state = "DC_PreCharge" /\ DC_PreCharge_feed(m)
              \/ current_state = "PowerDelivery" /\ PowerDelivery_feed(m)
  <2>1. UNCHANGED <<session, session_paused, cert, pause_ctx, approvals>>
    BY <1>7
    DEF AC_ChargeParameterDiscovery_feed, DC_ChargeParameterDiscovery_feed,
        ScheduleExchange_feed, DC_CableCheck_feed, DC_PreCharge_feed,
        PowerDelivery_feed, PowerDelivery_await, PowerDelivery_answer, quietVars,
        sessionVars, contextVars
  <2>2. current_state' \notin EarlyStates
    BY <1>7
    DEF AC_ChargeParameterDiscovery_feed, DC_ChargeParameterDiscovery_feed,
        ScheduleExchange_feed, DC_CableCheck_feed, DC_PreCharge_feed,
        PowerDelivery_feed, PowerDelivery_await, PowerDelivery_answer, RespondThen,
        Stay, Goto, EarlyStates
  <2>. QED BY <1>1, <2>1, <2>2, RecordKept
<1>8. CASE /\ ~\E x : StopOrSequenceError(m, x) \/ UnexpectedRequest(m, x)
           /\ EndSession(m)
                => current_state \notin {"DC_WeldingDetection", "SessionStop"}
           /\ \/ current_state = "AC_ChargeLoop" /\ AC_ChargeLoop_feed(m)
              \/ current_state = "DC_ChargeLoop" /\ DC_ChargeLoop_feed(m)
              \/ current_state = "DC_WeldingDetection" /\ DC_WeldingDetection_feed(m)
              \/ current_state = "SessionStop" /\ SessionStop_feed(m)
  <2>1. UNCHANGED <<session, session_paused, cert, pause_ctx, approvals>>
    BY <1>8
    DEF AC_ChargeLoop_feed, DC_ChargeLoop_feed, DC_WeldingDetection_feed,
        SessionStop_feed, ChargeLoopEnd, ChargeLoopRequest, quietVars, contextVars
  <2>2. current_state' \notin EarlyStates
    BY <1>8
    DEF AC_ChargeLoop_feed, DC_ChargeLoop_feed, DC_WeldingDetection_feed,
        SessionStop_feed, ChargeLoopEnd, ChargeLoopRequest, Stay, Goto, EarlyStates
  <2>. QED BY <1>1, <2>1, <2>2, RecordKept
<1>. HIDE DEF m
<1>9. \/ current_state = "SessionSetup" /\ SessionSetup_feed(m)
      \/ current_state = "SupportedAppProtocol" /\ SupportedAppProtocol_feed(m)
      \/ current_state = "AuthorizationSetup" /\ AuthorizationSetup_feed(m)
      \/ current_state = "Authorization" /\ Authorization_feed(m)
      \/ current_state = "ServiceDiscovery" /\ ServiceDiscovery_feed(m)
      \/ current_state = "ServiceDetail" /\ ServiceDetail_feed(m)
      \/ current_state = "ServiceSelection" /\ ServiceSelection_feed(m)
      \/ /\ current_state = "AC_ChargeParameterDiscovery"
         /\ AC_ChargeParameterDiscovery_feed(m)
      \/ /\ current_state = "DC_ChargeParameterDiscovery"
         /\ DC_ChargeParameterDiscovery_feed(m)
      \/ current_state = "ScheduleExchange" /\ ScheduleExchange_feed(m)
      \/ current_state = "DC_CableCheck" /\ DC_CableCheck_feed(m)
      \/ current_state = "DC_PreCharge" /\ DC_PreCharge_feed(m)
      \/ current_state = "PowerDelivery" /\ PowerDelivery_feed(m)
      \/ current_state = "AC_ChargeLoop" /\ AC_ChargeLoop_feed(m)
      \/ current_state = "DC_ChargeLoop" /\ DC_ChargeLoop_feed(m)
      \/ current_state = "DC_WeldingDetection" /\ DC_WeldingDetection_feed(m)
      \/ current_state = "SessionStop" /\ SessionStop_feed(m)
  BY DEF FeedMessage, m
<1>10. CASE current_state = "SessionSetup"
  BY <1>3, <1>5, <1>9, <1>10 DEF SessionSetup_feed
<1>11. CASE EndSession(m) /\ current_state \in {"DC_WeldingDetection", "SessionStop"}
  BY <1>4, <1>11
<1>12. CASE \E x : StopOrSequenceError(m, x) \/ UnexpectedRequest(m, x)
  BY <1>5, <1>12
<1>13. CASE /\ current_state # "SessionSetup"
            /\ EndSession(m)
                 => current_state \notin {"DC_WeldingDetection", "SessionStop"}
            /\ ~\E x : StopOrSequenceError(m, x) \/ UnexpectedRequest(m, x)
  BY <1>6, <1>7, <1>8, <1>9, <1>13
<1>. QED BY <1>10, <1>11, <1>12, <1>13

\* The steps of a session that neither handle a request nor make a new one.
LEMMA PollRecord ==
    ASSUME SessionInv, RecordInv, [Next]_vars \/ (\E e \in Updates : Push(e)), ~Feed,
           paused \subseteq paused'
    PROVE  RecordInv'
<1>. USE DEF fsmVars, sessionVars, contextVars
<1>1. CASE EvConnect
  <2>1. /\ UNCHANGED <<current_state, session, session_paused, approvals, pause_ctx>>
        /\ current_state = "SupportedAppProtocol"
    BY <1>1 DEF EvConnect, SessionInv, ConnectInv
  <2>2. ~session_paused /\ "resumed" \notin approvals
    BY <2>1 DEF SessionInv, StateInv, PausedInv, RecordInv, ResumedInv, EarlyStates
  <2>. QED BY <2>1, <2>2 DEF RecordInv, ResumedInv, PauseRecordInv, PausedWith
<1>2. CASE PopControl
  <2>1. FeedControl(Head(queue))
    BY <1>2 DEF PopControl
  <2>. DEFINE e == Head(queue)
  <2>. HIDE DEF e
  <2>2. /\ UNCHANGED <<session, session_paused, cert, pause_ctx>>
        /\ approvals' = Approved(e)
        /\ current_state' \in {current_state, "AC_ChargeLoop"}
    BY <2>1 DEF FeedControl, ClosedContactor, Stay, Goto, e
  <2>3. "resumed" \in Approved(e) => "resumed" \in approvals
    BY ApprovedIs
  <2>. QED BY <2>2, <2>3, RecordKept DEF EarlyStates
<1>3. CASE OtherTimeout
  BY <1>3, RecordKept DEF OtherTimeout, FeedTimeout, Stay, quietVars
<1>4. CASE UNCHANGED d20Vars
  BY <1>4, RecordKept DEF d20Vars
<1>5. CASE \/ Tick \/ TimeoutFed \/ SetRequest \/ Respond \/ SequenceTimeout
           \/ CheckFeedResult \/ ResponseDiscarded \/ RespondThrows \/ Close
  BY <1>5, RecordKept
  DEF Tick, TimeoutFed, SetRequest, Respond, SequenceTimeout, CheckFeedResult,
      ResponseDiscarded, RespondThrows, Close
<1>6. CASE \/ (\E q \in EvRequests : EvSend(q)) \/ (\E e \in AppEvents : Push(e))
           \/ (\E e \in Updates : Push(e)) \/ UNCHANGED vars
  BY <1>4, <1>6, Zenon DEF EvSend, Push, vars
<1>7. CASE \/ PollStart \/ ReadThrows \/ ControlDone \/ NoPacket \/ DecodeThrows
           \/ NoResponse \/ PollEnd \/ DelayedClose
  BY <1>4, <1>7
  DEF PollStart, ReadThrows, ControlDone, NoPacket, DecodeThrows, NoResponse, PollEnd,
      DelayedClose
<1>. QED
  BY <1>1, <1>2, <1>3, <1>5, <1>6, <1>7 DEF Next, PollStep

LEMMA RecordInvNext ==
    SessionInv /\ RecordInv /\ [TbdNext]_tbdVars => RecordInv'
<1>. SUFFICES ASSUME SessionInv, RecordInv, [TbdNext]_tbdVars PROVE RecordInv'
  OBVIOUS
<1>1. CASE HandleSdp
  <2>1. /\ approvals' = {}
        /\ session_paused' = FALSE
        /\ UNCHANGED <<pause_ctx, paused>>
    BY <1>1 DEF HandleSdp
  <2>. QED BY <2>1 DEF RecordInv, ResumedInv, PauseRecordInv, PausedWith
<1>2. CASE Polling /\ Feed
  BY <1>2, FeedRecord DEF Polling, Feed
<1>3. ~HandleSdp => paused \subseteq paused'
  BY DEF TbdNext, SendControlEvent, UpdateServices, Environment, Polling, PollReturns,
         tbdVars, controllerVars
<1>4. Feed => Polling \/ HandleSdp
  <2>. SUFFICES ASSUME Feed, ~HandleSdp PROVE Polling
    OBVIOUS
  <2>1. pc = "feed" /\ pc' = "fed"
    BY DEF Feed
  <2>2. ~Environment /\ ~PollReturns
    BY <2>1 DEF Environment, EvConnect, EvSend, Tick, PollReturns, PollEnd,
                DelayedClose, Close
  <2>3. /\ ~\E e \in AppEvents : SendControlEvent(e)
        /\ ~\E e \in Updates : UpdateServices(e)
    BY <2>1, Zenon DEF SendControlEvent, UpdateServices, Push, vars
  <2>. QED BY <2>1, <2>2, <2>3 DEF TbdNext, tbdVars, vars
<1>. QED BY <1>1, <1>2, <1>3, <1>4, ControllerSteps, PollRecord

\* A vehicle that resumes goes on with a service with which it, or a vehicle without
\* certificate, paused earlier: SessionSetup and SessionStop keep the pause context
\* so over any number of sessions of any vehicles.
THEOREM ResumesAsPaused == TbdSpec => []ResumedAsPaused
<1>1. TbdInit => RecordInv
  BY DEF TbdInit, Init, NoPause, RecordInv, ResumedInv, PauseRecordInv
<1>2. SessionInv /\ RecordInv /\ [TbdNext]_tbdVars => RecordInv'
  BY RecordInvNext
<1>3. RecordInv => ResumedAsPaused
  BY DEF RecordInv, ResumedInv, PausedWith, ResumedAsPaused
<1>. QED BY <1>1, <1>2, <1>3, SessionInvCorrect, PTL DEF TbdSpec


=============================================================================
