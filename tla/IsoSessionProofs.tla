-------------------------- MODULE IsoSessionProofs --------------------------
(***************************************************************************)
(* Theorems about Session::poll() with any EV, any application, any        *)
(* configuration and any durations, and before them the types that the     *)
(* timers, the states and the handlers of D20States keep.                  *)
(***************************************************************************)
EXTENDS IsoSession, TLAPS


-----------------------------------------------------------------------------
(* Timeouts *)

LEMMA StartTimeoutType ==
    ASSUME NEW t \in [TimeoutTypes -> Deadlines], NEW type \in TimeoutTypes,
           NEW d \in Int
    PROVE  start_timeout(t, type, d) \in [TimeoutTypes -> Deadlines]
BY DEF start_timeout, Running, Deadlines

LEMMA StopTimeoutType ==
    ASSUME NEW t \in [TimeoutTypes -> Deadlines], NEW type
    PROVE  stop_timeout(t, type) \in [TimeoutTypes -> Deadlines]
<1>1. CASE type \in TimeoutTypes
  BY <1>1 DEF stop_timeout, Off, Deadlines
<1>2. CASE type \notin TimeoutTypes
  BY <1>2 DEF stop_timeout, Off, Deadlines
<1>. QED BY <1>1, <1>2

LEMMA ElapseType ==
    ASSUME NEW d \in Deadlines PROVE Elapse(d) \in Deadlines
BY MaxLagAssumption DEF Elapse, Deadlines

-----------------------------------------------------------------------------
(* Results of a feed *)

\* The type of what every feed changes.
FeedTypeOK ==
    /\ current_state \in StateIDs
    /\ local \in Locals
    /\ feed_result \in {"None", "Unhandled", "Transition"}
    /\ response \in Responses \cup {NoMessage}
    /\ session_stopped \in BOOLEAN

LEMMA MessageTypesAre ==
    MessageTypes = {"SupportedAppProtocolReq", "SessionSetupReq",
        "AuthorizationSetupReq", "AuthorizationReq", "ServiceDiscoveryReq",
        "ServiceDetailReq", "ServiceSelectionReq",
        "AC_ChargeParameterDiscoveryReq", "DC_ChargeParameterDiscoveryReq",
        "ScheduleExchangeReq", "DC_CableCheckReq", "DC_PreChargeReq",
        "PowerDeliveryReq", "AC_ChargeLoopReq", "DC_ChargeLoopReq",
        "DC_WeldingDetectionReq", "SessionStopReq", "None"}
BY DEF MessageTypes, Args

LEMMA MessageHasType ==
    ASSUME NEW m \in Messages
    PROVE  m.type \in MessageTypes /\ m.sid \in Nat /\ m.arg \in Args[m.type]
BY DEF Messages

LEMMA ResType ==
    ASSUME NEW type \in MessageTypes, NEW code \in Codes
    PROVE  Res(type, code) \in Responses
BY DEF Res, Responses, Notifications

LEMMA ConstructedType ==
    ASSUME NEW s PROVE Constructed(s) \in Locals
BY DEF Constructed, Locals

LEMMA EnteredType ==
    ASSUME NEW s, cache \in CacheType PROVE Entered(s) \in Locals
BY DEF Entered, Constructed, Locals, CacheType

LEMMA StayType ==
    ASSUME NEW l \in Locals, current_state \in StateIDs, Stay(l)
    PROVE  /\ current_state' \in StateIDs
           /\ local' \in Locals
           /\ feed_result' \in {"None", "Unhandled", "Transition"}
BY DEF Stay

LEMMA GotoType ==
    ASSUME NEW s \in StateIDs, cache \in CacheType, Goto(s)
    PROVE  /\ current_state' \in StateIDs
           /\ local' \in Locals
           /\ feed_result' \in {"None", "Unhandled", "Transition"}
BY EnteredType DEF Goto

LEMMA ValidatedType ==
    ASSUME NEW m, NEW code \in Codes PROVE Validated(m, code) \in Codes
BY DEF Validated, Codes

LEMMA RespondThenType ==
    ASSUME D20TypeOK, NEW m \in Messages, NEW code \in Codes, NEW s \in StateIDs,
           RespondThen(m, code, s)
    PROVE  FeedTypeOK'
<1>1. response' \in Responses
  BY ResType, MessageHasType DEF RespondThen
<1>2. session_stopped' \in BOOLEAN
  BY DEF RespondThen, StopIfFailed
<1>3. CASE code = "FAILED"
  BY <1>1, <1>2, <1>3, StayType DEF RespondThen, D20TypeOK, FeedTypeOK
<1>4. CASE code # "FAILED"
  BY <1>1, <1>2, <1>4, GotoType DEF RespondThen, D20TypeOK, FeedTypeOK
<1>. QED BY <1>3, <1>4

LEMMA SequenceErrorType ==
    ASSUME D20TypeOK, NEW m \in Messages, SequenceError(m)
    PROVE  FeedTypeOK'
<1>1. Res(m.type, "FAILED") \in Responses
  BY ResType, MessageHasType DEF Codes
<1>. QED
  BY <1>1, StayType DEF SequenceError, D20TypeOK, FeedTypeOK

-----------------------------------------------------------------------------
(* The handlers keep the types *)

\* The type of what a handler may change: all but the request.
HandledTypeOK ==
    /\ FeedTypeOK
    /\ timeouts \in [TimeoutTypes -> Deadlines]
    /\ session \in Sessions
    /\ session_paused \in BOOLEAN
    /\ pause_ctx \in PauseContextType
    /\ cert \in Vehicles \cup {NoCert}
    /\ cache \in CacheType
    /\ services \in SUBSET Offerable
    /\ signals \in SUBSET Signals
    /\ next_id \in Nat
    /\ approvals \in SUBSET Approvals

LEMMA QuietType ==
    ASSUME D20TypeOK, FeedTypeOK', UNCHANGED quietVars
    PROVE  HandledTypeOK'
BY DEF D20TypeOK, HandledTypeOK, quietVars, contextVars

LEMMA UnexpectedRequestType ==
    ASSUME D20TypeOK, NEW m \in Messages, NEW expected,
           UnexpectedRequest(m, expected)
    PROVE  HandledTypeOK'
BY SequenceErrorType, QuietType DEF UnexpectedRequest

LEMMA StopOrSequenceErrorType ==
    ASSUME D20TypeOK, NEW m \in Messages, NEW expected,
           StopOrSequenceError(m, expected)
    PROVE  HandledTypeOK'
<1>1. SessionStopCode(m) \in Codes
  BY ValidatedType DEF SessionStopCode, Codes
<1>2. Res(m.type, SessionStopCode(m)) \in Responses
  BY <1>1, ResType, MessageHasType
<1>3. CASE m.type = "SessionStopReq"
  <2>1. FeedTypeOK'
    BY <1>2, <1>3, StayType DEF StopOrSequenceError, D20TypeOK, FeedTypeOK
  <2>. QED BY <2>1, QuietType DEF StopOrSequenceError
<1>4. CASE m.type # "SessionStopReq"
  BY <1>4, SequenceErrorType, QuietType DEF StopOrSequenceError
<1>. QED BY <1>3, <1>4

LEMMA SupportedAppProtocolType ==
    ASSUME D20TypeOK, NEW m \in Messages, SupportedAppProtocol_feed(m)
    PROVE  HandledTypeOK'
<1>1. Res(m.type, "OK") \in Responses /\ Res(m.type, "FAILED") \in Responses
  BY ResType, MessageHasType DEF Codes
<1>2. FeedTypeOK'
  <2>1. CASE Goto("SessionSetup")
    BY <1>1, <2>1, GotoType
    DEF SupportedAppProtocol_feed, D20TypeOK, FeedTypeOK, StateIDs
  <2>2. CASE Stay(local)
    BY <1>1, <2>2, StayType DEF SupportedAppProtocol_feed, D20TypeOK, FeedTypeOK
  <2>. QED BY <2>1, <2>2 DEF SupportedAppProtocol_feed
<1>. QED BY <1>2, QuietType DEF SupportedAppProtocol_feed

LEMMA SessionSetupType ==
    ASSUME D20TypeOK, NEW m \in Messages, SessionSetup_feed(m)
    PROVE  HandledTypeOK'
<1>1. CASE SessionSetup_new(m)
  <2>1. FeedTypeOK'
    BY <1>1, RespondThenType DEF SessionSetup_new, Codes, StateIDs
  <2>2. session' \in Sessions /\ next_id' \in Nat
    BY <1>1 DEF SessionSetup_new, NewSession, Sessions, D20TypeOK
  <2>3. pause_ctx' \in PauseContextType
    BY <1>1 DEF SessionSetup_new, PauseContextType, D20TypeOK
  <2>. QED
    BY <1>1, <2>1, <2>2, <2>3 DEF SessionSetup_new, D20TypeOK, HandledTypeOK
<1>2. CASE SessionSetup_resume(m)
  <2>1. response' \in Responses
    BY <1>2, ResType, MessageHasType DEF SessionSetup_resume, Codes
  <2>2. pause_ctx.selected \in {"AC", "DC", "None"} /\ pause_ctx.id \in Nat
    BY DEF D20TypeOK, PauseContextType, Services
  <2>3. FeedTypeOK'
    <3>1. CASE Stay(local)
      BY <1>2, <2>1, <3>1, StayType DEF SessionSetup_resume, D20TypeOK, FeedTypeOK
    <3>2. CASE \E s \in StateIDs : Goto(s)
      BY <1>2, <2>1, <3>2, GotoType DEF SessionSetup_resume, D20TypeOK, FeedTypeOK
    <3>3. Stay(local) \/ \E s \in StateIDs : Goto(s)
      BY <1>2, <2>2 DEF SessionSetup_resume, StateIDs
    <3>. QED BY <3>1, <3>2, <3>3
  <2>4. session' \in Sessions
    BY <1>2, <2>2 DEF SessionSetup_resume, NewSession, Sessions, Services
  <2>5. approvals' \in SUBSET Approvals
    BY <1>2 DEF SessionSetup_resume, Approvals, D20TypeOK
  <2>. QED
    BY <1>2, <2>3, <2>4, <2>5 DEF SessionSetup_resume, D20TypeOK, HandledTypeOK
<1>. QED BY <1>1, <1>2, UnexpectedRequestType DEF SessionSetup_feed

\* A feed that answers and then stays or goes on.
LEMMA FeedType ==
    ASSUME D20TypeOK,
           response' \in Responses \cup {NoMessage},
           session_stopped' \in BOOLEAN,
           (\E l \in Locals : Stay(l)) \/ (\E s \in StateIDs : Goto(s))
    PROVE  FeedTypeOK'
BY StayType, GotoType DEF D20TypeOK, FeedTypeOK

\* The members a handler updates itself.
LEMMA LocalsType ==
    ASSUME NEW l \in Locals
    PROVE  /\ [l EXCEPT !.first_req = FALSE] \in Locals
           /\ [l EXCEPT !.initiated = TRUE] \in Locals
           /\ [l EXCEPT !.first_entry = TRUE] \in Locals
           /\ [l EXCEPT !.first_entry = FALSE] \in Locals
           /\ [l EXCEPT !.closed = TRUE] \in Locals
           /\ [l EXCEPT !.ongoing_reached = TRUE] \in Locals
           /\ [l EXCEPT !.previous_req = "valid"] \in Locals
           /\ [l EXCEPT !.previous_req = "unknown_session"] \in Locals
BY DEF Locals

LEMMA AuthorizationSetupType ==
    ASSUME D20TypeOK, NEW m \in Messages, AuthorizationSetup_feed(m)
    PROVE  HandledTypeOK'
<1>1. CASE m.type = "AuthorizationSetupReq"
  <2>1. FeedTypeOK'
    BY <1>1, ValidatedType, RespondThenType
    DEF AuthorizationSetup_feed, StopOrSequenceError, Codes, StateIDs
  <2>2. signals' \in SUBSET Signals
    BY <1>1 DEF AuthorizationSetup_feed, StopOrSequenceError, D20TypeOK, Signals
  <2>. QED
    BY <1>1, <2>1, <2>2
    DEF AuthorizationSetup_feed, StopOrSequenceError, D20TypeOK, HandledTypeOK,
        contextVars
<1>2. CASE m.type # "AuthorizationSetupReq"
  BY <1>2, StopOrSequenceErrorType DEF AuthorizationSetup_feed
<1>. QED BY <1>1, <1>2

LEMMA AuthorizationType ==
    ASSUME D20TypeOK, NEW m \in Messages, Authorization_feed(m)
    PROVE  HandledTypeOK'
<1>1. CASE m.type = "AuthorizationReq"
  <2>1. AuthorizationCode(m) \in Codes
    BY ValidatedType DEF AuthorizationCode, Codes
  <2>2. FeedTypeOK'
    <3>1. response' \in Responses
      BY <1>1, <2>1, ResType, MessageHasType
      DEF Authorization_feed, StopOrSequenceError
    <3>2. session_stopped' \in BOOLEAN
      BY <1>1 DEF Authorization_feed, StopOrSequenceError, StopIfFailed
    <3>3. (\E l \in Locals : Stay(l)) \/ (\E s \in StateIDs : Goto(s))
      BY <1>1, LocalsType
      DEF Authorization_feed, StopOrSequenceError, StateIDs, D20TypeOK
    <3>. QED BY <3>1, <3>2, <3>3, FeedType
  <2>3. timeouts' \in [TimeoutTypes -> Deadlines]
    <3>1. start_timeout(timeouts, "ONGOING", EIM_ONGOING_MS)
            \in [TimeoutTypes -> Deadlines]
      BY DurationAssumption, StartTimeoutType DEF D20TypeOK, TimeoutTypes
    <3>. QED
      BY <1>1, <3>1, StopTimeoutType
      DEF Authorization_feed, StopOrSequenceError, D20TypeOK
  <2>. QED
    BY <1>1, <2>2, <2>3
    DEF Authorization_feed, StopOrSequenceError, D20TypeOK, HandledTypeOK,
        contextVars
<1>2. CASE m.type # "AuthorizationReq"
  BY <1>2, StopOrSequenceErrorType DEF Authorization_feed
<1>. QED BY <1>1, <1>2

LEMMA ServiceDiscoveryType ==
    ASSUME D20TypeOK, NEW m \in Messages, ServiceDiscovery_feed(m)
    PROVE  HandledTypeOK'
<1>1. CASE m.type = "ServiceDiscoveryReq"
  <2>1. FeedTypeOK'
    BY <1>1, ValidatedType, RespondThenType
    DEF ServiceDiscovery_feed, StopOrSequenceError, Codes, StateIDs
  <2>2. session' \in Sessions
    <3>1. ASSUME NEW filter
          PROVE  [session EXCEPT !.offered = services \cap filter, !.detailed = {}]
                   \in Sessions
      <4>1. services \cap filter \in SUBSET Offerable
        BY DEF D20TypeOK
      <4>. QED BY <4>1 DEF D20TypeOK, Sessions
    <3>. QED
      BY <1>1, <3>1 DEF ServiceDiscovery_feed, StopOrSequenceError, D20TypeOK
  <2>. QED
    BY <1>1, <2>1, <2>2
    DEF ServiceDiscovery_feed, StopOrSequenceError, D20TypeOK, HandledTypeOK,
        contextVars
<1>2. CASE m.type # "ServiceDiscoveryReq"
  BY <1>2, StopOrSequenceErrorType DEF ServiceDiscovery_feed
<1>. QED BY <1>1, <1>2

LEMMA DetailedType ==
    ASSUME D20TypeOK, NEW m \in Messages
    PROVE  ServiceDetailCode(m) \in Codes /\ Detailed(m) \in Sessions
<1>1. ServiceDetailCode(m) \in Codes
  BY ValidatedType DEF ServiceDetailCode, Codes
<1>2. CASE ServiceDetailCode(m) = "FAILED"
  BY <1>1, <1>2 DEF Detailed, D20TypeOK
<1>3. CASE ServiceDetailCode(m) # "FAILED"
  <2>1. m.arg \in session.offered
    BY <1>3 DEF ServiceDetailCode, Validated
  <2>. QED
    BY <1>1, <1>3, <2>1 DEF Detailed, D20TypeOK, Sessions
<1>. QED BY <1>2, <1>3

LEMMA ServiceDetailType ==
    ASSUME D20TypeOK, NEW m \in Messages, ServiceDetail_feed(m)
    PROVE  HandledTypeOK'
<1>1. CASE m.type = "ServiceDetailReq"
  <2>1. FeedTypeOK'
    BY <1>1, DetailedType, RespondThenType
    DEF ServiceDetail_feed, StopOrSequenceError, StateIDs
  <2>. QED
    BY <1>1, <2>1, DetailedType
    DEF ServiceDetail_feed, StopOrSequenceError, D20TypeOK, HandledTypeOK,
        contextVars
<1>2. CASE m.type # "ServiceDetailReq"
  BY <1>2, StopOrSequenceErrorType DEF ServiceDetail_feed
<1>. QED BY <1>1, <1>2

LEMMA ServiceSelectionType ==
    ASSUME D20TypeOK, NEW m \in Messages, ServiceSelection_feed(m)
    PROVE  HandledTypeOK'
<1>1. CASE m.type = "ServiceDetailReq"
  <2>1. FeedTypeOK'
    <3>1. response' \in Responses
      BY <1>1, DetailedType, ResType, MessageHasType
      DEF ServiceSelection_feed, StopOrSequenceError
    <3>. QED
      BY <1>1, <3>1, FeedType
      DEF ServiceSelection_feed, StopOrSequenceError, StopIfFailed, D20TypeOK
  <2>. QED
    BY <1>1, <2>1, DetailedType
    DEF ServiceSelection_feed, StopOrSequenceError, D20TypeOK, HandledTypeOK,
        contextVars
<1>2. CASE m.type = "ServiceSelectionReq"
  <2>1. ServiceSelectionCode(m) \in Codes
    BY DEF ServiceSelectionCode, Codes
  <2>2. FeedTypeOK'
    BY <1>2, <2>1, RespondThenType
    DEF ServiceSelection_feed, StopOrSequenceError, StateIDs
  <2>3. session' \in Sessions
    <3>1. EnergySelected(m) => SelectedEnergy(m) \in Services
      BY DEF EnergySelected, SelectedEnergy, D20TypeOK, Sessions, Services, Offerable
    <3>. QED
      BY <1>2, <3>1
      DEF ServiceSelection_feed, StopOrSequenceError, D20TypeOK, Sessions
  <2>. QED
    BY <1>2, <2>2, <2>3
    DEF ServiceSelection_feed, StopOrSequenceError, D20TypeOK, HandledTypeOK,
        contextVars
<1>3. CASE m.type \notin {"ServiceDetailReq", "ServiceSelectionReq"}
  BY <1>3, StopOrSequenceErrorType DEF ServiceSelection_feed
<1>. QED BY <1>1, <1>2, <1>3

LEMMA ModeCodeType ==
    ASSUME NEW m PROVE ModeCode(m) \in Codes
BY ValidatedType DEF ModeCode, Codes

LEMMA ChargeParameterDiscoveryType ==
    ASSUME D20TypeOK, NEW m \in Messages,
           \/ AC_ChargeParameterDiscovery_feed(m)
           \/ DC_ChargeParameterDiscovery_feed(m)
    PROVE  HandledTypeOK'
<1>1. CASE RespondThen(m, ModeCode(m), "ScheduleExchange") /\ UNCHANGED quietVars
  BY <1>1, ModeCodeType, RespondThenType, QuietType DEF StateIDs
<1>2. CASE \E x : StopOrSequenceError(m, {x})
  BY <1>2, StopOrSequenceErrorType
<1>. QED
  BY <1>1, <1>2
  DEF AC_ChargeParameterDiscovery_feed, DC_ChargeParameterDiscovery_feed

LEMMA ScheduleExchangeType ==
    ASSUME D20TypeOK, NEW m \in Messages, ScheduleExchange_feed(m)
    PROVE  HandledTypeOK'
<1>1. CASE m.type = "ScheduleExchangeReq"
  <2>1. ScheduleExchangeCode(m) \in Codes
    BY ModeCodeType DEF ScheduleExchangeCode, Codes
  <2>2. FeedTypeOK'
    <3>1. response' \in Responses
      BY <1>1, <2>1, ResType, MessageHasType
      DEF ScheduleExchange_feed, StopOrSequenceError
    <3>2. session_stopped' \in BOOLEAN
      BY <1>1 DEF ScheduleExchange_feed, StopOrSequenceError
    <3>3. (\E l \in Locals : Stay(l)) \/ (\E s \in StateIDs : Goto(s))
      BY <1>1, LocalsType
      DEF ScheduleExchange_feed, StopOrSequenceError, StateIDs, D20TypeOK
    <3>. QED BY <3>1, <3>2, <3>3, FeedType
  <2>3. timeouts' \in [TimeoutTypes -> Deadlines]
    <3>1. start_timeout(timeouts, "ONGOING", ONGOING_MS)
            \in [TimeoutTypes -> Deadlines]
      BY DurationAssumption, StartTimeoutType DEF D20TypeOK, TimeoutTypes
    <3>. QED
      BY <1>1, <3>1, StopTimeoutType
      DEF ScheduleExchange_feed, StopOrSequenceError, D20TypeOK
  <2>. QED
    BY <1>1, <2>2, <2>3
    DEF ScheduleExchange_feed, StopOrSequenceError, D20TypeOK, HandledTypeOK,
        contextVars
<1>2. CASE m.type # "ScheduleExchangeReq"
  BY <1>2, StopOrSequenceErrorType DEF ScheduleExchange_feed
<1>. QED BY <1>1, <1>2

LEMMA CableCheckType ==
    ASSUME D20TypeOK, NEW m \in Messages, DC_CableCheck_feed(m)
    PROVE  HandledTypeOK'
<1>1. CASE m.type = "DC_CableCheckReq"
  <2>1. FeedTypeOK'
    <3>1. response' \in Responses
      BY <1>1, ValidatedType, ResType, MessageHasType
      DEF DC_CableCheck_feed, StopOrSequenceError, Codes
    <3>2. session_stopped' \in BOOLEAN
      BY <1>1 DEF DC_CableCheck_feed, StopOrSequenceError, StopIfFailed
    <3>3. (\E l \in Locals : Stay(l)) \/ (\E s \in StateIDs : Goto(s))
      BY <1>1, LocalsType
      DEF DC_CableCheck_feed, StopOrSequenceError, StateIDs, D20TypeOK
    <3>. QED BY <3>1, <3>2, <3>3, FeedType
  <2>2. signals' \in SUBSET Signals
    BY <1>1 DEF DC_CableCheck_feed, StopOrSequenceError, D20TypeOK, Signals
  <2>. QED
    BY <1>1, <2>1, <2>2
    DEF DC_CableCheck_feed, StopOrSequenceError, D20TypeOK, HandledTypeOK,
        contextVars
<1>2. CASE m.type # "DC_CableCheckReq"
  BY <1>2, StopOrSequenceErrorType DEF DC_CableCheck_feed
<1>. QED BY <1>1, <1>2

LEMMA PreChargeType ==
    ASSUME D20TypeOK, NEW m \in Messages, DC_PreCharge_feed(m)
    PROVE  HandledTypeOK'
<1>1. CASE m.type = "DC_PreChargeReq"
  <2>1. FeedTypeOK'
    <3>1. response' \in Responses
      BY <1>1, ValidatedType, ResType, MessageHasType
      DEF DC_PreCharge_feed, StopOrSequenceError, Codes
    <3>2. session_stopped' \in BOOLEAN
      BY <1>1 DEF DC_PreCharge_feed, StopOrSequenceError, StopIfFailed
    <3>3. (\E l \in Locals : Stay(l)) \/ (\E s \in StateIDs : Goto(s))
      BY <1>1, LocalsType
      DEF DC_PreCharge_feed, StopOrSequenceError, StateIDs, D20TypeOK
    <3>. QED BY <3>1, <3>2, <3>3, FeedType
  <2>2. signals' \in SUBSET Signals
    BY <1>1 DEF DC_PreCharge_feed, StopOrSequenceError, D20TypeOK, Signals
  <2>. QED
    BY <1>1, <2>1, <2>2
    DEF DC_PreCharge_feed, StopOrSequenceError, D20TypeOK, HandledTypeOK,
        contextVars
<1>2. CASE m.type # "DC_PreChargeReq"
  BY <1>2, StopOrSequenceErrorType DEF DC_PreCharge_feed
<1>. QED BY <1>1, <1>2

LEMMA PowerDeliveryType ==
    ASSUME D20TypeOK, NEW m \in Messages, PowerDelivery_feed(m)
    PROVE  HandledTypeOK'
<1>1. CASE m.type = "DC_PreChargeReq"
  <2>1. Validated(m, "OK") \in Codes
    BY ValidatedType DEF Codes
  <2>2. FeedTypeOK'
    BY <1>1, <2>1, ResType, MessageHasType, FeedType
    DEF PowerDelivery_feed, PowerDelivery_await, PowerDelivery_answer,
        UnexpectedRequest, StopIfFailed, D20TypeOK
  <2>. QED
    BY <1>1, <2>2, QuietType
    DEF PowerDelivery_feed, PowerDelivery_await, PowerDelivery_answer,
        UnexpectedRequest
<1>2. CASE PowerDelivery_await(m)
  <2>1. FeedTypeOK'
    BY <1>2, LocalsType, FeedType
    DEF PowerDelivery_await, sessionVars, D20TypeOK
  <2>2. timeouts' \in [TimeoutTypes -> Deadlines]
    BY <1>2, DurationAssumption, StartTimeoutType
    DEF PowerDelivery_await, D20TypeOK, TimeoutTypes
  <2>3. signals' \in SUBSET Signals
    BY <1>2 DEF PowerDelivery_await, SetupFinished, D20TypeOK, Signals
  <2>. QED
    BY <1>2, <2>1, <2>2, <2>3
    DEF PowerDelivery_await, D20TypeOK, HandledTypeOK, sessionVars, contextVars
<1>3. CASE PowerDelivery_answer(m)
  <2>1. PowerDeliveryCode(m) \in Codes
    BY ValidatedType DEF PowerDeliveryCode, Codes
  <2>2. FeedTypeOK'
    <3>1. response' \in Responses
      BY <1>3, <2>1, ResType, MessageHasType DEF PowerDelivery_answer
    <3>2. session_stopped' \in BOOLEAN
      BY <1>3 DEF PowerDelivery_answer
    <3>3. (\E l \in Locals : Stay(l)) \/ (\E s \in StateIDs : Goto(s))
      BY <1>3 DEF PowerDelivery_answer, StateIDs, D20TypeOK
    <3>. QED BY <3>1, <3>2, <3>3, FeedType
  <2>3. signals' \in SUBSET Signals
    BY <1>3 DEF PowerDelivery_answer, SetupFinished, D20TypeOK, Signals
  <2>. QED
    BY <1>3, <2>2, <2>3
    DEF PowerDelivery_answer, D20TypeOK, HandledTypeOK, contextVars
<1>4. CASE m.type \notin {"DC_PreChargeReq", "PowerDeliveryReq"}
  BY <1>4, UnexpectedRequestType
  DEF PowerDelivery_feed, PowerDelivery_await, PowerDelivery_answer
<1>. QED
  BY <1>1, <1>2, <1>3, <1>4 DEF PowerDelivery_feed, UnexpectedRequest

LEMMA ChargeLoopRequestType ==
    ASSUME D20TypeOK, NEW m \in Messages, ChargeLoopRequest(m)
    PROVE  HandledTypeOK'
<1>1. FeedTypeOK'
  <2>1. response' \in Responses
    BY ModeCodeType, MessageHasType
    DEF ChargeLoopRequest, Responses, Notification, Notifications
  <2>2. session_stopped' \in BOOLEAN
    BY DEF ChargeLoopRequest, StopIfFailed
  <2>3. \E l \in Locals : Stay(l)
    BY LocalsType DEF ChargeLoopRequest, D20TypeOK
  <2>. QED BY <2>1, <2>2, <2>3, FeedType
<1>2. signals' \in SUBSET Signals
  BY DEF ChargeLoopRequest, D20TypeOK, Signals
<1>. QED
  BY <1>1, <1>2 DEF ChargeLoopRequest, D20TypeOK, HandledTypeOK, contextVars

LEMMA ChargeLoopEndType ==
    ASSUME D20TypeOK, NEW m \in Messages, NEW contactor \in Signals,
           NEW s \in StateIDs, NEW stay \in Locals,
           ChargeLoopEnd(m, contactor, s, stay)
    PROVE  HandledTypeOK'
<1>1. PowerDeliveryCode(m) \in Codes
  BY ValidatedType DEF PowerDeliveryCode, Codes
<1>2. FeedTypeOK'
  <2>1. response' \in Responses
    BY <1>1, ResType, MessageHasType DEF ChargeLoopEnd
  <2>2. session_stopped' \in BOOLEAN
    BY DEF ChargeLoopEnd, StopIfFailed
  <2>3. (\E l \in Locals : Stay(l)) \/ (\E st \in StateIDs : Goto(st))
    BY DEF ChargeLoopEnd, D20TypeOK
  <2>. QED BY <2>1, <2>2, <2>3, FeedType
<1>3. signals' \in SUBSET Signals
  BY DEF ChargeLoopEnd, D20TypeOK, Signals
<1>. QED
  BY <1>2, <1>3 DEF ChargeLoopEnd, D20TypeOK, HandledTypeOK, contextVars

LEMMA ChargeLoopType ==
    ASSUME D20TypeOK, NEW m \in Messages,
           AC_ChargeLoop_feed(m) \/ DC_ChargeLoop_feed(m)
    PROVE  HandledTypeOK'
<1>1. "AC_OPEN_CONTACTOR" \in Signals /\ "DC_OPEN_CONTACTOR" \in Signals
  BY DEF Signals
<1>2. "SessionStop" \in StateIDs /\ "DC_WeldingDetection" \in StateIDs
  BY DEF StateIDs
<1>3. local \in Locals /\ [local EXCEPT !.first_entry = TRUE] \in Locals
  BY LocalsType DEF D20TypeOK
<1>4. CASE ChargeLoopRequest(m)
  BY <1>4, ChargeLoopRequestType
<1>5. CASE \E x : UnexpectedRequest(m, x)
  BY <1>5, UnexpectedRequestType
<1>6. CASE ChargeLoopEnd(m, "AC_OPEN_CONTACTOR", "SessionStop", local)
  BY <1>1, <1>2, <1>3, <1>6, ChargeLoopEndType
<1>7. CASE ChargeLoopEnd(m, "DC_OPEN_CONTACTOR", "DC_WeldingDetection",
                         [local EXCEPT !.first_entry = TRUE])
  BY <1>1, <1>2, <1>3, <1>7, ChargeLoopEndType
<1>. QED
  BY <1>4, <1>5, <1>6, <1>7 DEF AC_ChargeLoop_feed, DC_ChargeLoop_feed

LEMMA EndSessionType ==
    ASSUME D20TypeOK, NEW m \in Messages, EndSession(m)
    PROVE  HandledTypeOK'
<1>1. SessionStopCode(m) \in Codes
  BY ValidatedType DEF SessionStopCode, Codes
<1>2. FeedTypeOK'
  BY <1>1, ResType, MessageHasType, FeedType DEF EndSession, D20TypeOK
<1>3. session.selected \in Services \cup {"None"}
  BY DEF D20TypeOK, Sessions
<1>4. pause_ctx' \in PauseContextType
  BY <1>3 DEF EndSession, D20TypeOK, PauseContextType, NoPause
<1>. QED
  BY <1>2, <1>4 DEF EndSession, D20TypeOK, HandledTypeOK

LEMMA SessionEndType ==
    ASSUME D20TypeOK, NEW m \in Messages,
           DC_WeldingDetection_feed(m) \/ SessionStop_feed(m)
    PROVE  HandledTypeOK'
<1>1. CASE EndSession(m)
  BY <1>1, EndSessionType
<1>2. CASE \E x : UnexpectedRequest(m, x)
  BY <1>2, UnexpectedRequestType
<1>3. CASE DC_WeldingDetection_feed(m) /\ m.type = "DC_WeldingDetectionReq"
  <2>1. Validated(m, "OK") \in Codes
    BY ValidatedType DEF Codes
  <2>2. FeedTypeOK'
    BY <1>3, <2>1, ResType, MessageHasType, FeedType
    DEF DC_WeldingDetection_feed, EndSession, UnexpectedRequest, StopIfFailed,
        StateIDs, D20TypeOK
  <2>. QED
    BY <1>3, <2>2, QuietType
    DEF DC_WeldingDetection_feed, EndSession, UnexpectedRequest
<1>. QED
  BY <1>1, <1>2, <1>3 DEF DC_WeldingDetection_feed, SessionStop_feed

-----------------------------------------------------------------------------
(* The three events keep the types *)

LEMMA FeedMessageType ==
    ASSUME D20TypeOK, FeedMessage PROVE D20TypeOK'
<1>1. request \in Messages /\ request' = NoMessage
  BY DEF FeedMessage, D20TypeOK
<1>2. HandledTypeOK'
  BY <1>1, SupportedAppProtocolType, SessionSetupType, AuthorizationSetupType,
     AuthorizationType, ServiceDiscoveryType, ServiceDetailType,
     ServiceSelectionType, ChargeParameterDiscoveryType, ScheduleExchangeType,
     CableCheckType, PreChargeType, PowerDeliveryType, ChargeLoopType,
     SessionEndType
  DEF FeedMessage
<1>. QED
  BY <1>1, <1>2 DEF HandledTypeOK, FeedTypeOK, D20TypeOK

LEMMA ControlEventType ==
    ASSUME NEW e \in ControlEvents
    PROVE  /\ e.kind \in BoolEvents => e.val \in BOOLEAN
           /\ e.kind \in ValueEvents => e.val \in Values
           /\ e.kind = "EnergyServices" => e.val \in SUBSET Services
           /\ e.kind = "SupportedVASs" => e.val \in SUBSET {"VAS"}
BY DEF ControlEvents, BoolEvents, ValueEvents

LEMMA AppliedType ==
    ASSUME local \in Locals, NEW e \in ControlEvents
    PROVE  Applied(e) \in Locals
<1>1. ASSUME NEW x \in {"Pending", "Accepted", "Rejected"}
      PROVE  [local EXCEPT !.auth = x] \in Locals
  BY DEF Locals
<1>2. ASSUME NEW b \in BOOLEAN
      PROVE  /\ [local EXCEPT !.cable_done = b] \in Locals
             /\ [local EXCEPT !.stop = b] \in Locals
             /\ [local EXCEPT !.pause = b] \in Locals
  BY DEF Locals
<1>3. ASSUME NEW v \in Values
      PROVE  /\ [local EXCEPT !.dynamic = v] \in Locals
             /\ [local EXCEPT !.target = v] \in Locals
             /\ [local EXCEPT !.present = v] \in Locals
  BY DEF Locals
<1>. QED
  BY <1>1, <1>2, <1>3, ControlEventType DEF Applied, BoolEvents, ValueEvents

\* cache and services are updated by the caller, before the feed.
LEMMA FeedControlType ==
    ASSUME D20TypeOK, NEW e \in ControlEvents, FeedControl(e),
           cache' \in CacheType, services' \in SUBSET Offerable
    PROVE  D20TypeOK'
<1>1. FeedTypeOK' /\ timeouts' \in [TimeoutTypes -> Deadlines]
  <2>1. CASE current_state = "PowerDelivery" /\ e.kind = "ClosedContactor"
    <3>1. ClosedContactor
      BY <2>1 DEF FeedControl
    <3>2. "PowerDeliveryReq" \in MessageTypes
      BY MessageTypesAre
    <3>3. response' \in Responses \cup {NoMessage} /\ session_stopped' \in BOOLEAN
      BY <3>1, <3>2, ResType DEF ClosedContactor, StopIfFailed, Codes, D20TypeOK
    <3>4. (\E l \in Locals : Stay(l)) \/ (\E s \in StateIDs : Goto(s))
      BY <3>1, LocalsType DEF ClosedContactor, StateIDs, D20TypeOK
    <3>5. timeouts' \in [TimeoutTypes -> Deadlines]
      BY <3>1, StopTimeoutType DEF ClosedContactor, D20TypeOK
    <3>. QED BY <3>3, <3>4, <3>5, FeedType
  <2>2. CASE ~(current_state = "PowerDelivery" /\ e.kind = "ClosedContactor")
    <3>1. \E l \in Locals : Stay(l)
      BY <2>2, AppliedType DEF FeedControl, D20TypeOK
    <3>. QED
      BY <2>2, <3>1, FeedType DEF FeedControl, D20TypeOK
  <2>. QED BY <2>1, <2>2
<1>2. approvals' \in SUBSET Approvals
  BY DEF FeedControl, Approved, Approvals, D20TypeOK
<1>. QED
  BY <1>1, <1>2 DEF FeedControl, FeedTypeOK, D20TypeOK

LEMMA FeedTimeoutType ==
    ASSUME D20TypeOK, NEW type, FeedTimeout(type) PROVE D20TypeOK'
<1>1. Res("PowerDeliveryReq", "FAILED") \in Responses
  BY MessageTypesAre, ResType DEF Codes
<1>2. FeedTypeOK'
  BY <1>1, LocalsType, FeedType DEF FeedTimeout, D20TypeOK
<1>3. HandledTypeOK'
  BY <1>2, QuietType DEF FeedTimeout
<1>. QED
  BY <1>3 DEF FeedTimeout, HandledTypeOK, FeedTypeOK, D20TypeOK

-----------------------------------------------------------------------------
(* A session that was stopped or paused stays so *)

LEMMA FeedMessageStops ==
    ASSUME session_stopped \in BOOLEAN, session_paused \in BOOLEAN, FeedMessage
    PROVE  /\ session_stopped => session_stopped'
           /\ session_paused => session_paused'
<1>1. ASSUME NEW m, NEW x, UnexpectedRequest(m, x) \/ StopOrSequenceError(m, x)
      PROVE  session_stopped' /\ session_paused' = session_paused
  BY <1>1 DEF UnexpectedRequest, StopOrSequenceError, SequenceError, quietVars
<1>2. ASSUME NEW m, EndSession(m)
      PROVE  /\ session_stopped => session_stopped'
             /\ session_paused => session_paused'
  BY <1>2 DEF EndSession
<1>3. ASSUME NEW m,
             \/ SupportedAppProtocol_feed(m)
             \/ SessionSetup_feed(m)
             \/ AuthorizationSetup_feed(m)
             \/ Authorization_feed(m)
             \/ ServiceDiscovery_feed(m)
             \/ ServiceDetail_feed(m)
             \/ ServiceSelection_feed(m)
      PROVE  /\ session_stopped => session_stopped'
             /\ session_paused => session_paused'
  BY <1>1, <1>3
  DEF SupportedAppProtocol_feed, SessionSetup_feed, SessionSetup_new,
      SessionSetup_resume, AuthorizationSetup_feed, Authorization_feed,
      ServiceDiscovery_feed, ServiceDetail_feed, ServiceSelection_feed,
      RespondThen, StopIfFailed, quietVars
<1>4. ASSUME NEW m,
             \/ AC_ChargeParameterDiscovery_feed(m)
             \/ DC_ChargeParameterDiscovery_feed(m)
             \/ ScheduleExchange_feed(m)
             \/ DC_CableCheck_feed(m)
             \/ DC_PreCharge_feed(m)
             \/ PowerDelivery_feed(m)
      PROVE  /\ session_stopped => session_stopped'
             /\ session_paused => session_paused'
  BY <1>1, <1>4
  DEF AC_ChargeParameterDiscovery_feed, DC_ChargeParameterDiscovery_feed,
      ScheduleExchange_feed, DC_CableCheck_feed, DC_PreCharge_feed,
      PowerDelivery_feed, PowerDelivery_await, PowerDelivery_answer,
      RespondThen, StopIfFailed, quietVars, sessionVars
<1>5. ASSUME NEW m,
             \/ AC_ChargeLoop_feed(m)
             \/ DC_ChargeLoop_feed(m)
             \/ DC_WeldingDetection_feed(m)
             \/ SessionStop_feed(m)
      PROVE  /\ session_stopped => session_stopped'
             /\ session_paused => session_paused'
  BY <1>1, <1>2, <1>5
  DEF AC_ChargeLoop_feed, DC_ChargeLoop_feed, DC_WeldingDetection_feed,
      SessionStop_feed, ChargeLoopEnd, ChargeLoopRequest, StopIfFailed, quietVars
<1>. QED BY <1>3, <1>4, <1>5 DEF FeedMessage

LEMMA FeedControlStops ==
    ASSUME session_stopped \in BOOLEAN, session_paused \in BOOLEAN,
           NEW e, FeedControl(e)
    PROVE  /\ session_stopped => session_stopped'
           /\ session_paused => session_paused'
BY DEF FeedControl, ClosedContactor, StopIfFailed

LEMMA FeedTimeoutStops ==
    ASSUME session_stopped \in BOOLEAN, session_paused \in BOOLEAN,
           NEW type, FeedTimeout(type)
    PROVE  /\ session_stopped => session_stopped'
           /\ session_paused => session_paused'
BY DEF FeedTimeout, quietVars

-----------------------------------------------------------------------------
(* What a feed does with the parameters of the application *)

SameParameters(l) ==
    /\ l.dynamic = local.dynamic
    /\ l.target = local.target
    /\ l.present = local.present

\* The machine goes to a state, or stays without touching the parameters.
KeepsParameters ==
    (\E s \in StateIDs : Goto(s)) \/ (\E l \in Locals : Stay(l) /\ SameParameters(l))

LEMMA LocalsParameters ==
    ASSUME local \in Locals
    PROVE  /\ SameParameters(local)
           /\ SameParameters([local EXCEPT !.first_req = FALSE])
           /\ SameParameters([local EXCEPT !.initiated = TRUE])
           /\ SameParameters([local EXCEPT !.first_entry = TRUE])
           /\ SameParameters([local EXCEPT !.first_entry = FALSE])
           /\ SameParameters([local EXCEPT !.closed = TRUE])
           /\ SameParameters([local EXCEPT !.ongoing_reached = TRUE])
           /\ SameParameters([local EXCEPT !.previous_req = "valid"])
           /\ SameParameters([local EXCEPT !.previous_req = "unknown_session"])
BY DEF Locals, SameParameters

LEMMA FeedMessageParameters ==
    ASSUME D20TypeOK, FeedMessage PROVE cache' = cache /\ KeepsParameters
<1>. local \in Locals
  BY DEF D20TypeOK
<1>. DEFINE Kept == cache' = cache /\ KeepsParameters
<1>1. ASSUME NEW m, NEW x, UnexpectedRequest(m, x) \/ StopOrSequenceError(m, x)
      PROVE  Kept
  BY <1>1, LocalsParameters
  DEF UnexpectedRequest, StopOrSequenceError, SequenceError, quietVars,
      contextVars, KeepsParameters
<1>2. ASSUME NEW m, NEW code, NEW s \in StateIDs, RespondThen(m, code, s)
      PROVE  KeepsParameters
  BY <1>2, LocalsParameters DEF RespondThen, KeepsParameters
<1>3. ASSUME NEW m, SessionSetup_feed(m) PROVE Kept
  <2>1. pause_ctx.selected \in {"AC", "DC", "None"}
    BY DEF D20TypeOK, PauseContextType, Services
  <2>2. CASE SessionSetup_new(m)
    BY <1>2, <2>2 DEF SessionSetup_new, StateIDs
  <2>3. CASE SessionSetup_resume(m)
    BY <2>1, <2>3, LocalsParameters DEF SessionSetup_resume, KeepsParameters, StateIDs
  <2>. QED BY <1>1, <1>3, <2>2, <2>3 DEF SessionSetup_feed
<1>4. ASSUME NEW m,
             \/ AuthorizationSetup_feed(m)
             \/ ServiceDiscovery_feed(m)
             \/ ServiceDetail_feed(m)
             \/ AC_ChargeParameterDiscovery_feed(m)
             \/ DC_ChargeParameterDiscovery_feed(m)
      PROVE  Kept
  BY <1>1, <1>2, <1>4
  DEF AuthorizationSetup_feed, ServiceDiscovery_feed, ServiceDetail_feed,
      AC_ChargeParameterDiscovery_feed, DC_ChargeParameterDiscovery_feed,
      quietVars, contextVars, StateIDs
<1>5. ASSUME NEW m, ServiceSelection_feed(m) PROVE Kept
  <2>1. CASE \E s \in StateIDs : RespondThen(m, ServiceSelectionCode(m), s)
    BY <1>1, <1>2, <1>5, <2>1 DEF ServiceSelection_feed, contextVars
  <2>2. CASE Stay(local)
    BY <1>1, <1>5, <2>2, LocalsParameters
    DEF ServiceSelection_feed, contextVars, KeepsParameters
  <2>. QED
    BY <1>1, <1>5, <2>1, <2>2 DEF ServiceSelection_feed, StateIDs
<1>6. ASSUME NEW m,
             \/ SupportedAppProtocol_feed(m)
             \/ Authorization_feed(m)
             \/ ScheduleExchange_feed(m)
             \/ DC_CableCheck_feed(m)
             \/ DC_PreCharge_feed(m)
      PROVE  Kept
  BY <1>1, <1>6, LocalsType, LocalsParameters
  DEF SupportedAppProtocol_feed, Authorization_feed, ScheduleExchange_feed,
      DC_CableCheck_feed, DC_PreCharge_feed, KeepsParameters, quietVars,
      contextVars, StateIDs
<1>7. ASSUME NEW m, PowerDelivery_feed(m) PROVE Kept
  BY <1>1, <1>7, LocalsType, LocalsParameters
  DEF PowerDelivery_feed, PowerDelivery_await, PowerDelivery_answer,
      KeepsParameters, quietVars, contextVars, StateIDs
<1>8. ASSUME NEW m, AC_ChargeLoop_feed(m) \/ DC_ChargeLoop_feed(m)
      PROVE  Kept
  BY <1>1, <1>8, LocalsType, LocalsParameters
  DEF AC_ChargeLoop_feed, DC_ChargeLoop_feed, ChargeLoopEnd, ChargeLoopRequest,
      KeepsParameters, contextVars, StateIDs
<1>9. ASSUME NEW m, DC_WeldingDetection_feed(m) \/ SessionStop_feed(m)
      PROVE  Kept
  BY <1>1, <1>9, LocalsParameters
  DEF DC_WeldingDetection_feed, SessionStop_feed, EndSession, KeepsParameters,
      quietVars, contextVars, StateIDs
<1>. HIDE DEF Kept
<1>10. Kept
  BY <1>3, <1>4, <1>5, <1>6, <1>7, <1>8, <1>9 DEF FeedMessage
<1>. QED BY <1>10 DEF Kept

-----------------------------------------------------------------------------
(* The types of Session::poll() *)

USE DEF ioVars, pollVars

LEMMA EvRequestType ==
    ASSUME D20TypeOK, NEW q \in EvRequests
    PROVE  /\ [q EXCEPT !.sid = SessionId(q.sid)] \in Messages
           /\ q.type \in MessageTypes
<1>1. PICK type \in MessageTypes :
        q \in [type : {type}, sid : {"zero", "own", "paused"}, arg : Args[type]]
  BY EnvironmentAssumption
<1>2. SessionId(q.sid) \in Nat
  BY <1>1 DEF SessionId, D20TypeOK, Sessions, PauseContextType
<1>3. ASSUME NEW n \in Nat PROVE [q EXCEPT !.sid = n] \in Messages
  <2>1. q.type = type /\ q.arg \in Args[type]
    BY <1>1
  <2>2. [q EXCEPT !.sid = n] = [type |-> type, sid |-> n, arg |-> q.arg]
    BY <1>1
  <2>. QED BY <2>1, <2>2 DEF Messages
<1>. QED BY <1>1, <1>2, <1>3

LEMMA D20Unchanged ==
    ASSUME D20TypeOK, UNCHANGED d20Vars PROVE D20TypeOK'
BY DEF D20TypeOK, d20Vars, fsmVars, exchangeVars, sessionVars, contextVars

LEMMA InitType == Init => TypeOK
<1>. SUFFICES ASSUME Init PROVE TypeOK
  OBVIOUS
<1>1. local \in Locals
  BY ConstructedType DEF Init
<1>2. timeouts \in [TimeoutTypes -> Deadlines] /\ delayed_close \in Deadlines
  BY DEF Init, NoTimeouts, Off, Deadlines
<1>3. session \in Sessions /\ cache \in CacheType
  BY DEF Init, NewSession, Sessions, CacheType
<1>4. pause_ctx \in PauseContextType
  <2>1. NoPause \in PauseContextType
    BY DEF NoPause, PauseContextType
  <2>2. [set : {TRUE}, vehicle : Vehicles, id : {1}, selected : Services \cup {"None"}]
          \subseteq PauseContextType
    <3>1. {TRUE} \subseteq BOOLEAN /\ {1} \subseteq Nat
      OBVIOUS
    <3>. QED BY <3>1, Zenon DEF PauseContextType
  <2>. QED BY <2>1, <2>2, EnvironmentAssumption DEF Init
<1>5. services \in SUBSET Offerable
  BY EnvironmentAssumption DEF Init
<1>6. D20TypeOK
  BY <1>1, <1>2, <1>3, <1>4, <1>5 DEF Init, D20TypeOK, StateIDs
<1>7. /\ inbox \in Seq(Messages)
      /\ queue \in Seq(ControlEvents)
      /\ dlink \in Seq({"DLINK_PAUSE", "DLINK_TERMINATE"})
      /\ owed \in Seq(MessageTypes)
  BY DEF Init
<1>. QED BY <1>2, <1>6, <1>7 DEF Init, TypeOK, PCs

\* The earliest of some deadlines is one of them.
LEMMA EarliestType ==
    ASSUME NEW t \in [TimeoutTypes -> Deadlines], NEW S \in SUBSET TimeoutTypes,
           S # {}
    PROVE  Earliest(t, S) \in S
<1>. DEFINE HasEarliest(T) == \E x \in T : \A y \in T : t[x].left <= t[y].left
<1>1. \A x \in TimeoutTypes : t[x].left \in Int
  BY DEF Deadlines
<1>2. ASSUME NEW T \in SUBSET TimeoutTypes, NEW z \in TimeoutTypes,
             T = {} \/ HasEarliest(T)
      PROVE  HasEarliest(T \cup {z})
  BY <1>1, <1>2
<1>3. ASSUME NEW T \in SUBSET TimeoutTypes, NEW z \in TimeoutTypes,
             T \cap S = {} \/ HasEarliest(T \cap S)
      PROVE  (T \cup {z}) \cap S = {} \/ HasEarliest((T \cup {z}) \cap S)
  <2>1. CASE z \in S
    <3>1. (T \cup {z}) \cap S = (T \cap S) \cup {z}
      BY <2>1
    <3>2. HasEarliest((T \cap S) \cup {z})
      <4>. HIDE DEF HasEarliest
      <4>1. T \cap S \in SUBSET TimeoutTypes
        OBVIOUS
      <4>. QED BY <4>1, <1>2, <1>3
    <3>. QED BY <3>1, <3>2
  <2>2. CASE z \notin S
    <3>1. (T \cup {z}) \cap S = T \cap S
      BY <2>2
    <3>. QED BY <1>3, <3>1
  <2>. QED BY <2>1, <2>2
<1>. DEFINE T1 == {} \cup {"SEQUENCE"}
            T2 == T1 \cup {"PERFORMANCE"}
            T3 == T2 \cup {"ONGOING"}
            T4 == T3 \cup {"CONTACTOR"}
<1>4. T1 \cap S = {} \/ HasEarliest(T1 \cap S)
  BY <1>1 DEF TimeoutTypes
<1>5. T2 \cap S = {} \/ HasEarliest(T2 \cap S)
  <2>. HIDE DEF HasEarliest
  <2>. QED BY <1>3, <1>4 DEF TimeoutTypes
<1>6. T3 \cap S = {} \/ HasEarliest(T3 \cap S)
  <2>. HIDE DEF HasEarliest
  <2>. QED BY <1>3, <1>5 DEF TimeoutTypes
<1>7. T4 \cap S = {} \/ HasEarliest(T4 \cap S)
  <2>. HIDE DEF HasEarliest
  <2>. QED BY <1>3, <1>6 DEF TimeoutTypes
<1>8. T4 \cap S = S
  BY DEF TimeoutTypes
<1>9. HasEarliest(S)
  <2>. HIDE DEF HasEarliest, T4
  <2>. QED BY <1>7, <1>8
<1>. QED BY <1>9 DEF Earliest

LEMMA EnvironmentType ==
    ASSUME TypeOK,
           \/ EvConnect
           \/ \E q \in EvRequests : EvSend(q)
           \/ \E e \in AppEvents : Push(e)
           \/ Tick
    PROVE  TypeOK'
<1>1. CASE EvConnect
  <2>1. cert' \in Vehicles \cup {NoCert}
    BY <1>1, EnvironmentAssumption DEF EvConnect
  <2>2. D20TypeOK'
    BY <1>1, <2>1
    DEF EvConnect, TypeOK, D20TypeOK, fsmVars, exchangeVars, sessionVars
  <2>. QED BY <1>1, <2>2 DEF EvConnect, TypeOK
<1>2. CASE \E q \in EvRequests : EvSend(q)
  <2>1. PICK q \in EvRequests : EvSend(q)
    BY <1>2
  <2>2. inbox' \in Seq(Messages) /\ owed' \in Seq(MessageTypes)
    BY <2>1, EvRequestType DEF EvSend, TypeOK
  <2>. QED BY <2>1, <2>2, D20Unchanged DEF EvSend, TypeOK
<1>3. CASE \E e \in AppEvents : Push(e)
  <2>1. queue' \in Seq(ControlEvents)
    BY <1>3, EnvironmentAssumption DEF Push, TypeOK
  <2>. QED BY <1>3, <2>1, D20Unchanged DEF Push, TypeOK
<1>4. CASE Tick
  <2>1. timeouts' \in [TimeoutTypes -> Deadlines] /\ delayed_close' \in Deadlines
    BY <1>4, ElapseType DEF Tick, TypeOK, D20TypeOK, ElapseAll
  <2>2. D20TypeOK'
    BY <1>4, <2>1
    DEF Tick, TypeOK, D20TypeOK, fsmVars, exchangeVars, sessionVars, contextVars
  <2>. QED BY <1>4, <2>1, <2>2 DEF Tick, TypeOK
<1>. QED BY <1>1, <1>2, <1>3, <1>4

\* The steps of poll() up to the timeouts.
LEMMA FirstStepsType ==
    ASSUME TypeOK,
           \/ PollStart \/ ReadThrows \/ PopControl \/ ControlDone
           \/ SequenceTimeout \/ OtherTimeout \/ TimeoutFed
    PROVE  TypeOK'
<1>1. CASE PollStart
  <2>1. packet' \in Messages \cup {NoMessage} /\ inbox' \in Seq(Messages)
    <3>1. CASE new_data /\ inbox # <<>>
      <4>1. Head(inbox) \in Messages /\ Tail(inbox) \in Seq(Messages)
        BY <3>1 DEF TypeOK
      <4>. QED BY <1>1, <3>1, <4>1 DEF PollStart
    <3>2. CASE ~(new_data /\ inbox # <<>>)
      BY <1>1, <3>2 DEF PollStart, TypeOK
    <3>. QED BY <3>1, <3>2
  <2>. QED BY <1>1, <2>1, D20Unchanged DEF PollStart, TypeOK, PCs
<1>2. CASE ReadThrows
  BY <1>2, D20Unchanged DEF ReadThrows, TypeOK, PCs
<1>3. CASE PopControl
  <2>1. Head(queue) \in ControlEvents /\ Tail(queue) \in Seq(ControlEvents)
    BY <1>3 DEF PopControl, TypeOK
  <2>2. Cached(Head(queue)) \in CacheType
    BY <2>1, ControlEventType DEF Cached, ValueEvents, TypeOK, D20TypeOK, CacheType
  <2>3. Configured(services, Head(queue)) \in SUBSET Offerable
    BY <2>1, ControlEventType DEF Configured, TypeOK, D20TypeOK, Offerable
  <2>4. D20TypeOK'
    BY <1>3, <2>1, <2>2, <2>3, FeedControlType DEF PopControl, TypeOK
  <2>. QED BY <1>3, <2>1, <2>4 DEF PopControl, TypeOK
<1>4. CASE ControlDone
  BY <1>4, D20Unchanged DEF ControlDone, check, TypeOK, PCs
<1>5. CASE SequenceTimeout
  <2>1. D20TypeOK'
    BY <1>5 DEF SequenceTimeout, TypeOK, D20TypeOK, fsmVars, exchangeVars, contextVars
  <2>. QED BY <1>5, <2>1 DEF SequenceTimeout, TypeOK
<1>6. CASE OtherTimeout
  <2>1. D20TypeOK'
    BY <1>6, FeedTimeoutType DEF OtherTimeout, TypeOK
  <2>2. Earliest(timeouts, pending) \in TimeoutTypes
    BY <1>6, EarliestType DEF OtherTimeout, TypeOK, D20TypeOK
  <2>. QED BY <1>6, <2>1, <2>2 DEF OtherTimeout, TypeOK, PCs
<1>7. CASE TimeoutFed
  <2>1. timeouts' \in [TimeoutTypes -> Deadlines]
    BY <1>7, StopTimeoutType
    DEF TimeoutFed, reset_timeout, stop_timeout, TypeOK, D20TypeOK
  <2>2. D20TypeOK'
    BY <1>7, <2>1
    DEF TimeoutFed, TypeOK, D20TypeOK, fsmVars, exchangeVars, contextVars
  <2>. QED BY <1>7, <2>2 DEF TimeoutFed, TypeOK, PCs
<1>. QED BY <1>1, <1>2, <1>3, <1>4, <1>5, <1>6, <1>7

\* The steps of poll() that handle a packet, answer and finish.
LEMMA LastStepsType ==
    ASSUME TypeOK,
           \/ NoPacket \/ SetRequest \/ DecodeThrows \/ Feed \/ CheckFeedResult
           \/ NoResponse \/ Respond \/ ResponseDiscarded \/ RespondThrows
           \/ Close \/ PollEnd \/ DelayedClose
    PROVE  TypeOK'
<1>1. CASE NoPacket \/ DecodeThrows \/ NoResponse
  BY <1>1, D20Unchanged DEF NoPacket, DecodeThrows, NoResponse, TypeOK, PCs
<1>2. CASE SetRequest
  <2>1. timeouts' \in [TimeoutTypes -> Deadlines]
    BY <1>2, StopTimeoutType DEF SetRequest, TypeOK, D20TypeOK
  <2>2. D20TypeOK'
    BY <1>2, <2>1
    DEF SetRequest, TypeOK, D20TypeOK, fsmVars, sessionVars, contextVars
  <2>. QED BY <1>2, <2>2 DEF SetRequest, TypeOK, PCs
<1>3. CASE Feed
  BY <1>3, FeedMessageType DEF Feed, TypeOK, PCs
<1>4. CASE CheckFeedResult
  <2>1. D20TypeOK'
    BY <1>4
    DEF CheckFeedResult, TypeOK, D20TypeOK, fsmVars, exchangeVars, contextVars
  <2>. QED BY <1>4, <2>1 DEF CheckFeedResult, TypeOK, PCs
<1>5. CASE Respond
  <2>1. timeouts' \in [TimeoutTypes -> Deadlines]
    BY <1>5, DurationAssumption, StartTimeoutType
    DEF Respond, TypeOK, D20TypeOK, TimeoutTypes
  <2>2. D20TypeOK'
    BY <1>5, <2>1
    DEF Respond, TypeOK, D20TypeOK, fsmVars, sessionVars, contextVars
  <2>3. owed' \in Seq(MessageTypes)
    BY <1>5 DEF Respond, TypeOK
  <2>. QED BY <1>5, <2>2, <2>3 DEF Respond, TypeOK, PCs
<1>6. CASE ResponseDiscarded \/ RespondThrows
  <2>1. D20TypeOK'
    BY <1>6
    DEF ResponseDiscarded, RespondThrows, TypeOK, D20TypeOK, fsmVars, sessionVars,
        contextVars
  <2>. QED BY <1>6, <2>1 DEF ResponseDiscarded, RespondThrows, TypeOK, PCs
<1>7. CASE Close
  <2>1. D20TypeOK'
    BY <1>7 DEF Close, TypeOK, D20TypeOK, fsmVars, exchangeVars, contextVars
  <2>. QED BY <1>7, <2>1 DEF Close, TypeOK, PCs
<1>8. CASE PollEnd
  <2>1. delayed_close' \in Deadlines
    BY <1>8, CloseAssumption DEF PollEnd, Running, Deadlines, TypeOK
  <2>. QED BY <1>8, <2>1, D20Unchanged DEF PollEnd, TypeOK, PCs
<1>9. CASE DelayedClose
  <2>1. delayed_close' \in Deadlines
    BY <1>9 DEF DelayedClose, Off, Deadlines
  <2>2. dlink' \in Seq({"DLINK_PAUSE", "DLINK_TERMINATE"})
    BY <1>9 DEF DelayedClose, TypeOK
  <2>. QED BY <1>9, <2>1, <2>2, D20Unchanged DEF DelayedClose, TypeOK, PCs
<1>. QED BY <1>1, <1>2, <1>3, <1>4, <1>5, <1>6, <1>7, <1>8, <1>9

LEMMA NextType == TypeOK /\ [Next]_vars => TypeOK'
<1>. SUFFICES ASSUME TypeOK, [Next]_vars PROVE TypeOK'
  OBVIOUS
<1>1. CASE UNCHANGED vars
  BY <1>1, D20Unchanged DEF vars, TypeOK
<1>. QED
  BY <1>1, EnvironmentType, FirstStepsType, LastStepsType DEF Next, PollStep

\* Every variable of a session keeps its type, whatever the EV sends and the
\* application pushes: no handler of d20/state leaves a member of the context, of
\* the session or of a state object with a value the others do not expect.
THEOREM TypeCorrectness == Spec => []TypeOK
<1>1. Init => TypeOK
  BY InitType
<1>2. TypeOK /\ [Next]_vars => TypeOK'
  BY NextType
<1>. QED BY <1>1, <1>2, PTL DEF Spec

-----------------------------------------------------------------------------
(* The end of a session.  Neither CloseScheduled nor DlinkOnce is inductive: *)
(* both depend on what holds while poll() runs and before the EV connects.   *)

PollInv ==
    /\ pc # "idle" => connected = "yes"
    /\ connected = "no" => ~Finishing
    /\ delayed_close.on => Finishing
    /\ pc = "idle" /\ connected = "yes" /\ Finishing => delayed_close.on
    /\ connected # "closed" => dlink = <<>>
    /\ connected = "closed" =>
          \/ dlink = <<"DLINK_TERMINATE">>
          \/ dlink = <<"DLINK_PAUSE">> /\ session_paused

\* The steps that can stop or pause the session, but neither begin nor end a poll().
LEMMA MiddleStepsStop ==
    ASSUME TypeOK,
           \/ PopControl \/ ControlDone \/ SequenceTimeout \/ OtherTimeout
           \/ TimeoutFed \/ NoPacket \/ SetRequest \/ DecodeThrows \/ Feed
           \/ CheckFeedResult \/ NoResponse \/ Respond \/ ResponseDiscarded
           \/ RespondThrows
    PROVE  /\ Finishing => Finishing'
           /\ pc # "idle" /\ pc' # "idle"
           /\ UNCHANGED <<connected, delayed_close, dlink>>
<1>. USE DEF Finishing
<1>. session_stopped \in BOOLEAN /\ session_paused \in BOOLEAN
  BY DEF TypeOK, D20TypeOK
<1>1. CASE PopControl
  BY <1>1, FeedControlStops DEF PopControl
<1>2. CASE OtherTimeout
  BY <1>2, FeedTimeoutStops DEF OtherTimeout
<1>3. CASE Feed
  BY <1>3, FeedMessageStops DEF Feed
<1>4. CASE SequenceTimeout \/ TimeoutFed \/ CheckFeedResult
  BY <1>4 DEF SequenceTimeout, TimeoutFed, CheckFeedResult
<1>5. CASE ControlDone \/ NoPacket \/ DecodeThrows \/ NoResponse
  BY <1>5 DEF ControlDone, NoPacket, DecodeThrows, NoResponse, d20Vars, sessionVars
<1>6. CASE SetRequest \/ Respond \/ ResponseDiscarded \/ RespondThrows
  BY <1>6 DEF SetRequest, Respond, ResponseDiscarded, RespondThrows, sessionVars
<1>. QED BY <1>1, <1>2, <1>3, <1>4, <1>5, <1>6

LEMMA PollInvInit == Init => PollInv
BY DEF Init, PollInv, Finishing, Off

LEMMA PollInvNext == TypeOK /\ PollInv /\ [Next]_vars => PollInv'
<1>. SUFFICES ASSUME TypeOK, PollInv, [Next]_vars PROVE PollInv'
  OBVIOUS
<1>. session_stopped \in BOOLEAN /\ session_paused \in BOOLEAN
  BY DEF TypeOK, D20TypeOK
<1>. delayed_close \in Deadlines /\ connected \in {"no", "yes", "closed"}
  BY DEF TypeOK
<1>1. CASE EvConnect
  BY <1>1 DEF EvConnect, PollInv, Finishing, sessionVars
<1>2. CASE (\E q \in EvRequests : EvSend(q)) \/ (\E e \in AppEvents : Push(e))
  <2>1. UNCHANGED <<sessionVars, pc, connected, delayed_close, dlink>>
    BY <1>2, Zenon DEF EvSend, Push, d20Vars
  <2>. QED BY <2>1 DEF PollInv, Finishing, sessionVars
<1>3. CASE Tick
  <2>1. delayed_close'.on = delayed_close.on
    BY <1>3 DEF Tick, Elapse, Deadlines
  <2>. QED BY <1>3, <2>1 DEF Tick, PollInv, Finishing, sessionVars
<1>4. CASE PollStart \/ ReadThrows
  BY <1>4 DEF PollStart, ReadThrows, PollInv, Finishing, d20Vars, sessionVars
<1>5. CASE \/ PopControl \/ ControlDone \/ SequenceTimeout \/ OtherTimeout
           \/ TimeoutFed \/ NoPacket \/ SetRequest \/ DecodeThrows \/ Feed
           \/ CheckFeedResult \/ NoResponse \/ Respond \/ ResponseDiscarded
           \/ RespondThrows
  <2>1. /\ Finishing => Finishing'
        /\ pc # "idle" /\ pc' # "idle"
        /\ UNCHANGED <<connected, delayed_close, dlink>>
    BY <1>5, MiddleStepsStop
  <2>. QED BY <2>1 DEF PollInv
<1>6. CASE Close
  <2>1. connected = "yes" /\ dlink = <<>>
    BY <1>6 DEF Close, PollInv
  <2>. QED BY <1>6, <2>1 DEF Close, PollInv, Finishing
<1>7. CASE PollEnd
  BY <1>7 DEF PollEnd, Running, PollInv, Finishing, d20Vars, sessionVars
<1>8. CASE DelayedClose
  <2>1. dlink = <<>>
    BY <1>8 DEF DelayedClose, PollInv
  <2>. QED
    BY <1>8, <2>1 DEF DelayedClose, Off, PollInv, Finishing, d20Vars, sessionVars
<1>9. CASE UNCHANGED vars
  BY <1>9 DEF vars, PollInv, Finishing, d20Vars, sessionVars
<1>. QED
  BY <1>1, <1>2, <1>3, <1>4, <1>5, <1>6, <1>7, <1>8, <1>9 DEF Next, PollStep

LEMMA PollInvCorrect == Spec => []PollInv
<1>1. Init => PollInv
  BY PollInvInit
<1>2. TypeOK /\ PollInv /\ [Next]_vars => PollInv'
  BY PollInvNext
<1>. QED BY <1>1, <1>2, TypeCorrectness, PTL DEF Spec

\* A session that has to end has its delayed close scheduled whenever poll() returns,
\* whichever handler, timeout or sequence error stopped or paused it.
THEOREM CloseIsScheduled == Spec => []CloseScheduled
<1>1. PollInv /\ TypeOK => CloseScheduled
  BY DEF PollInv, CloseScheduled, TypeOK, D20TypeOK, Finishing, Deadlines
<1>. QED BY <1>1, TypeCorrectness, PollInvCorrect, PTL

LEMMA DlinkCounted == PollInv => DlinkOnce
<1>. SUFFICES ASSUME PollInv PROVE DlinkOnce
  OBVIOUS
<1>1. CASE connected # "closed"
  BY <1>1 DEF PollInv, DlinkOnce
<1>2. CASE connected = "closed"
  <2>1. CASE dlink = <<"DLINK_TERMINATE">>
    <3>1. dlink # <<"DLINK_PAUSE">>
      BY <2>1
    <3>. QED BY <1>2, <2>1, <3>1 DEF DlinkOnce
  <2>2. CASE dlink = <<"DLINK_PAUSE">> /\ session_paused
    BY <1>2, <2>2 DEF DlinkOnce
  <2>. QED BY <1>2, <2>1, <2>2 DEF PollInv
<1>. QED BY <1>1, <1>2

\* DLINK_TERMINATE or DLINK_PAUSE is signalled exactly once, with the end of the
\* connection, and DLINK_PAUSE only for a paused session.
THEOREM DlinkIsSignalledOnce == Spec => []DlinkOnce
<1>1. PollInv => DlinkOnce
  BY DlinkCounted
<1>. QED BY <1>1, PollInvCorrect, PTL

-----------------------------------------------------------------------------
(* The message exchange *)

\* Nothing is pending before the EV connects, and only an error leaves something.
ExchangeInv ==
    /\ ExchangeEmptied
    /\ pc # "idle" => connected = "yes"
    /\ pc = "feed" => packet = NoMessage

LEMMA ExchangeInvNext == ExchangeInv /\ [Next]_vars => ExchangeInv'
<1>. SUFFICES ASSUME ExchangeInv, [Next]_vars PROVE ExchangeInv'
  OBVIOUS
<1>. USE DEF ExchangeInv, ExchangeEmptied
<1>1. CASE EvConnect \/ Tick
  BY <1>1 DEF EvConnect, Tick, exchangeVars
<1>2. CASE (\E q \in EvRequests : EvSend(q)) \/ (\E e \in AppEvents : Push(e))
  <2>1. UNCHANGED <<exchangeVars, pc, connected, packet>>
    BY <1>2, Zenon DEF EvSend, Push, d20Vars
  <2>. QED BY <2>1 DEF exchangeVars
<1>3. CASE PollStart \/ ReadThrows
  BY <1>3 DEF PollStart, ReadThrows, d20Vars, exchangeVars
<1>4. CASE PopControl
  BY <1>4 DEF PopControl, FeedControl
<1>5. CASE ControlDone \/ NoPacket \/ DecodeThrows \/ NoResponse
  BY <1>5 DEF ControlDone, NoPacket, DecodeThrows, NoResponse, d20Vars, exchangeVars
<1>6. CASE SequenceTimeout \/ TimeoutFed \/ CheckFeedResult
  BY <1>6 DEF SequenceTimeout, TimeoutFed, CheckFeedResult, exchangeVars
<1>7. CASE OtherTimeout
  BY <1>7 DEF OtherTimeout, FeedTimeout
<1>8. CASE SetRequest
  BY <1>8 DEF SetRequest
<1>9. CASE Feed
  BY <1>9 DEF Feed, FeedMessage
<1>10. CASE Respond \/ ResponseDiscarded \/ RespondThrows
  BY <1>10 DEF Respond, ResponseDiscarded, RespondThrows
<1>11. CASE Close
  BY <1>11 DEF Close, exchangeVars
<1>12. CASE PollEnd \/ DelayedClose
  BY <1>12 DEF PollEnd, DelayedClose, d20Vars, exchangeVars
<1>13. CASE UNCHANGED vars
  BY <1>13 DEF vars, d20Vars, exchangeVars
<1>. QED
  BY <1>1, <1>2, <1>3, <1>4, <1>5, <1>6, <1>7, <1>8, <1>9, <1>10, <1>11, <1>12,
     <1>13
  DEF Next, PollStep

\* A request is pulled and a response sent in the poll() they belong to, so that
\* "Previous V2G message has not been handled yet" is never thrown.
THEOREM ExchangeIsEmptied == Spec => []ExchangeEmptied
<1>1. Init => ExchangeInv
  BY DEF Init, ExchangeInv, ExchangeEmptied
<1>2. ExchangeInv /\ [Next]_vars => ExchangeInv'
  BY ExchangeInvNext
<1>3. ExchangeInv => ExchangeEmptied
  BY DEF ExchangeInv
<1>. QED BY <1>1, <1>2, <1>3, PTL DEF Spec

-----------------------------------------------------------------------------
(* The parameters of the application *)

LEMMA EnteredParameters ==
    ASSUME NEW s, cache' = cache, Goto(s) PROVE LatestParameters'
BY DEF Goto, Entered, Constructed, LatestParameters, ChargeLoops

LEMMA KeepsLatestParameters ==
    ASSUME LatestParameters, cache' = cache, KeepsParameters
    PROVE  LatestParameters'
<1>1. CASE \E s \in StateIDs : Goto(s)
  BY <1>1, EnteredParameters
<1>2. CASE \E l \in Locals : Stay(l) /\ SameParameters(l)
  BY <1>2 DEF Stay, SameParameters, LatestParameters
<1>. QED BY <1>1, <1>2 DEF KeepsParameters

\* poll() caches an update and feeds it: both copies are the same afterwards.
LEMMA PopControlParameters ==
    ASSUME TypeOK, LatestParameters, PopControl PROVE LatestParameters'
<1>. DEFINE e == Head(queue)
<1>1. local \in Locals /\ cache \in CacheType
  BY DEF TypeOK, D20TypeOK
<1>2. cache' = Cached(e) /\ FeedControl(e)
  BY DEF PopControl
<1>. HIDE DEF e
<1>3. CASE current_state = "PowerDelivery" /\ e.kind = "ClosedContactor"
  <2>1. cache' = cache
    BY <1>2, <1>3 DEF Cached
  <2>2. KeepsParameters
    BY <1>1, <1>2, <1>3, LocalsType, LocalsParameters
    DEF FeedControl, ClosedContactor, KeepsParameters, StateIDs
  <2>. QED BY <2>1, <2>2, KeepsLatestParameters
<1>4. CASE ~(current_state = "PowerDelivery" /\ e.kind = "ClosedContactor")
  <2>1. current_state' = current_state /\ local' = Applied(e)
    BY <1>2, <1>4 DEF FeedControl, Stay
  <2>2. ASSUME current_state \in ChargeLoops
        PROVE  Applied(e).dynamic = Cached(e).dynamic
    BY <1>1, <2>2
    DEF Applied, Cached, LatestParameters, ChargeLoops, Locals, CacheType
  <2>3. ASSUME current_state = "AC_ChargeLoop"
        PROVE  Applied(e).target = Cached(e).target
    BY <1>1, <2>3
    DEF Applied, Cached, LatestParameters, ChargeLoops, Locals, CacheType
  <2>4. ASSUME current_state \in {"AC_ChargeLoop", "AC_ChargeParameterDiscovery"}
        PROVE  Applied(e).present = Cached(e).present
    BY <1>1, <2>4
    DEF Applied, Cached, LatestParameters, ChargeLoops, Locals, CacheType
  <2>. QED BY <1>2, <2>1, <2>2, <2>3, <2>4 DEF LatestParameters
<1>. QED BY <1>3, <1>4

LEMMA LatestParametersNext ==
    TypeOK /\ LatestParameters /\ [Next]_vars => LatestParameters'
<1>. SUFFICES ASSUME TypeOK, LatestParameters, [Next]_vars PROVE LatestParameters'
  OBVIOUS
<1>1. CASE PopControl
  BY <1>1, PopControlParameters
<1>2. CASE Feed
  BY <1>2, FeedMessageParameters, KeepsLatestParameters DEF Feed, TypeOK
<1>3. CASE OtherTimeout
  <2>1. cache' = cache
    BY <1>3 DEF OtherTimeout, FeedTimeout, quietVars, contextVars
  <2>2. KeepsParameters
    BY <1>3, LocalsType, LocalsParameters
    DEF OtherTimeout, FeedTimeout, KeepsParameters, TypeOK, D20TypeOK
  <2>. QED BY <2>1, <2>2, KeepsLatestParameters
<1>4. CASE UNCHANGED <<fsmVars, cache>>
  BY <1>4 DEF fsmVars, LatestParameters
<1>5. CASE \/ EvConnect \/ (\E q \in EvRequests : EvSend(q))
           \/ (\E e \in AppEvents : Push(e)) \/ Tick \/ UNCHANGED vars
  BY <1>4, <1>5, Zenon DEF EvConnect, EvSend, Push, Tick, vars, d20Vars, contextVars
<1>6. CASE \/ PollStart \/ ReadThrows \/ ControlDone \/ SequenceTimeout \/ TimeoutFed
           \/ NoPacket \/ SetRequest \/ DecodeThrows
  BY <1>4, <1>6
  DEF PollStart, ReadThrows, ControlDone, SequenceTimeout, TimeoutFed, NoPacket,
      SetRequest, DecodeThrows, d20Vars, contextVars
<1>7. CASE \/ CheckFeedResult \/ NoResponse \/ Respond \/ ResponseDiscarded
           \/ RespondThrows \/ Close \/ PollEnd \/ DelayedClose
  BY <1>4, <1>7
  DEF CheckFeedResult, NoResponse, Respond, ResponseDiscarded, RespondThrows, Close,
      PollEnd, DelayedClose, d20Vars, contextVars
<1>. QED BY <1>1, <1>2, <1>3, <1>5, <1>6, <1>7 DEF Next, PollStep

\* The charge loops and AC_ChargeParameterDiscovery always answer with the latest
\* parameters taken from the queue, whenever they came: before the state was
\* entered (the cache of the context) or in it (its own members).
THEOREM ParametersAreLatest == Spec => []LatestParameters
<1>1. Init => LatestParameters
  BY DEF Init, LatestParameters, ChargeLoops
<1>2. TypeOK /\ LatestParameters /\ [Next]_vars => LatestParameters'
  BY LatestParametersNext
<1>. QED BY <1>1, <1>2, TypeCorrectness, PTL DEF Spec

=============================================================================
