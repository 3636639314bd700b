----------------------------- MODULE D20Context -----------------------------
(***************************************************************************)
(* d20::Context and what the states of the ISO 15118-20 machine share:     *)
(* the message exchange, the session, the pause context, the control       *)
(* parameters cached for later states, the data members of the state       *)
(* objects, and the results a feed can have.                               *)
(*                                                                         *)
(* A request is [type, sid, arg]: its message type, the session id of its  *)
(* header and the one field the handlers look at.  Voltages, powers,       *)
(* limits and schedules are data the control flow never looks at.          *)
(***************************************************************************)
EXTENDS Timeouts, FiniteSets

CONSTANTS
    AuthServices,       \* session_config.authorization_services
    Vehicles,           \* vehicles, identified by the hash of their certificate
    Values,             \* contents of the parameter updates of the application
    NoCert,             \* no vehicle certificate
    NoValue,            \* no parameter update yet
    NoMessage,          \* no request, or no response
    SEQUENCE_MS,        \* TIMEOUT_SEQUENCE
    ONGOING_MS,         \* TIMEOUT_ONGOING
    EIM_ONGOING_MS,     \* TIMEOUT_EIM_ONGOING
    CONTACTOR_MS        \* the 3000 ms of PowerDelivery

ASSUME AuthAssumption == AuthServices \subseteq {"EIM", "PnC"}

ASSUME DurationAssumption ==
    /\ SEQUENCE_MS \in Nat \ {0}
    /\ ONGOING_MS \in Nat \ {0}
    /\ EIM_ONGOING_MS \in Nat \ {0}
    /\ CONTACTOR_MS \in Nat \ {0}

ASSUME NoCertAssumption == NoCert \notin Vehicles

VARIABLES
    current_state,      \* FSM::m_current_state
    local,              \* the data members of the current state object
    feed_result,        \* what the last FSM::feed returned
    request,            \* MessageExchange::request
    response,           \* MessageExchange::response_message while available
    timeouts,           \* Session::timeouts
    session,            \* Context::session
    session_stopped,    \* Context::session_stopped
    session_paused,     \* Context::session_paused
    pause_ctx,          \* Context::pause_ctx, a reference the sessions share
    cert,               \* Context::vehicle_cert_hash
    cache,              \* Context::cache_*
    services,           \* session_config.supported_energy_transfer_services, _vas_services
    signals,            \* feedback signals given so far
    next_id,            \* the next session id the random generator draws
    approvals           \* history: what the application approved, and when

fsmVars == <<current_state, local, feed_result>>
exchangeVars == <<request, response>>
sessionVars == <<session, session_stopped, session_paused, next_id>>
contextVars == <<pause_ctx, cert, cache, services, approvals>>
d20Vars == <<fsmVars, exchangeVars, sessionVars, contextVars, timeouts, signals>>

\* What a handler that only answers, stops the session or moves on leaves alone.
quietVars == <<session, session_paused, next_id, contextVars, timeouts, signals>>

-----------------------------------------------------------------------------
(* Data *)

StateIDs ==
    {"SupportedAppProtocol", "SessionSetup", "AuthorizationSetup",
     "Authorization", "ServiceDiscovery", "ServiceDetail", "ServiceSelection",
     "AC_ChargeParameterDiscovery", "DC_ChargeParameterDiscovery",
     "ScheduleExchange", "DC_CableCheck", "DC_PreCharge", "PowerDelivery",
     "AC_ChargeLoop", "DC_ChargeLoop", "DC_WeldingDetection", "SessionStop"}

Services == {"AC", "DC"}

\* The energy services and, one for all of them, the value added services.
Offerable == Services \cup {"VAS"}

Progress == {"Start", "Stop", "Standby", "ScheduleRenegotiation"}

\* The values of the field a handler looks at, per type of request.
Args ==
    [ SupportedAppProtocolReq        |-> {"known", "unknown"},
      SessionSetupReq                |-> {"-"},
      AuthorizationSetupReq          |-> {"-"},
      AuthorizationReq               |-> {"EIM", "PnC"},
      ServiceDiscoveryReq            |-> {"any", "AC", "DC"},
      ServiceDetailReq               |-> {"AC", "DC", "VAS", "other"},
      ServiceSelectionReq            |-> {"AC", "DC", "AC+VAS", "DC+VAS", "other"},
      AC_ChargeParameterDiscoveryReq |-> {"match", "mismatch"},
      DC_ChargeParameterDiscoveryReq |-> {"match", "mismatch"},
      ScheduleExchangeReq            |-> {"match", "mismatch"},
      DC_CableCheckReq               |-> {"-"},
      DC_PreChargeReq                |-> {"-"},
      PowerDeliveryReq               |-> Progress,
      AC_ChargeLoopReq               |-> {"match", "mismatch"},
      DC_ChargeLoopReq               |-> {"match", "mismatch"},
      DC_WeldingDetectionReq         |-> {"Ongoing", "Finished"},
      SessionStopReq                 |-> {"Pause", "Terminate", "ServiceRenegotiation"},
      None                           |-> {"-"} ]     \* could not be decoded

MessageTypes == DOMAIN Args

Messages ==
    {m \in [type : MessageTypes, sid : Nat,
            arg : UNION {Args[type] : type \in MessageTypes}] :
        m.arg \in Args[m.type]}

Codes == {"OK", "OK_OldSessionJoined", "WARNING", "FAILED"}

Notifications == {"None", "Terminate", "Pause"}

Responses == [type : MessageTypes, code : Codes, status : Notifications]

Res(type, code) == [type |-> type, code |-> code, status |-> "None"]

\* The application's control events.  PresentVoltageCurrent and the limits only
\* carry data and are left out.
BoolEvents ==
    {"AuthorizationResponse", "CableCheckFinished", "StopCharging",
     "PauseCharging", "ClosedContactor"}

ValueEvents == {"UpdateDynamicModeParameters", "AcTargetPower", "AcPresentPower"}

ControlEvents ==
    [kind : BoolEvents, val : BOOLEAN]
        \cup [kind : ValueEvents, val : Values]
        \cup [kind : {"EnergyServices"}, val : SUBSET Services]
        \cup [kind : {"SupportedVASs"}, val : SUBSET {"VAS"}]

Signals ==
    {"REQUIRE_AUTH_EIM", "START_CABLE_CHECK", "SETUP_FINISHED",
     "PRE_CHARGE_STARTED", "CHARGE_LOOP_STARTED", "CHARGE_LOOP_FINISHED",
     "DC_OPEN_CONTACTOR", "AC_OPEN_CONTACTOR", "AC_CLOSE_CONTACTOR"}

\* Mutant: the selected service has no initializer.
NewSession_uninitialized(id) ==
    [id |-> id, selected |-> "indeterminate", offered |-> {}, detailed |-> {}]

\* d20::Session: its id, the selected energy service and what was offered.
NewSession(id) ==
    [id |-> id, selected |-> "None", offered |-> {}, detailed |-> {}]

Sessions ==
    [id : Nat, selected : Services \cup {"None"}, offered : SUBSET Offerable,
     detailed : SUBSET Offerable]

\* std::optional<PauseContext>; a hash of (vehicle, session id) is that pair.
NoPause == [set |-> FALSE, vehicle |-> NoCert, id |-> 0, selected |-> "None"]

PauseContextType ==
    [set : BOOLEAN, vehicle : Vehicles \cup {NoCert}, id : Nat,
     selected : Services \cup {"None"}]

CacheType ==
    [dynamic : Values \cup {NoValue}, target : Values \cup {NoValue},
     present : Values \cup {NoValue}]

Approvals == {"authorized", "cable_checked", "contactor_closed", "resumed"}

\* The data members of a state object, and what its constructor and enter()
\* give them; a member no handler of the state uses has its default.
Locals ==
    [auth : {"Pending", "Accepted", "Rejected"}, first_req : BOOLEAN,
     ongoing_reached : BOOLEAN, initiated : BOOLEAN, cable_done : BOOLEAN,
     closed : BOOLEAN, previous_req : {"None", "valid", "unknown_session"},
     first_entry : BOOLEAN, stop : BOOLEAN, pause : BOOLEAN,
     dynamic : Values \cup {NoValue}, target : Values \cup {NoValue},
     present : Values \cup {NoValue}]

Constructed(s) ==
    [auth |-> "Pending", first_req |-> TRUE, ongoing_reached |-> FALSE,
     initiated |-> FALSE, cable_done |-> FALSE, closed |-> FALSE,
     previous_req |-> "None", first_entry |-> (s = "DC_ChargeLoop"),
     stop |-> FALSE, pause |-> FALSE,
     dynamic |-> NoValue, target |-> NoValue, present |-> NoValue]

\* Mutant: enter() does not look at the cached parameters.
Entered_uncached(s) == Constructed(s)

Entered(s) ==
    [Constructed(s) EXCEPT
        !.dynamic = IF s \in {"AC_ChargeLoop", "DC_ChargeLoop"}
                    THEN cache.dynamic ELSE @,
        !.target  = IF s = "AC_ChargeLoop" THEN cache.target ELSE @,
        !.present = IF s \in {"AC_ChargeLoop", "AC_ChargeParameterDiscovery"}
                    THEN cache.present ELSE @]

\* An empty std::optional and a null pointer are told apart from every message.
ASSUME NoMessageAssumption == NoMessage \notin Messages \cup Responses

D20TypeOK ==
    /\ current_state \in StateIDs
    /\ local \in Locals
    /\ feed_result \in {"None", "Unhandled", "Transition"}
    /\ request \in Messages \cup {NoMessage}
    /\ response \in Responses \cup {NoMessage}
    /\ timeouts \in [TimeoutTypes -> Deadlines]
    /\ session \in Sessions
    /\ session_stopped \in BOOLEAN
    /\ session_paused \in BOOLEAN
    /\ pause_ctx \in PauseContextType
    /\ cert \in Vehicles \cup {NoCert}
    /\ cache \in CacheType
    /\ services \in SUBSET Offerable
    /\ signals \in SUBSET Signals
    /\ next_id \in Nat
    /\ approvals \in SUBSET Approvals

-----------------------------------------------------------------------------
(* Results of a feed *)

\* "return {};": the default Result has unhandled = true, and FSM::feed
\* returns an Unhandled FeedResult without touching the state.
Stay(l) ==
    /\ local' = l
    /\ current_state' = current_state
    /\ feed_result' = "Unhandled"

\* "return m_ctx.create_state<s>()": leave the old state, enter the new one.
Goto(s) ==
    /\ current_state' = s
    /\ local' = Entered(s)
    /\ feed_result' = "Transition"

\* validate_and_setup_header, before the checks that give `code`.
Validated(m, code) == IF m.sid = session.id THEN code ELSE "FAILED"

\* session_stopped is only ever set; a response code from FAILED on sets it.
StopIfFailed(code) == session_stopped' = (session_stopped \/ code = "FAILED")

\* respond(res); a FAILED code stops the session, any other leads to s.
RespondThen(m, code, s) ==
    /\ response' = Res(m.type, code)
    /\ StopIfFailed(code)
    /\ IF code = "FAILED" THEN Stay(local) ELSE Goto(s)

\* send_sequence_error: there is a response for every type of request but these.
SequenceError(m) ==
    /\ response' = IF m.type \in {"SupportedAppProtocolReq", "None"}
                   THEN response ELSE Res(m.type, "FAILED")
    /\ session_stopped' = TRUE
    /\ Stay(local)

\* handle_request(SessionStopRequest): renegotiation is never supported.
SessionStopCode(m) ==
    Validated(m, IF m.arg = "ServiceRenegotiation" THEN "FAILED" ELSE "OK")

\* Mutant: a SessionStopReq with Pause is taken for one after charging.
StopOrSequenceError_pauses(m, expected) ==
    /\ m.type \notin expected
    /\ \/ /\ m.type = "SessionStopReq"
          /\ response' = Res(m.type, SessionStopCode(m))
          /\ session_stopped' = TRUE
          /\ session_paused' = (session_paused \/ m.arg = "Pause")
          /\ Stay(local)
       \/ /\ m.type # "SessionStopReq"
          /\ SequenceError(m)
          /\ UNCHANGED session_paused
    /\ UNCHANGED <<session, next_id, contextVars, timeouts, signals>>

\* The branches shared by the states before charging: any SessionStopReq ends
\* the session, any other unexpected request is a sequence error.
StopOrSequenceError(m, expected) ==
    /\ m.type \notin expected
    /\ \/ /\ m.type = "SessionStopReq"
          /\ response' = Res(m.type, SessionStopCode(m))
          /\ session_stopped' = TRUE
          /\ Stay(local)
       \/ /\ m.type # "SessionStopReq"
          /\ SequenceError(m)
    /\ UNCHANGED quietVars

UnexpectedRequest(m, expected) ==
    /\ m.type \notin expected
    /\ SequenceError(m)
    /\ UNCHANGED quietVars

=============================================================================
