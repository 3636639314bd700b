---------------------------- MODULE Negotiation ----------------------------
(***************************************************************************)
(* The parameters of one session, from ServiceDetail to the charge loop:   *)
(* which parameter sets the EV is told of and selects, and with AC_DER     *)
(* which control data it gets from the provider of the application.        *)
(*                                                                         *)
(* IsoSession models the same states without parameter sets, but with the  *)
(* exchange, the timers and the requests that are out of sequence; here    *)
(* every request is one step and the EV keeps to the sequence.             *)
(*                                                                         *)
(* As there, poll() stops the session when a handler answers and stays in  *)
(* its state, and goes on serving a stopped session until the delayed      *)
(* close: asking for a service again, or a second request of the charge    *)
(* loop, only ever happens in that grace period.                           *)
(***************************************************************************)
EXTENDS ServiceParameters, FiniteSetsExt

CONSTANTS
    Setups,             \* EvseSetupConfigs of the application
    VasServices,        \* value added services
    VasReplies(_),      \* what get_vas_parameters may return for a service
    CustomResults,      \* what a provider of the application's own may return
    SelectionRequests,  \* ServiceSelectionReqs of the EV
    MaxDetails          \* bound: ServiceDetailReqs of a session

\* The types of what the application configures and of what the EV selects.
ASSUME NegotiationAssumption ==
    /\ \A s \in Setups :
          /\ s.vas \subseteq VasServices
          /\ s.modes \in Seq([control : ControlModes, mobility : MobilityNeedsModes])
          /\ s.connectors \in Seq(STRING)
          /\ \A c \in s.config : IsControlConfig(c)
          /\ \A p \in s.provider :
                \/ p.kind = "static" /\ IsControlConfig(p.config)
                \/ p.kind = "secc" /\ p.snapshots \in ControlSnapshots
                \/ p.kind = "custom"
    /\ \A r \in CustomResults : \A c \in r.config : IsControlConfig(c)
    /\ \A q \in SelectionRequests :
          /\ q.id \in Nat
          /\ \A list \in q.vas : /\ list \in Seq([service : STRING, id : Nat])
                               /\ q.vas = {list}

VARIABLES
    setup,              \* SessionConfig, as far as it is fixed
    internet,           \* SessionConfig::internet_parameter_list
    parking,            \* SessionConfig::parking_parameter_list
    state,              \* the state of the state machine
    stopped,            \* Context::session_stopped
    offered,            \* Session::offered_services, the parameter lists
    told,               \* history: what the responses said of each id
    selected,           \* Session::selected_services, with the id asked for
    selected_vas,       \* Session::selected_vas_services
    answer,             \* the last response, and what counts of its request
    diagnostic,         \* the last AcDerControlDiagnostic reported
    details             \* ServiceDetailReqs so far

vars == <<setup, internet, parking, state, stopped, offered, told, selected,
          selected_vas, answer, diagnostic, details>>

Services == EnergyServices \cup VasServices

None == {}

NoAnswer == [to |-> "none", req |-> "none", code |-> "OK", data |-> None]

\* The id of the session, and any other.
SessionIds == {"own", "other"}

Provider == SessionProvider(setup)

Sel == CHOOSE s \in selected : TRUE

-----------------------------------------------------------------------------
(* A response and what every state does after it *)

Respond(to, req, code, data) ==
    answer' = [to |-> to, req |-> req, code |-> code, data |-> data]

\* A failed response ends the session.
Refuse(to, req, code) ==
    /\ Respond(to, req, code, None)
    /\ stopped' = TRUE
    /\ UNCHANGED state

\* The result of the feed.  A handler that stays in its state returns {}, which is
\* unhandled: poll stops the session, whatever the response was.
FeedResult(next) ==
    /\ state' = next
    /\ stopped' = (stopped \/ next = state)

Accept(to, req, data, next) ==
    /\ Respond(to, req, "OK", data)
    /\ FeedResult(next)

-----------------------------------------------------------------------------
(* ServiceDetail and ServiceSelection *)

\* The feed functions of both states ask the application first, and store the
\* parameters of Internet and ParkingStatus before they look at the session id.
AskApplication(service, reply) ==
    /\ internet' = IF service = "Internet" /\ reply # None
                   THEN LET sets == CHOOSE r \in reply : TRUE
                        IN  [n \in DOMAIN sets |-> InternetPort(sets[n].id)]
                   ELSE internet
    /\ parking' = IF service = "ParkingStatus" /\ reply # None
                  THEN LET sets == CHOOSE r \in reply : TRUE
                       IN  [n \in DOMAIN sets |-> sets[n].value]
                  ELSE parking

\* The list handle_request goes through.
ConfiguredList(service) ==
    CASE service \in EnergyServices -> ParameterList(setup, service)
      [] service = "Internet" -> internet'
      [] service = "ParkingStatus" -> parking'
      [] OTHER -> <<>>

\* A ServiceDetailReq.
DetailRequest(sid, service, reply) ==
    LET custom == service \notin EnergyServices \cup KnownVas /\ reply # None
        offer == IF custom THEN CustomOffer(CHOOSE r \in reply : TRUE)
                 ELSE Offer(service, ConfiguredList(service))
        failure == FirstFailure(<<
            <<sid = "own", "FAILED_UnknownSession">>,
            <<service \in setup.energy \cup setup.vas, "FAILED_ServiceIDInvalid">>,
            <<service = "AC_DER" => DOMAIN offer # {}, "FAILED_ServiceIDInvalid">> >>)
    IN  /\ details < MaxDetails
        /\ details' = details + 1
        /\ AskApplication(service, reply)
        /\ \/ /\ failure = {}
              /\ Accept("ServiceDetailReq", None, None, "ServiceSelection")
              /\ offered' = [offered EXCEPT ![service] =
                               IF custom THEN offer ELSE AfterDetail(@, offer)]
              /\ told' = [told EXCEPT ![service] = Over(offer, @)]
           \/ /\ \E code \in failure : Refuse("ServiceDetailReq", None, code)
              /\ UNCHANGED <<offered, told>>
        /\ UNCHANGED <<setup, selected, selected_vas, diagnostic>>

ServiceDetail(sid, service, reply) ==
    /\ state = "ServiceDetail"
    /\ DetailRequest(sid, service, reply)

\* The EV may ask again before it selects, for which ServiceSelection has a copy of
\* the handler.  It stays in its state, so an OK ends the session as well.
ServiceSelection_detail(sid, service, reply) ==
    /\ state = "ServiceSelection"
    /\ DetailRequest(sid, service, reply)

\* Session::selected_service_parameters for an energy service.
SelectEnergy(service, id) ==
    selected' = {[service |-> service, id |-> id, set |-> offered[service][Key(id)]]}

\* Session::selected_service_parameters for the value added services of a list, up
\* to the first one whose parameter set is not found.  A custom service stores
\* nothing.
SelectVas(list, found) ==
    selected_vas' =
        [v \in KnownVas |->
            LET stored == {n \in found : /\ list[n].service = v
                                         /\ \A m \in 1..n : m \in found}
            IN  IF stored = {} THEN selected_vas[v]
                ELSE LET id == list[Max(stored)].id
                     IN  {[id |-> id, set |-> offered[v][Key(id)]]}]

NextState(service) ==
    IF service \in AcServices THEN "AC_ChargeParameterDiscovery"
    ELSE "DC_ChargeParameterDiscovery"

\* A ServiceSelectionReq.  The energy service is selected before the parameter sets
\* of the value added services are looked up.
ServiceSelection(req) ==
    LET list == IF req.vas = None THEN <<>> ELSE CHOOSE l \in req.vas : TRUE
        found == {n \in DOMAIN list :
                    find_vas_parameter_set_id(offered, list[n].service, list[n].id)}
        known == find_energy_parameter_set_id(offered, req.service, req.id)
        failure == FirstFailure(<<
            <<req.sid = "own", "FAILED_UnknownSession">>,
            <<req.service \in setup.energy, "FAILED_NoEnergyTransferServiceSelected">>,
            <<req.vas # None =>
                /\ list # <<>>
                /\ \A n \in DOMAIN list : list[n].service \in setup.vas,
              "FAILED_ServiceSelectionInvalid">>,
            <<known, "FAILED_ServiceSelectionInvalid">>,
            <<known /\ req.service = "AC_DER" =>
                \A controls \in offered[req.service][Key(req.id)].functions :
                    has_required_ac_der_control_functions(controls),
              "FAILED_ServiceSelectionInvalid">> >>)
    IN  /\ state = "ServiceSelection"
        /\ \/ /\ failure = {}
              /\ SelectEnergy(req.service, req.id)
              /\ SelectVas(list, found)
              /\ IF found = DOMAIN list
                 THEN Accept("ServiceSelectionReq", req.vas, None, NextState(req.service))
                 ELSE Refuse("ServiceSelectionReq", req.vas, "FAILED_ServiceSelectionInvalid")
           \/ /\ \E code \in failure : Refuse("ServiceSelectionReq", req.vas, code)
              /\ UNCHANGED <<selected, selected_vas>>
        /\ UNCHANGED <<setup, internet, parking, offered, told, diagnostic, details>>

-----------------------------------------------------------------------------
(* AC_ChargeParameterDiscovery and AC_ChargeLoop *)

\* What get_ac_der_control_result may return.
ProviderResults ==
    LET context == [service |-> Sel.service, control |-> Sel.set.control,
                    mobility |-> Sel.set.mobility, functions |-> Sel.set.functions]
    IN  CASE Provider.kind = "static" -> {StaticResult(Provider.config, context)}
          [] Provider.kind = "secc" -> {SeccResult(Provider.snapshots, context)}
          [] Provider.kind = "custom" -> CustomResults

Failure(code, reason) == [code |-> code, reason |-> reason]

\* The control functions of the selected set.
Controls == UNION Sel.set.functions

\* ChargeParameterDiscovery that only validates the data it sends itself.
DerChecks_own(sid, matches, result, code) ==
    LET used == IF code = "FAILED" THEN Controls ELSE Controls \cap CpdFunctions
    IN  << <<sid = "own", Failure("FAILED_UnknownSession", "None")>>,
           <<matches, Failure(code, "NonAcDerServiceSelected")>>,
           <<Sel.set.functions # {}, Failure(code, "MissingSelectedControlFunctions")>>,
           <<has_required_ac_der_control_functions(Controls),
             Failure(code, "MissingSelectedMandatoryControlFunctions")>>,
           <<result.config # {}, Failure(code, result.failure_reason)>>,
           <<\A config \in result.config : validate_ac_der_control_config(config, used),
             Failure(code, "InvalidDsoControl")>> >>

\* The checks of a DER request, in both states.
DerChecks(sid, matches, result, code) ==
    << <<sid = "own", Failure("FAILED_UnknownSession", "None")>>,
       <<matches, Failure(code, "NonAcDerServiceSelected")>>,
       <<Sel.set.functions # {}, Failure(code, "MissingSelectedControlFunctions")>>,
       <<has_required_ac_der_control_functions(Controls),
         Failure(code, "MissingSelectedMandatoryControlFunctions")>>,
       <<result.config # {}, Failure(code, result.failure_reason)>>,
       <<\A config \in result.config : validate_ac_der_control_config(config, Controls),
         Failure(code, "InvalidDsoControl")>> >>

\* The control data a response carries.
DerData(result, functions) ==
    {[f \in functions |-> config[f]] : config \in result.config}

\* A refusal with a reason is reported to the application.
Answer(to, req, failure, data, next) ==
    \/ /\ failure = {}
       /\ Accept(to, req, data, next)
       /\ UNCHANGED diagnostic
    \/ \E f \in failure :
          /\ Refuse(to, req, f.code)
          /\ diagnostic' = IF f.reason = "None" THEN diagnostic
                           ELSE {[to |-> to, code |-> f.code, reason |-> f.reason]}

AC_ChargeParameterDiscovery(sid, mode) ==
    LET req == [sid |-> sid, mode |-> mode]
        wrong == "FAILED_WrongChargeParameter"
        checks == << <<sid = "own", Failure("FAILED_UnknownSession", "None")>>,
                     <<mode = Sel.service, Failure(wrong, "None")>> >>
    IN  /\ state = "AC_ChargeParameterDiscovery"
        /\ IF mode = "AC_DER"
           THEN \E result \in ProviderResults :
                   Answer("AC_ChargeParameterDiscoveryReq", req,
                          FirstFailure(DerChecks(sid, Sel.service = "AC_DER", result,
                                                 wrong)),
                          DerData(result, CpdFunctions), "ScheduleExchange")
           ELSE Answer("AC_ChargeParameterDiscoveryReq", req, FirstFailure(checks), None,
                       "ScheduleExchange")
        /\ UNCHANGED <<setup, internet, parking, offered, told, selected, selected_vas,
                       details>>

\* ScheduleExchange and PowerDelivery leave all of this alone, but the request that
\* waits for the contactor is unhandled.
PowerDelivered ==
    /\ state = "ScheduleExchange"
    /\ state' = "AC_ChargeLoop"
    /\ stopped' \in {stopped, TRUE}
    /\ UNCHANGED <<setup, internet, parking, offered, told, selected, selected_vas,
                   answer, diagnostic, details>>

AC_ChargeLoop(sid, control, mode) ==
    LET matches == control = Sel.set.control /\ mode = Sel.service
        req == [sid |-> sid, control |-> control, mode |-> mode]
        checks == << <<sid = "own", Failure("FAILED_UnknownSession", "None")>>,
                     <<matches, Failure("FAILED", "None")>> >>
    IN  /\ state = "AC_ChargeLoop"
        /\ IF mode = "AC_DER"
           THEN \E result \in ProviderResults :
                   Answer("AC_ChargeLoopReq", req,
                          FirstFailure(DerChecks(sid, matches, result, "FAILED")),
                          DerData(result, SetpointFunctions \cap Controls),
                          "AC_ChargeLoop")
           ELSE Answer("AC_ChargeLoopReq", req, FirstFailure(checks), None,
                       "AC_ChargeLoop")
        /\ UNCHANGED <<setup, internet, parking, offered, told, selected, selected_vas,
                       details>>

-----------------------------------------------------------------------------

Init ==
    /\ setup \in Setups
    /\ internet = <<>> /\ parking = <<>>
    /\ state = "ServiceDetail" /\ stopped = FALSE
    /\ offered = [s \in Services |-> Empty]
    /\ told = [s \in Services |-> Empty]
    /\ selected = None
    /\ selected_vas = [v \in KnownVas |-> None]
    /\ answer = NoAnswer
    /\ diagnostic = None
    /\ details = 0

Next ==
    \/ \E sid \in SessionIds, service \in Services :
          \E reply \in VasReplies(service) :
             \/ ServiceDetail(sid, service, reply)
             \/ ServiceSelection_detail(sid, service, reply)
    \/ \E req \in SelectionRequests : ServiceSelection(req)
    \/ \E sid \in SessionIds, mode \in AcServices : AC_ChargeParameterDiscovery(sid, mode)
    \/ PowerDelivered
    \/ \E sid \in SessionIds, control \in {"Scheduled", "Dynamic"}, mode \in AcServices :
          AC_ChargeLoop(sid, control, mode)

Spec == Init /\ [][Next]_vars

-----------------------------------------------------------------------------
(* Properties *)

\* A stored parameter set is the one the EV was told last under the id it asked for.
\* Ids that do not fit the uint8_t of the offered lists are left out: the code finds
\* another set for them.
AsTold(service, s) ==
    s.id < 256 => /\ s.id \in DOMAIN told[service]
                  /\ s.set = told[service][s.id]

\* What the session works with is what the EV was told last under the very id it
\* asked for, whatever was offered, offered again or changed by the application
\* before: Session::selected_service_parameters takes it from offered_services, not
\* from the configuration.  That holds of the energy service at all times, of the
\* value added services while the session runs, and in the grace period of those a
\* ServiceSelectionReq named when it was answered OK.
SelectedAsTold ==
    /\ \A s \in selected : AsTold(s.service, s)
    /\ ~stopped => \A v \in KnownVas : \A s \in selected_vas[v] : AsTold(v, s)
    /\ answer.to = "ServiceSelectionReq" /\ answer.code = "OK" =>
          \A list \in answer.req : \A n \in DOMAIN list :
             list[n].service \in KnownVas =>
                \E s \in selected_vas[list[n].service] :
                   /\ \E m \in DOMAIN list : /\ list[m].service = list[n].service
                                            /\ list[m].id = s.id
                   /\ AsTold(list[n].service, s)

\* The answer is one to a DER request of the kind the EV selected.
AnswersDer ==
    /\ answer.to \in {"AC_ChargeParameterDiscoveryReq", "AC_ChargeLoopReq"}
    /\ answer.req.sid = "own" /\ answer.req.mode = "AC_DER"
    /\ Sel.service = "AC_DER"
    /\ answer.to = "AC_ChargeLoopReq" => answer.req.control = Sel.set.control

\* The control data of the answer is that of the snapshots.
Conveys(s) ==
    \E d \in answer.data :
        IF answer.to = "AC_ChargeLoopReq"
        THEN /\ d["dso_q_setpoint_provision"] = {s.dso_control.q}
             /\ d["dso_cos_phi_setpoint_provision"] = {s.dso_control.cos_phi}
        ELSE /\ \E vw \in d["volt_watt"] : /\ vw.u_start = s.grid_policy.u_start
                                           /\ vw.u_stop = s.grid_policy.u_stop
             /\ \E fw \in d["under_frequency_watt"] :
                   /\ fw.f_start = s.grid_policy.under_start
                   /\ fw.f_stop = s.grid_policy.under_stop
             /\ \E fw \in d["over_frequency_watt"] :
                   /\ fw.f_start = s.grid_policy.over_start
                   /\ fw.f_stop = s.grid_policy.over_stop
             /\ d["dc_injection_restriction"] = {s.grid_policy.maximum_dc_injection}

\* The preflight decides: with the SECC snapshot provider, a session in its scope
\* (Dynamic, ProvidedByEvcc) is served the policy of the snapshots in every request
\* when validate_ac_der_secc_control_snapshots finds nothing, and is refused with
\* the reason it finds, reported to the application, when it does.  A session out
\* of the scope is refused.
PreflightDecides ==
    Provider.kind = "secc" /\ AnswersDer =>
        LET reason == validate_ac_der_secc_control_snapshots(Provider.snapshots)
        IN  IF Sel.set.control # "Dynamic" \/ Sel.set.mobility # "ProvidedByEvcc"
            THEN answer.code # "OK"
            ELSE IF reason = "None" THEN answer.code = "OK" /\ Conveys(Provider.snapshots)
            ELSE /\ answer.code # "OK"
                 /\ \E d \in diagnostic : d.reason = reason /\ d.to = answer.to

\* With the providers of the library, a session that got its control data in
\* AC_ChargeParameterDiscovery is not refused in the charge loop for the data.
LoopAgreesWithCpd ==
    Provider.kind # "custom" /\ AnswersDer /\ answer.to = "AC_ChargeLoopReq" =>
        answer.code = "OK"

\* Control data that has every function of its response, and that can be followed.
CompleteCpd(d) ==
    /\ DOMAIN d = CpdFunctions
    /\ \A f \in CpdFunctions : d[f] # None
    /\ \A f \in CurveFunctions : \E c \in d[f] :
          \A i, j \in DOMAIN c.x : i < j => c.x[i] < c.x[j]
    /\ \E vw \in d["volt_watt"] : 0 < vw.u_start /\ vw.u_start < vw.u_stop
    /\ \E fw \in d["under_frequency_watt"] : 0 < fw.f_stop /\ fw.f_stop < fw.f_start
    /\ \E fw \in d["over_frequency_watt"] : 0 < fw.f_start /\ fw.f_start < fw.f_stop
    /\ \E z \in d["zero_current"] : z.over \cup z.under # {}

CompleteLoop(d) ==
    /\ DOMAIN d = SetpointFunctions
    /\ \E c \in d["dso_cos_phi_setpoint_provision"] :
          c.value \in 0..1000 /\ \A v \in c.phases : v \in 0..1000

\* Whatever provider the application brings, an EV is never told OK with control
\* data that lacks a function it selected or that cannot be followed.
DerDataComplete ==
    AnswersDer /\ answer.code = "OK" =>
        \E d \in answer.data :
            IF answer.to = "AC_ChargeLoopReq" THEN CompleteLoop(d) ELSE CompleteCpd(d)

=============================================================================
