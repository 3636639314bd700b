----------------------------- MODULE D20States -----------------------------
(***************************************************************************)
(* The 17 states of d20/state and the machine that runs them,              *)
(* fsm::v2::FSM<StateBase>.                                                *)
(*                                                                         *)
(* StateBase::feed has three events.  Here they are three actions:         *)
(* FeedMessage (V2GTP_MESSAGE), FeedControl(e) (CONTROL_MESSAGE) and       *)
(* FeedTimeout(type) (TIMEOUT), each made of what the states do with the   *)
(* event.  The module that drives the machine says when they happen.       *)
(***************************************************************************)
EXTENDS D20Context

-----------------------------------------------------------------------------
(* SupportedAppProtocol and SessionSetup *)

\* The request is "known" when it names a protocol this EVSE speaks.
SupportedAppProtocol_feed(m) ==
    /\ \/ /\ m.type = "SupportedAppProtocolReq"
          /\ m.arg = "known"
          /\ response' = Res(m.type, "OK")
          /\ Goto("SessionSetup")
          /\ UNCHANGED session_stopped
       \/ /\ m.type = "SupportedAppProtocolReq"
          /\ m.arg = "unknown"
          /\ response' = Res(m.type, "FAILED")
          /\ Stay(local)
          /\ UNCHANGED session_stopped
       \/ /\ m.type # "SupportedAppProtocolReq"
          /\ session_stopped' = TRUE
          /\ Stay(local)
          /\ UNCHANGED response
    /\ UNCHANGED quietVars

\* Mutant: the vehicle is not compared.
Resumes_anyVehicle(m) ==
    /\ m.sid # 0
    /\ cert # NoCert
    /\ pause_ctx.set
    /\ pause_ctx.id = m.sid

\* The session id of the request and the vehicle are those of the pause context.
Resumes(m) ==
    /\ m.sid # 0
    /\ cert # NoCert
    /\ pause_ctx.set
    /\ pause_ctx.vehicle = cert
    /\ pause_ctx.id = m.sid

\* Mutant: an older pause context is kept.
SessionSetup_new_keeps(m) ==
    /\ m.type = "SessionSetupReq"
    /\ ~Resumes(m)
    /\ session' = NewSession(next_id)
    /\ next_id' = next_id + 1
    /\ pause_ctx' = IF cert = NoCert \/ pause_ctx.set THEN pause_ctx
                    ELSE [set |-> TRUE, vehicle |-> cert, id |-> next_id,
                          selected |-> "None"]
    /\ RespondThen(m, "OK", "AuthorizationSetup")
    /\ UNCHANGED <<session_paused, cert, cache, services, approvals, timeouts,
                   signals>>

SessionSetup_new(m) ==
    /\ m.type = "SessionSetupReq"
    /\ ~Resumes(m)
    /\ session' = NewSession(next_id)
    /\ next_id' = next_id + 1
    /\ pause_ctx' = IF cert = NoCert THEN pause_ctx
                    ELSE [set |-> TRUE, vehicle |-> cert, id |-> next_id,
                          selected |-> "None"]
    /\ RespondThen(m, "OK", "AuthorizationSetup")
    /\ UNCHANGED <<session_paused, cert, cache, services, approvals, timeouts,
                   signals>>

SessionSetup_resume(m) ==
    /\ m.type = "SessionSetupReq"
    /\ Resumes(m)
    /\ session' = [NewSession(pause_ctx.id) EXCEPT !.selected = pause_ctx.selected]
    /\ response' = Res(m.type, "OK_OldSessionJoined")
    /\ CASE pause_ctx.selected = "AC"   -> Goto("AC_ChargeParameterDiscovery")
         [] pause_ctx.selected = "DC"   -> Goto("DC_ChargeParameterDiscovery")
         [] pause_ctx.selected = "None" -> Stay(local)
    /\ approvals' = IF pause_ctx.selected = "None" THEN approvals
                    ELSE approvals \cup {"resumed"}
    /\ UNCHANGED <<session_stopped, session_paused, next_id, pause_ctx, cert,
                   cache, services, timeouts, signals>>

SessionSetup_feed(m) ==
    \/ SessionSetup_new(m)
    \/ SessionSetup_resume(m)
    \/ UnexpectedRequest(m, {"SessionSetupReq"})

-----------------------------------------------------------------------------
(* AuthorizationSetup and Authorization *)

AuthorizationSetup_feed(m) ==
    \/ /\ m.type = "AuthorizationSetupReq"
       /\ LET code == Validated(m, "OK")
          IN /\ RespondThen(m, code, "Authorization")
             /\ signals' = IF code = "FAILED" THEN signals
                           ELSE signals \cup {"REQUIRE_AUTH_EIM"}
       /\ UNCHANGED <<session, session_paused, next_id, contextVars, timeouts>>
    \/ StopOrSequenceError(m, {"AuthorizationSetupReq"})

\* What AuthorizationSetup offered: an empty configuration offers EIM.
OfferedAuth == IF AuthServices = {} THEN {"EIM"} ELSE AuthServices

AuthorizationCode(m) ==
    Validated(m,
        CASE local.ongoing_reached -> "FAILED"
          [] ~local.ongoing_reached /\ m.arg \notin OfferedAuth -> "WARNING"
          [] OTHER -> IF m.arg = "EIM" /\ local.auth = "Rejected"
                      THEN "WARNING" ELSE "OK")

\* Mutant: only a rejection keeps the EV out.
AuthorizationGranted_unlessRejected(l) == l.auth # "Rejected"

AuthorizationGranted(l) == l.auth = "Accepted"

\* The outcome of EIM decides, whatever service the request selected.
Authorization_feed(m) ==
    \/ /\ m.type = "AuthorizationReq"
       /\ LET code == AuthorizationCode(m)
              started == IF local.first_req
                         THEN start_timeout(timeouts, "ONGOING", EIM_ONGOING_MS)
                         ELSE timeouts
          IN /\ response' = Res(m.type, code)
             /\ StopIfFailed(code)
             /\ IF code # "FAILED" /\ AuthorizationGranted(local)
                THEN /\ timeouts' = stop_timeout(started, "ONGOING")
                     /\ Goto("ServiceDiscovery")
                ELSE /\ timeouts' = started
                     /\ Stay([local EXCEPT !.first_req = FALSE])
       /\ UNCHANGED <<session, session_paused, next_id, contextVars, signals>>
    \/ StopOrSequenceError(m, {"AuthorizationReq"})

-----------------------------------------------------------------------------
(* ServiceDiscovery, ServiceDetail and ServiceSelection *)

\* The services both sides support: "any" is a request without a filter.
ServiceDiscovery_feed(m) ==
    \/ /\ m.type = "ServiceDiscoveryReq"
       /\ LET code == Validated(m, "OK")
              filter == IF m.arg = "any" THEN Offerable ELSE {m.arg}
          IN /\ RespondThen(m, code, "ServiceDetail")
             /\ session' = IF code = "FAILED" THEN session
                           ELSE [session EXCEPT !.offered = services \cap filter,
                                                !.detailed = {}]
       /\ UNCHANGED <<session_paused, next_id, contextVars, timeouts, signals>>
    \/ StopOrSequenceError(m, {"ServiceDiscoveryReq"})

ServiceDetailCode(m) ==
    Validated(m, IF m.arg \in session.offered THEN "OK" ELSE "FAILED")

\* handle_request(ServiceDetailRequest): the parameter sets of the service are
\* offered from now on.
Detailed(m) ==
    IF ServiceDetailCode(m) = "FAILED" THEN session
    ELSE [session EXCEPT !.detailed = @ \cup {m.arg}]

ServiceDetail_feed(m) ==
    \/ /\ m.type = "ServiceDetailReq"
       /\ RespondThen(m, ServiceDetailCode(m), "ServiceSelection")
       /\ session' = Detailed(m)
       /\ UNCHANGED <<session_paused, next_id, contextVars, timeouts, signals>>
    \/ StopOrSequenceError(m, {"ServiceDetailReq"})

\* The energy service a ServiceSelectionReq names.
SelectedEnergy(m) ==
    CASE m.arg \in {"AC", "AC+VAS"} -> "AC"
      [] m.arg \in {"DC", "DC+VAS"} -> "DC"
      [] OTHER -> "other"

SelectsVas(m) == m.arg \in {"AC+VAS", "DC+VAS"}

\* Mutant: the parameter set is not looked up.
EnergySelected_offered(m) ==
    /\ m.sid = session.id
    /\ SelectedEnergy(m) \in session.offered
    /\ SelectsVas(m) => "VAS" \in session.offered

\* The services were offered, and so was the parameter set of the energy service:
\* the energy service is selected.
EnergySelected(m) ==
    /\ m.sid = session.id
    /\ SelectedEnergy(m) \in session.offered
    /\ SelectsVas(m) => "VAS" \in session.offered
    /\ SelectedEnergy(m) \in session.detailed

\* The parameter set of a value added service is looked up after that.
ServiceSelectionCode(m) ==
    IF EnergySelected(m) /\ (SelectsVas(m) => "VAS" \in session.detailed)
    THEN "OK" ELSE "FAILED"

ServiceSelection_feed(m) ==
    \/ /\ m.type = "ServiceDetailReq"
       /\ response' = Res(m.type, ServiceDetailCode(m))
       /\ StopIfFailed(ServiceDetailCode(m))
       /\ session' = Detailed(m)
       /\ Stay(local)
       /\ UNCHANGED <<session_paused, next_id, contextVars, timeouts, signals>>
    \/ /\ m.type = "ServiceSelectionReq"
       /\ LET code == ServiceSelectionCode(m)
          IN /\ RespondThen(m, code, IF SelectedEnergy(m) = "AC"
                                     THEN "AC_ChargeParameterDiscovery"
                                     ELSE "DC_ChargeParameterDiscovery")
             /\ session' = IF EnergySelected(m)
                           THEN [session EXCEPT !.selected = SelectedEnergy(m)]
                           ELSE session
       /\ UNCHANGED <<session_paused, next_id, contextVars, timeouts, signals>>
    \/ StopOrSequenceError(m, {"ServiceDetailReq", "ServiceSelectionReq"})

-----------------------------------------------------------------------------
(* ChargeParameterDiscovery and ScheduleExchange.  "match": the transfer or  *)
(* control mode of the request is the one of the selected service.           *)

ModeCode(m) == Validated(m, IF m.arg = "match" THEN "OK" ELSE "FAILED")

AC_ChargeParameterDiscovery_feed(m) ==
    \/ /\ m.type = "AC_ChargeParameterDiscoveryReq"
       /\ RespondThen(m, ModeCode(m), "ScheduleExchange")
       /\ UNCHANGED quietVars
    \/ StopOrSequenceError(m, {"AC_ChargeParameterDiscoveryReq"})

DC_ChargeParameterDiscovery_feed(m) ==
    \/ /\ m.type = "DC_ChargeParameterDiscoveryReq"
       /\ RespondThen(m, ModeCode(m), "ScheduleExchange")
       /\ UNCHANGED quietVars
    \/ StopOrSequenceError(m, {"DC_ChargeParameterDiscoveryReq"})

ScheduleExchangeCode(m) == IF local.ongoing_reached THEN "FAILED" ELSE ModeCode(m)

ScheduleExchange_feed(m) ==
    \/ /\ m.type = "ScheduleExchangeReq"
       /\ LET code == ScheduleExchangeCode(m)
              started == IF local.first_req
                         THEN start_timeout(timeouts, "ONGOING", ONGOING_MS)
                         ELSE timeouts
              known == session.selected \in Services
          IN /\ response' = Res(m.type, code)
             /\ session_stopped' = (session_stopped \/ code = "FAILED" \/ ~known)
             /\ timeouts' = IF code = "FAILED" THEN started
                            ELSE stop_timeout(started, "ONGOING")
             /\ IF code = "FAILED" \/ ~known
                THEN Stay([local EXCEPT !.first_req = FALSE])
                ELSE Goto(IF session.selected = "AC"
                          THEN "PowerDelivery" ELSE "DC_CableCheck")
       /\ UNCHANGED <<session, session_paused, next_id, contextVars, signals>>
    \/ StopOrSequenceError(m, {"ScheduleExchangeReq"})

-----------------------------------------------------------------------------
(* DC_CableCheck, DC_PreCharge and PowerDelivery *)

\* Mutant: the check counts as done once it was initiated.
CableCheckDone_initiated(l) == l.initiated

CableCheckDone(l) == l.cable_done

DC_CableCheck_feed(m) ==
    \/ /\ m.type = "DC_CableCheckReq"
       /\ LET code == Validated(m, "OK")
          IN /\ response' = Res(m.type, code)
             /\ StopIfFailed(code)
             /\ IF code # "FAILED" /\ CableCheckDone(local)
                THEN Goto("DC_PreCharge")
                ELSE Stay([local EXCEPT !.initiated = TRUE])
       /\ signals' = IF local.initiated THEN signals
                     ELSE signals \cup {"START_CABLE_CHECK"}
       /\ UNCHANGED <<session, session_paused, next_id, contextVars, timeouts>>
    \/ StopOrSequenceError(m, {"DC_CableCheckReq"})

DC_PreCharge_feed(m) ==
    \/ /\ m.type = "DC_PreChargeReq"
       /\ LET code == Validated(m, "OK")
          IN /\ response' = Res(m.type, code)
             /\ StopIfFailed(code)
             /\ IF code = "FAILED" THEN Stay([local EXCEPT !.initiated = TRUE])
                                   ELSE Goto("PowerDelivery")
       /\ signals' = IF local.initiated THEN signals
                     ELSE signals \cup {"PRE_CHARGE_STARTED"}
       /\ UNCHANGED <<session, session_paused, next_id, contextVars, timeouts>>
    \/ StopOrSequenceError(m, {"DC_PreChargeReq"})

\* handle_request(PowerDeliveryRequest) without a contactor error.
PowerDeliveryCode(m) == Validated(m, IF m.arg = "Standby" THEN "WARNING" ELSE "OK")

SetupFinished(m) == IF m.arg = "Start" THEN {"SETUP_FINISHED"} ELSE {}

\* An AC session must first have its contactor closed: the request is kept and
\* nothing is answered yet.
AwaitsContactor(m) ==
    session.selected = "AC" /\ ~local.closed /\ m.arg = "Start"

\* Mutant: the contactor timer is not started.
PowerDelivery_await_untimed(m) ==
    /\ m.type = "PowerDeliveryReq"
    /\ AwaitsContactor(m)
    /\ signals' = signals \cup SetupFinished(m) \cup {"AC_CLOSE_CONTACTOR"}
    /\ Stay([local EXCEPT !.previous_req =
                 IF m.sid = session.id THEN "valid" ELSE "unknown_session"])
    /\ UNCHANGED <<response, sessionVars, contextVars, timeouts>>

PowerDelivery_await(m) ==
    /\ m.type = "PowerDeliveryReq"
    /\ AwaitsContactor(m)
    /\ signals' = signals \cup SetupFinished(m) \cup {"AC_CLOSE_CONTACTOR"}
    /\ timeouts' = start_timeout(timeouts, "CONTACTOR", CONTACTOR_MS)
    /\ Stay([local EXCEPT !.previous_req =
                 IF m.sid = session.id THEN "valid" ELSE "unknown_session"])
    /\ UNCHANGED <<response, sessionVars, contextVars>>

PowerDelivery_answer(m) ==
    /\ m.type = "PowerDeliveryReq"
    /\ ~AwaitsContactor(m)
    /\ LET code == PowerDeliveryCode(m)
           known == session.selected \in Services
       IN /\ response' = Res(m.type, code)
          /\ session_stopped' = (session_stopped \/ code = "FAILED" \/ ~known)
          /\ IF code = "FAILED" \/ ~known THEN Stay(local)
             ELSE Goto(IF session.selected = "AC"
                       THEN "AC_ChargeLoop" ELSE "DC_ChargeLoop")
    /\ signals' = signals \cup SetupFinished(m)
    /\ UNCHANGED <<session, session_paused, next_id, contextVars, timeouts>>

\* A further pre-charge request is answered without leaving the state.
PowerDelivery_feed(m) ==
    \/ /\ m.type = "DC_PreChargeReq"
       /\ response' = Res(m.type, Validated(m, "OK"))
       /\ StopIfFailed(Validated(m, "OK"))
       /\ Stay(local)
       /\ UNCHANGED quietVars
    \/ PowerDelivery_await(m)
    \/ PowerDelivery_answer(m)
    \/ UnexpectedRequest(m, {"DC_PreChargeReq", "PowerDeliveryReq"})

-----------------------------------------------------------------------------
(* The charge loops, DC_WeldingDetection and SessionStop *)

\* The EvseStatus of a charge loop response: stop has precedence over pause.
Notification(l) ==
    IF l.stop THEN "Terminate" ELSE IF l.pause THEN "Pause" ELSE "None"

\* A charge loop request is answered and the loop goes on.
ChargeLoopRequest(m) ==
    /\ response' = [type |-> m.type, code |-> ModeCode(m),
                    status |-> IF ModeCode(m) = "FAILED" THEN "None"
                               ELSE Notification(local)]
    /\ StopIfFailed(ModeCode(m))
    /\ Stay([local EXCEPT !.first_entry = FALSE])
    /\ signals' = IF local.first_entry
                  THEN signals \cup {"CHARGE_LOOP_STARTED"} ELSE signals
    /\ UNCHANGED <<session, session_paused, next_id, contextVars, timeouts>>

\* A PowerDeliveryReq ends the loop with Stop; any other one is only answered.
ChargeLoopEnd(m, open_contactor, next_state, stay) ==
    /\ m.type = "PowerDeliveryReq"
    /\ LET code == PowerDeliveryCode(m)
           ends == code # "FAILED" /\ m.arg = "Stop"
       IN /\ response' = Res(m.type, code)
          /\ StopIfFailed(code)
          /\ IF ends THEN Goto(next_state)
                     ELSE Stay(IF code = "FAILED" THEN local ELSE stay)
          /\ signals' = IF ends
                        THEN signals \cup {"CHARGE_LOOP_FINISHED", open_contactor}
                        ELSE signals
    /\ UNCHANGED <<session, session_paused, next_id, contextVars, timeouts>>

DC_ChargeLoop_feed(m) ==
    \/ ChargeLoopEnd(m, "DC_OPEN_CONTACTOR", "DC_WeldingDetection",
                     [local EXCEPT !.first_entry = TRUE])
    \/ m.type = "DC_ChargeLoopReq" /\ ChargeLoopRequest(m)
    \/ UnexpectedRequest(m, {"PowerDeliveryReq", "DC_ChargeLoopReq"})

AC_ChargeLoop_feed(m) ==
    \/ ChargeLoopEnd(m, "AC_OPEN_CONTACTOR", "SessionStop", local)
    \/ m.type = "AC_ChargeLoopReq" /\ ChargeLoopRequest(m)
    \/ UnexpectedRequest(m, {"PowerDeliveryReq", "AC_ChargeLoopReq"})

\* SessionStopReq after charging.  The code of the response has no influence
\* on what the request does.
EndSession(m) ==
    /\ m.type = "SessionStopReq"
    /\ response' = Res(m.type, SessionStopCode(m))
    /\ session_paused' = (session_paused \/ m.arg = "Pause")
    /\ session_stopped' = (session_stopped \/ m.arg = "Terminate")
    /\ pause_ctx' =
          CASE m.arg = "Pause" /\ pause_ctx.set ->
                 [pause_ctx EXCEPT !.selected = session.selected]
            [] m.arg = "Terminate" -> NoPause
            [] OTHER -> pause_ctx
    /\ Stay(local)
    /\ UNCHANGED <<session, next_id, cert, cache, services, approvals, timeouts,
                   signals>>

DC_WeldingDetection_feed(m) ==
    \/ /\ m.type = "DC_WeldingDetectionReq"
       /\ LET code == Validated(m, "OK")
          IN /\ response' = Res(m.type, code)
             /\ StopIfFailed(code)
             /\ IF code = "FAILED" \/ m.arg = "Ongoing" THEN Stay(local)
                ELSE Goto("SessionStop")
       /\ UNCHANGED quietVars
    \/ EndSession(m)
    \/ UnexpectedRequest(m, {"DC_WeldingDetectionReq", "SessionStopReq"})

SessionStop_feed(m) ==
    \/ EndSession(m)
    \/ UnexpectedRequest(m, {"SessionStopReq"})

-----------------------------------------------------------------------------
(* The three events of StateBase::feed *)

\* Every handler begins with pull_request.
FeedMessage ==
    /\ request # NoMessage
    /\ request' = NoMessage
    /\ LET m == request
       IN \/ current_state = "SupportedAppProtocol" /\ SupportedAppProtocol_feed(m)
          \/ current_state = "SessionSetup" /\ SessionSetup_feed(m)
          \/ current_state = "AuthorizationSetup" /\ AuthorizationSetup_feed(m)
          \/ current_state = "Authorization" /\ Authorization_feed(m)
          \/ current_state = "ServiceDiscovery" /\ ServiceDiscovery_feed(m)
          \/ current_state = "ServiceDetail" /\ ServiceDetail_feed(m)
          \/ current_state = "ServiceSelection" /\ ServiceSelection_feed(m)
          \/ /\ current_state = "AC_ChargeParameterDiscovery"
             /\ AC_ChargeParameterDiscovery_feed(m)
          \/ /\ current_state = "DC_ChargeParameterDiscovery"
             /\ DC_ChargeParameterDiscovery_feed(m)
          \/ current_state = "ScheduleExchange" /\ ScheduleExchange_feed(m)
          \/ current_state = "DC_CableCheck" /\ DC_CableCheck_feed(m)
          \/ current_state = "DC_PreCharge" /\ DC_PreCharge_feed(m)
          \/ current_state = "PowerDelivery" /\ PowerDelivery_feed(m)
          \/ current_state = "AC_ChargeLoop" /\ AC_ChargeLoop_feed(m)
          \/ current_state = "DC_ChargeLoop" /\ DC_ChargeLoop_feed(m)
          \/ current_state = "DC_WeldingDetection" /\ DC_WeldingDetection_feed(m)
          \/ current_state = "SessionStop" /\ SessionStop_feed(m)

ChargeLoops == {"AC_ChargeLoop", "DC_ChargeLoop"}

\* What a control event changes in the members of the current state.
Applied(e) ==
    CASE current_state = "Authorization" /\ e.kind = "AuthorizationResponse" ->
           [local EXCEPT !.auth = IF e.val THEN "Accepted" ELSE "Rejected"]
      [] current_state = "DC_CableCheck" /\ e.kind = "CableCheckFinished" ->
           [local EXCEPT !.cable_done = e.val]
      [] current_state \in ChargeLoops /\ e.kind = "StopCharging" ->
           [local EXCEPT !.stop = e.val]
      [] current_state \in ChargeLoops /\ e.kind = "PauseCharging" ->
           [local EXCEPT !.pause = e.val]
      [] /\ current_state \in ChargeLoops \cup {"ScheduleExchange"}
         /\ e.kind = "UpdateDynamicModeParameters" ->
           [local EXCEPT !.dynamic = e.val]
      [] current_state = "AC_ChargeLoop" /\ e.kind = "AcTargetPower" ->
           [local EXCEPT !.target = e.val]
      [] /\ current_state \in {"AC_ChargeLoop", "AC_ChargeParameterDiscovery"}
         /\ e.kind = "AcPresentPower" ->
           [local EXCEPT !.present = e.val]
      [] OTHER -> local

\* History: the last answer the application gave in the state that asks for it.
Approved(e) ==
    LET answer(s, kind, name) ==
            IF current_state = s /\ e.kind = kind THEN {name} ELSE {}
        concerned == answer("Authorization", "AuthorizationResponse", "authorized")
                     \cup answer("DC_CableCheck", "CableCheckFinished", "cable_checked")
                     \cup answer("PowerDelivery", "ClosedContactor", "contactor_closed")
    IN IF concerned = {} THEN approvals
       ELSE IF e.val THEN approvals \cup concerned ELSE approvals \ concerned

\* Mutant: a response is given although no request was saved.
ClosedContactor_unasked ==
    LET code == IF local.previous_req = "unknown_session" THEN "FAILED" ELSE "OK"
    IN /\ timeouts' = stop_timeout(timeouts, "CONTACTOR")
       /\ response' = Res("PowerDeliveryReq", code)
       /\ StopIfFailed(code)
       /\ Stay([local EXCEPT !.closed = TRUE])

\* ClosedContactor in PowerDelivery.  The flag is set from the pointer to the
\* event, not from the event: it becomes true for any ClosedContactor.
ClosedContactor ==
    LET l == [local EXCEPT !.closed = TRUE]
        code == IF local.previous_req = "valid" THEN "OK" ELSE "FAILED"
    IN /\ timeouts' = stop_timeout(timeouts, "CONTACTOR")
       /\ IF local.previous_req = "None"
          THEN Stay(l) /\ UNCHANGED <<response, session_stopped>>
          ELSE /\ response' = Res("PowerDeliveryReq", code)
               /\ StopIfFailed(code)
               /\ IF code = "FAILED" THEN Stay(l) ELSE Goto("AC_ChargeLoop")

\* cache and services are left to the driver, which updates them first.
FeedControl(e) ==
    /\ \/ /\ current_state = "PowerDelivery"
          /\ e.kind = "ClosedContactor"
          /\ ClosedContactor
       \/ /\ ~(current_state = "PowerDelivery" /\ e.kind = "ClosedContactor")
          /\ Stay(Applied(e))
          /\ UNCHANGED <<response, session_stopped, timeouts>>
    /\ approvals' = Approved(e)
    /\ UNCHANGED <<request, session, session_paused, next_id, pause_ctx, cert,
                   signals>>

FeedTimeout(type) ==
    /\ \/ /\ current_state \in {"Authorization", "ScheduleExchange"}
          /\ type = "ONGOING"
          /\ Stay([local EXCEPT !.ongoing_reached = TRUE])
          /\ UNCHANGED <<response, session_stopped>>
       \/ /\ current_state = "PowerDelivery"
          /\ type = "CONTACTOR"
          /\ response' = Res("PowerDeliveryReq", "FAILED")
          /\ session_stopped' = TRUE
          /\ Stay(local)
       \/ /\ <<current_state, type>> \notin
                 {<<"Authorization", "ONGOING">>, <<"ScheduleExchange", "ONGOING">>,
                  <<"PowerDelivery", "CONTACTOR">>}
          /\ Stay(local)
          /\ UNCHANGED <<response, session_stopped>>
    /\ UNCHANGED <<request, quietVars>>

=============================================================================
