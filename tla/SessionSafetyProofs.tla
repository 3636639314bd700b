------------------------- MODULE SessionSafetyProofs -------------------------
(***************************************************************************)
(* What a session never does, for any EV, any application, any             *)
(* configuration and any durations: the invariants about authorization,    *)
(* cable check, service, pause context and timers.                         *)
(*                                                                         *)
(* None of them is inductive as it stands.  StateInv adds what the members *)
(* of a state object remember of the decision that lets the state be left; *)
(* HealthInv adds what holds while poll() handles a request.               *)
(***************************************************************************)
EXTENDS IsoSessionProofs

-----------------------------------------------------------------------------
(* The inductive invariants *)

\* Authorization is left with a decision that is also the last one given.
AuthorizationInv ==
    /\ AuthorizedOrResumed
    /\ current_state = "Authorization" /\ local.auth = "Accepted"
          => "authorized" \in approvals

\* DC_CableCheck is left with a result that is also the last one given.
CableCheckInv ==
    /\ CableChecked
    /\ current_state = "DC_CableCheck" /\ local.cable_done
          => "cable_checked" \in approvals

\* Nothing is selected before ServiceSelection, and only an AC session saves a
\* PowerDeliveryReq.
ServiceInv ==
    /\ ServiceAgreed
    /\ current_state \in {"SupportedAppProtocol", "SessionSetup",
                          "AuthorizationSetup", "Authorization",
                          "ServiceDiscovery", "ServiceDetail"}
          => session.selected = "None"
    /\ current_state = "PowerDelivery" /\ local.previous_req # "None"
          => session.selected = "AC"

\* A session is only paused after charging.
PausedInv ==
    session_paused => current_state \in {"DC_WeldingDetection", "SessionStop"}

StateInv ==
    /\ AuthorizationInv
    /\ CableCheckInv
    /\ ServiceInv
    /\ PausedInv
    /\ PauseContextOwn
    /\ OngoingTimerScoped

\* An unhandled request was fed and poll() has not looked at the result yet.
Unhandled == pc = "fed" /\ feed_result = "Unhandled"

\* A session with a failed response ends, or will in the next step.
FailureInv ==
    response # NoMessage /\ response.code = "FAILED" => Finishing \/ Unhandled

\* A PowerDeliveryReq is saved without being handled, so a session that waits for
\* the contactor ends, too.
ContactorInv ==
    (timeouts["CONTACTOR"].on \/ local.previous_req # "None") /\ ~Finishing
        => Unhandled /\ current_state = "PowerDelivery"

\* The sequence timer does not run from the moment a request is taken until it
\* is answered; before SessionSetup it never runs.
SequenceInv ==
    ~Finishing =>
        /\ response # NoMessage => pc \in {"fed", "respond"}
        /\ response # NoMessage /\ timeouts["SEQUENCE"].on => Unhandled
        /\ request # NoMessage /\ timeouts["SEQUENCE"].on
              => request.type = "SupportedAppProtocolReq"
        /\ current_state = "SupportedAppProtocol" =>
              /\ ~timeouts["SEQUENCE"].on
              /\ response # NoMessage => Unhandled

HealthInv ==
    /\ FailureInv
    /\ ContactorInv
    /\ SequenceInv

\* The vehicle brings its certificate before the first request.
ConnectInv == connected = "no" => current_state = "SupportedAppProtocol"

-----------------------------------------------------------------------------
(* Timers and members of the state objects *)

LEMMA StartTimeout ==
    ASSUME NEW t \in [TimeoutTypes -> Deadlines], NEW type \in TimeoutTypes, NEW d
    PROVE  /\ start_timeout(t, type, d)[type].on
           /\ \A x \in TimeoutTypes \ {type} : start_timeout(t, type, d)[x] = t[x]
BY DEF start_timeout, Running

LEMMA StopTimeout ==
    ASSUME NEW t \in [TimeoutTypes -> Deadlines], NEW type \in TimeoutTypes
    PROVE  /\ ~stop_timeout(t, type)[type].on
           /\ \A x \in TimeoutTypes \ {type} : stop_timeout(t, type)[x] = t[x]
BY DEF stop_timeout, Off

LEMMA TheTimeouts ==
    /\ "SEQUENCE" \in TimeoutTypes
    /\ "ONGOING" \in TimeoutTypes
    /\ "CONTACTOR" \in TimeoutTypes
BY DEF TimeoutTypes

\* A state that is entered has seen no decision and saved no request.
LEMMA EnteredMembers ==
    ASSUME NEW s
    PROVE  /\ Entered(s).auth = "Pending"
           /\ Entered(s).cable_done = FALSE
           /\ Entered(s).previous_req = "None"
BY DEF Entered, Constructed

\* The members that remember a decision or a request.
SameDecisions(l) ==
    /\ l.auth = local.auth
    /\ l.cable_done = local.cable_done
    /\ l.previous_req = local.previous_req

LEMMA LocalsDecisions ==
    ASSUME local \in Locals
    PROVE  /\ SameDecisions(local)
           /\ SameDecisions([local EXCEPT !.first_req = FALSE])
           /\ SameDecisions([local EXCEPT !.initiated = TRUE])
           /\ SameDecisions([local EXCEPT !.first_entry = TRUE])
           /\ SameDecisions([local EXCEPT !.first_entry = FALSE])
           /\ SameDecisions([local EXCEPT !.closed = TRUE])
           /\ SameDecisions([local EXCEPT !.ongoing_reached = TRUE])
BY DEF Locals, SameDecisions

-----------------------------------------------------------------------------
(* StateInv and the handlers *)

stateInvVars ==
    <<current_state, session, session_paused, approvals, pause_ctx, cert>>

LEMMA StateInvKept ==
    ASSUME StateInv, UNCHANGED stateInvVars, SameDecisions(local'),
           timeouts'["ONGOING"].on => timeouts["ONGOING"].on
    PROVE  StateInv'
<1>. USE DEF stateInvVars, SameDecisions, StateInv
<1>1. AuthorizationInv' /\ CableCheckInv'
  BY DEF AuthorizationInv, AuthorizedOrResumed, CableCheckInv, CableChecked
<1>2. ServiceInv' /\ PausedInv'
  BY DEF ServiceInv, ServiceAgreed, PausedInv
<1>3. PauseContextOwn' /\ OngoingTimerScoped'
  BY DEF PauseContextOwn, OngoingTimerScoped
<1>. QED BY <1>1, <1>2, <1>3

LEMMA UnexpectedStateInv ==
    ASSUME D20TypeOK, StateInv, NEW m, NEW expected,
           UnexpectedRequest(m, expected) \/ StopOrSequenceError(m, expected)
    PROVE  StateInv'
<1>1. Stay(local) /\ UNCHANGED quietVars
  BY DEF UnexpectedRequest, StopOrSequenceError, SequenceError
<1>. QED
  BY <1>1, StateInvKept
  DEF Stay, SameDecisions, quietVars, contextVars, stateInvVars

\* StateInv for a state that is entered without the ongoing timer, in a session
\* that is not paused and that keeps its approvals and its pause context.
LEMMA GotoStateInv ==
    ASSUME D20TypeOK, StateInv, NEW s \in StateIDs, Goto(s),
           s \notin {"SupportedAppProtocol", "SessionSetup", "AuthorizationSetup",
                     "Authorization"}
              => approvals \cap {"authorized", "resumed"} # {},
           s \in {"DC_PreCharge", "DC_ChargeLoop", "DC_WeldingDetection"}
              => "cable_checked" \in approvals,
           s = "PowerDelivery" /\ session.selected = "DC"
              => "cable_checked" \in approvals,
           ServiceInv', PausedInv', ~timeouts'["ONGOING"].on,
           current_state \in {"SupportedAppProtocol", "SessionSetup"}
              => s = "SessionSetup",
           session'.id = session.id, session'.selected = session.selected,
           UNCHANGED <<approvals, pause_ctx, cert>>
    PROVE  StateInv'
<1>1. current_state' = s /\ local' = Entered(s)
  BY DEF Goto
<1>2. AuthorizationInv' /\ CableCheckInv'
  BY <1>1, EnteredMembers
  DEF AuthorizationInv, AuthorizedOrResumed, CableCheckInv, CableChecked
<1>3. PauseContextOwn' /\ OngoingTimerScoped'
  BY <1>1 DEF PauseContextOwn, OngoingTimerScoped, StateInv
<1>. QED BY <1>2, <1>3 DEF StateInv

LEMMA SetupStateInv ==
    ASSUME D20TypeOK, StateInv, NEW m \in Messages,
           \/ current_state = "SupportedAppProtocol" /\ SupportedAppProtocol_feed(m)
           \/ current_state = "AuthorizationSetup" /\ AuthorizationSetup_feed(m)
    PROVE  StateInv'
<1>1. CASE Stay(local)
  BY <1>1, StateInvKept, UnexpectedStateInv
  DEF SupportedAppProtocol_feed, AuthorizationSetup_feed, RespondThen, Stay, Goto,
      SameDecisions, quietVars, contextVars, stateInvVars
<1>2. CASE ~Stay(local)
  <2>1. \/ current_state = "SupportedAppProtocol" /\ Goto("SessionSetup")
        \/ current_state = "AuthorizationSetup" /\ Goto("Authorization")
    BY <1>2
    DEF SupportedAppProtocol_feed, AuthorizationSetup_feed, RespondThen,
        StopOrSequenceError, SequenceError
  <2>2. UNCHANGED <<session, session_paused, approvals, pause_ctx, cert, timeouts>>
    BY <1>2
    DEF SupportedAppProtocol_feed, AuthorizationSetup_feed, StopOrSequenceError,
        SequenceError, quietVars, contextVars
  <2>3. ServiceInv' /\ PausedInv' /\ ~timeouts'["ONGOING"].on
    BY <2>1, <2>2, EnteredMembers
    DEF Goto, StateInv, ServiceInv, ServiceAgreed, PausedInv, OngoingTimerScoped
  <2>. QED BY <2>1, <2>2, <2>3, GotoStateInv DEF StateIDs
<1>. QED BY <1>1, <1>2

LEMMA SessionSetupStateInv ==
    ASSUME D20TypeOK, StateInv, NEW m \in Messages,
           current_state = "SessionSetup", SessionSetup_feed(m)
    PROVE  StateInv'
<1>. USE DEF StateInv
<1>1. session.selected = "None" /\ ~session_paused /\ ~timeouts["ONGOING"].on
  BY DEF ServiceInv, PausedInv, OngoingTimerScoped, D20TypeOK
<1>2. CASE SessionSetup_new(m)
  <2>1. /\ current_state' = "AuthorizationSetup"
        /\ local' = Entered("AuthorizationSetup")
    BY <1>2 DEF SessionSetup_new, RespondThen, Goto
  <2>2. session' = NewSession(next_id) /\ UNCHANGED <<session_paused, timeouts, cert>>
    BY <1>2 DEF SessionSetup_new
  <2>3. AuthorizationInv' /\ CableCheckInv' /\ PausedInv' /\ OngoingTimerScoped'
    BY <1>1, <2>1, <2>2
    DEF AuthorizationInv, AuthorizedOrResumed, CableCheckInv, CableChecked,
        PausedInv, OngoingTimerScoped
  <2>4. ServiceInv'
    BY <2>1, <2>2 DEF ServiceInv, ServiceAgreed, NewSession
  <2>5. PauseContextOwn'
    BY <1>2, <2>2 DEF SessionSetup_new, PauseContextOwn, NewSession
  <2>. QED BY <2>3, <2>4, <2>5
<1>3. CASE SessionSetup_resume(m)
  <2>1. pause_ctx.selected \in {"AC", "DC", "None"}
    BY DEF D20TypeOK, PauseContextType, Services
  <2>2. /\ session'.id = pause_ctx.id
        /\ session'.selected = pause_ctx.selected
        /\ UNCHANGED <<session_paused, timeouts, cert, pause_ctx>>
        /\ pause_ctx.vehicle = cert
    BY <1>3 DEF SessionSetup_resume, NewSession, Resumes
  <2>3. PauseContextOwn'
    BY <2>2 DEF PauseContextOwn
  <2>4. CASE pause_ctx.selected = "None"
    <3>1. UNCHANGED <<current_state, local, approvals>>
      BY <1>3, <2>4 DEF SessionSetup_resume, Stay
    <3>. QED
      BY <2>2, <2>3, <2>4, <3>1
      DEF AuthorizationInv, AuthorizedOrResumed, CableCheckInv, CableChecked,
          PausedInv, OngoingTimerScoped, ServiceInv, ServiceAgreed
  <2>5. CASE pause_ctx.selected \in {"AC", "DC"}
    <3>1. /\ current_state' = IF pause_ctx.selected = "AC"
                              THEN "AC_ChargeParameterDiscovery"
                              ELSE "DC_ChargeParameterDiscovery"
          /\ approvals' = approvals \cup {"resumed"}
      BY <1>3, <2>5 DEF SessionSetup_resume, Goto
    <3>. QED
      BY <1>1, <2>2, <2>3, <2>5, <3>1
      DEF AuthorizationInv, AuthorizedOrResumed, CableCheckInv, CableChecked,
          PausedInv, OngoingTimerScoped, ServiceInv, ServiceAgreed
  <2>. QED BY <2>1, <2>4, <2>5
<1>. QED BY <1>2, <1>3, UnexpectedStateInv DEF SessionSetup_feed

LEMMA AuthorizationStateInv ==
    ASSUME D20TypeOK, StateInv, NEW m \in Messages,
           current_state = "Authorization", Authorization_feed(m)
    PROVE  StateInv'
<1>. local \in Locals /\ timeouts \in [TimeoutTypes -> Deadlines]
  BY DEF D20TypeOK
<1>1. CASE StopOrSequenceError(m, {"AuthorizationReq"})
  BY <1>1, UnexpectedStateInv
<1>2. CASE ~StopOrSequenceError(m, {"AuthorizationReq"})
  <2>1. UNCHANGED <<session, session_paused, approvals, pause_ctx, cert>>
    BY <1>2 DEF Authorization_feed, contextVars
  <2>2. CASE Stay([local EXCEPT !.first_req = FALSE])
    <3>1. local' = [local EXCEPT !.first_req = FALSE] /\ current_state' = current_state
      BY <2>2 DEF Stay
    <3>2. AuthorizationInv' /\ CableCheckInv' /\ ServiceInv' /\ PausedInv'
      BY <2>1, <3>1, LocalsDecisions
      DEF StateInv, AuthorizationInv, AuthorizedOrResumed, CableCheckInv,
          CableChecked, ServiceInv, ServiceAgreed, PausedInv, SameDecisions
    <3>. QED
      BY <2>1, <3>1, <3>2 DEF StateInv, PauseContextOwn, OngoingTimerScoped
  <2>3. CASE ~Stay([local EXCEPT !.first_req = FALSE])
    <3>1. /\ AuthorizationGranted(local)
          /\ Goto("ServiceDiscovery")
          /\ \E t \in [TimeoutTypes -> Deadlines] :
                timeouts' = stop_timeout(t, "ONGOING")
      <4>1. start_timeout(timeouts, "ONGOING", EIM_ONGOING_MS)
              \in [TimeoutTypes -> Deadlines]
        BY DurationAssumption, TheTimeouts, StartTimeoutType
      <4>. QED BY <1>2, <2>3, <4>1 DEF Authorization_feed
    <3>2. ~timeouts'["ONGOING"].on
      BY <3>1, StopTimeout, TheTimeouts
    <3>3. "authorized" \in approvals
      BY <3>1 DEF AuthorizationGranted, StateInv, AuthorizationInv
    <3>4. ServiceInv' /\ PausedInv'
      BY <2>1, <3>1 DEF Goto, StateInv, ServiceInv, ServiceAgreed, PausedInv
    <3>. QED BY <2>1, <3>1, <3>2, <3>3, <3>4, GotoStateInv DEF StateIDs
  <2>. QED BY <2>2, <2>3
<1>. QED BY <1>1, <1>2

\* A handler that stays in its state, or goes on to s, and leaves all else alone.
LEMMA QuietStateInv ==
    ASSUME D20TypeOK, StateInv,
           (\E l \in Locals : Stay(l) /\ SameDecisions(l)),
           UNCHANGED <<session, session_paused, approvals, pause_ctx, cert>>,
           timeouts'["ONGOING"].on => timeouts["ONGOING"].on
    PROVE  StateInv'
<1>1. UNCHANGED current_state /\ SameDecisions(local')
  BY DEF Stay
<1>. QED BY <1>1, StateInvKept DEF stateInvVars

LEMMA ServiceDiscoveryStateInv ==
    ASSUME D20TypeOK, StateInv, NEW m \in Messages,
           \/ current_state = "ServiceDiscovery" /\ ServiceDiscovery_feed(m)
           \/ current_state = "ServiceDetail" /\ ServiceDetail_feed(m)
    PROVE  StateInv'
<1>1. CASE \E x : StopOrSequenceError(m, x)
  BY <1>1, UnexpectedStateInv
<1>2. CASE ~\E x : StopOrSequenceError(m, x)
  <2>1. /\ UNCHANGED <<session_paused, approvals, pause_ctx, cert, timeouts>>
        /\ session'.id = session.id
        /\ session'.selected = session.selected
    BY <1>2
    DEF ServiceDiscovery_feed, ServiceDetail_feed, Detailed, contextVars, D20TypeOK,
        Sessions
  <2>2. session.selected = "None" /\ ~timeouts["ONGOING"].on
    BY DEF StateInv, ServiceInv, OngoingTimerScoped
  <2>3. \/ Stay(local)
        \/ current_state = "ServiceDiscovery" /\ Goto("ServiceDetail")
        \/ current_state = "ServiceDetail" /\ Goto("ServiceSelection")
    BY <1>2 DEF ServiceDiscovery_feed, ServiceDetail_feed, RespondThen
  <2>4. CASE Stay(local)
    <3>1. AuthorizationInv' /\ CableCheckInv' /\ ServiceInv' /\ PausedInv'
      BY <2>1, <2>2, <2>4
      DEF Stay, StateInv, AuthorizationInv, AuthorizedOrResumed, CableCheckInv,
          CableChecked, ServiceInv, ServiceAgreed, PausedInv
    <3>. QED
      BY <2>1, <2>4, <3>1
      DEF Stay, StateInv, PauseContextOwn, OngoingTimerScoped
  <2>5. CASE ~Stay(local)
    <3>1. ServiceInv' /\ PausedInv'
      BY <2>1, <2>2, <2>3, <2>5, EnteredMembers
      DEF Goto, StateInv, ServiceInv, ServiceAgreed, PausedInv
    <3>2. approvals \cap {"authorized", "resumed"} # {}
      BY DEF StateInv, AuthorizationInv, AuthorizedOrResumed
    <3>. QED BY <2>1, <2>2, <2>3, <2>5, <3>1, <3>2, GotoStateInv DEF StateIDs
  <2>. QED BY <2>4, <2>5
<1>. QED BY <1>1, <1>2

LEMMA ServiceSelectionStateInv ==
    ASSUME D20TypeOK, StateInv, NEW m \in Messages,
           current_state = "ServiceSelection", ServiceSelection_feed(m)
    PROVE  StateInv'
<1>1. CASE \E x : StopOrSequenceError(m, x)
  BY <1>1, UnexpectedStateInv
<1>2. CASE ~\E x : StopOrSequenceError(m, x)
  <2>1. UNCHANGED <<session_paused, approvals, pause_ctx, cert, timeouts>>
    BY <1>2 DEF ServiceSelection_feed, contextVars
  <2>2. /\ session' \in Sessions
        /\ session'.id = session.id
        /\ session'.offered = session.offered
        /\ session.detailed \subseteq session'.detailed
        /\ \/ session'.selected = session.selected
           \/ session'.selected \in session.offered \cap session.detailed
    <3>1. session' \in Sessions
      BY ServiceSelectionType DEF HandledTypeOK
    <3>. QED
      BY <1>2, <3>1
      DEF ServiceSelection_feed, Detailed, EnergySelected, D20TypeOK, Sessions
  <2>3. /\ approvals \cap {"authorized", "resumed"} # {}
        /\ ~timeouts["ONGOING"].on
        /\ ~session_paused
    BY DEF StateInv, AuthorizationInv, AuthorizedOrResumed, OngoingTimerScoped,
           PausedInv, D20TypeOK
  <2>4. \/ UNCHANGED <<current_state, local>>
        \/ /\ current_state' = "AC_ChargeParameterDiscovery"
           /\ session'.selected = "AC"
        \/ /\ current_state' = "DC_ChargeParameterDiscovery"
           /\ session'.selected = "DC"
    <3>1. CASE m.type = "ServiceSelectionReq"
      <4>1. EnergySelected(m) => SelectedEnergy(m) \in {"AC", "DC"}
        BY DEF EnergySelected, SelectedEnergy, D20TypeOK, Sessions, Services, Offerable
      <4>2. CASE ServiceSelectionCode(m) = "FAILED"
        BY <1>2, <3>1, <4>2 DEF ServiceSelection_feed, RespondThen, Stay
      <4>3. CASE ServiceSelectionCode(m) # "FAILED"
        <5>1. EnergySelected(m)
          BY <4>3 DEF ServiceSelectionCode
        <5>2. session'.selected = SelectedEnergy(m)
          BY <1>2, <3>1, <5>1 DEF ServiceSelection_feed, D20TypeOK, Sessions
        <5>3. current_state' = IF SelectedEnergy(m) = "AC"
                               THEN "AC_ChargeParameterDiscovery"
                               ELSE "DC_ChargeParameterDiscovery"
          BY <1>2, <3>1, <4>3 DEF ServiceSelection_feed, RespondThen, Goto
        <5>. QED BY <4>1, <5>1, <5>2, <5>3
      <4>. QED BY <4>2, <4>3
    <3>2. CASE m.type # "ServiceSelectionReq"
      BY <1>2, <3>2 DEF ServiceSelection_feed, Stay
    <3>. QED BY <3>1, <3>2
  <2>5. AuthorizationInv' /\ CableCheckInv' /\ PausedInv' /\ OngoingTimerScoped'
    BY <2>1, <2>3, <2>4
    DEF AuthorizationInv, AuthorizedOrResumed, CableCheckInv, CableChecked, PausedInv,
        OngoingTimerScoped
  <2>6. ServiceInv'
    BY <2>1, <2>2, <2>4 DEF StateInv, ServiceInv, ServiceAgreed, Sessions
  <2>7. PauseContextOwn'
    BY <2>1, <2>2 DEF StateInv, PauseContextOwn
  <2>. QED BY <2>5, <2>6, <2>7 DEF StateInv
<1>. QED BY <1>1, <1>2

LEMMA ChargeParameterDiscoveryStateInv ==
    ASSUME D20TypeOK, StateInv, NEW m \in Messages,
           \/ /\ current_state = "AC_ChargeParameterDiscovery"
              /\ AC_ChargeParameterDiscovery_feed(m)
           \/ /\ current_state = "DC_ChargeParameterDiscovery"
              /\ DC_ChargeParameterDiscovery_feed(m)
    PROVE  StateInv'
<1>. local \in Locals
  BY DEF D20TypeOK
<1>1. CASE \E x : StopOrSequenceError(m, x)
  BY <1>1, UnexpectedStateInv
<1>2. CASE ~\E x : StopOrSequenceError(m, x)
  <2>1. UNCHANGED <<session, session_paused, approvals, pause_ctx, cert, timeouts>>
    BY <1>2
    DEF AC_ChargeParameterDiscovery_feed, DC_ChargeParameterDiscovery_feed, quietVars,
        contextVars
  <2>2. Stay(local) \/ Goto("ScheduleExchange")
    BY <1>2
    DEF AC_ChargeParameterDiscovery_feed, DC_ChargeParameterDiscovery_feed, RespondThen
  <2>3. CASE Stay(local)
    BY <2>1, <2>3, QuietStateInv, LocalsDecisions
  <2>4. CASE Goto("ScheduleExchange")
    <3>1. ServiceInv' /\ PausedInv'
      BY <2>1, <2>4, EnteredMembers
      DEF Goto, StateInv, ServiceInv, ServiceAgreed, PausedInv, Services
    <3>2. approvals \cap {"authorized", "resumed"} # {} /\ ~timeouts["ONGOING"].on
      BY DEF StateInv, AuthorizationInv, AuthorizedOrResumed, OngoingTimerScoped
    <3>. QED BY <2>1, <2>4, <3>1, <3>2, GotoStateInv DEF StateIDs
  <2>. QED BY <2>2, <2>3, <2>4
<1>. QED BY <1>1, <1>2

LEMMA ScheduleExchangeStateInv ==
    ASSUME D20TypeOK, StateInv, NEW m \in Messages,
           current_state = "ScheduleExchange", ScheduleExchange_feed(m)
    PROVE  StateInv'
<1>. local \in Locals /\ timeouts \in [TimeoutTypes -> Deadlines]
  BY DEF D20TypeOK
<1>1. CASE \E x : StopOrSequenceError(m, x)
  BY <1>1, UnexpectedStateInv
<1>2. CASE ~\E x : StopOrSequenceError(m, x)
  <2>1. UNCHANGED <<session, session_paused, approvals, pause_ctx, cert>>
    BY <1>2 DEF ScheduleExchange_feed, contextVars
  <2>2. CASE Stay([local EXCEPT !.first_req = FALSE])
    <3>1. current_state' = current_state /\ local' = [local EXCEPT !.first_req = FALSE]
      BY <2>2 DEF Stay
    <3>2. AuthorizationInv' /\ CableCheckInv' /\ ServiceInv' /\ PausedInv'
      BY <2>1, <3>1
      DEF StateInv, AuthorizationInv, AuthorizedOrResumed, CableCheckInv,
          CableChecked, ServiceInv, ServiceAgreed, PausedInv
    <3>. QED
      BY <2>1, <3>1, <3>2 DEF StateInv, PauseContextOwn, OngoingTimerScoped
  <2>3. CASE ~Stay([local EXCEPT !.first_req = FALSE])
    <3>1. start_timeout(timeouts, "ONGOING", ONGOING_MS) \in [TimeoutTypes -> Deadlines]
      BY DurationAssumption, TheTimeouts, StartTimeoutType
    <3>2. ~timeouts'["ONGOING"].on
      BY <1>2, <2>3, <3>1, StopTimeout, TheTimeouts DEF ScheduleExchange_feed
    <3>3. \/ session.selected = "AC" /\ Goto("PowerDelivery")
          \/ session.selected = "DC" /\ Goto("DC_CableCheck")
      BY <1>2, <2>3 DEF ScheduleExchange_feed, Services
    <3>4. ServiceInv' /\ PausedInv'
      BY <2>1, <3>3, EnteredMembers
      DEF Goto, StateInv, ServiceInv, ServiceAgreed, PausedInv, Services
    <3>5. approvals \cap {"authorized", "resumed"} # {}
      BY DEF StateInv, AuthorizationInv, AuthorizedOrResumed
    <3>. QED BY <2>1, <3>2, <3>3, <3>4, <3>5, GotoStateInv DEF StateIDs
  <2>. QED BY <2>2, <2>3
<1>. QED BY <1>1, <1>2

LEMMA CableCheckStateInv ==
    ASSUME D20TypeOK, StateInv, NEW m \in Messages,
           \/ current_state = "DC_CableCheck" /\ DC_CableCheck_feed(m)
           \/ current_state = "DC_PreCharge" /\ DC_PreCharge_feed(m)
    PROVE  StateInv'
<1>. local \in Locals
  BY DEF D20TypeOK
<1>1. CASE \E x : StopOrSequenceError(m, x)
  BY <1>1, UnexpectedStateInv
<1>2. CASE ~\E x : StopOrSequenceError(m, x)
  <2>1. UNCHANGED <<session, session_paused, approvals, pause_ctx, cert, timeouts>>
    BY <1>2 DEF DC_CableCheck_feed, DC_PreCharge_feed, contextVars
  <2>2. \/ Stay([local EXCEPT !.initiated = TRUE])
        \/ /\ current_state = "DC_CableCheck"
           /\ local.cable_done
           /\ Goto("DC_PreCharge")
        \/ /\ current_state = "DC_PreCharge"
           /\ Goto("PowerDelivery")
    BY <1>2 DEF DC_CableCheck_feed, DC_PreCharge_feed, CableCheckDone
  <2>3. CASE Stay([local EXCEPT !.initiated = TRUE])
    BY <2>1, <2>3, QuietStateInv, LocalsDecisions, LocalsType
  <2>4. CASE ~Stay([local EXCEPT !.initiated = TRUE])
    <3>1. "cable_checked" \in approvals
      BY <2>2, <2>4 DEF StateInv, CableCheckInv, CableChecked
    <3>2. ServiceInv' /\ PausedInv'
      BY <2>1, <2>2, <2>4, EnteredMembers
      DEF Goto, StateInv, ServiceInv, ServiceAgreed, PausedInv, Services
    <3>3. approvals \cap {"authorized", "resumed"} # {} /\ ~timeouts["ONGOING"].on
      BY DEF StateInv, AuthorizationInv, AuthorizedOrResumed, OngoingTimerScoped
    <3>. QED BY <2>1, <2>2, <2>4, <3>1, <3>2, <3>3, GotoStateInv DEF StateIDs
  <2>. QED BY <2>3, <2>4
<1>. QED BY <1>1, <1>2

LEMMA PowerDeliveryStateInv ==
    ASSUME D20TypeOK, StateInv, NEW m \in Messages,
           current_state = "PowerDelivery", PowerDelivery_feed(m)
    PROVE  StateInv'
<1>. local \in Locals /\ timeouts \in [TimeoutTypes -> Deadlines]
  BY DEF D20TypeOK
<1>1. CASE \E x : UnexpectedRequest(m, x)
  BY <1>1, UnexpectedStateInv
<1>2. CASE PowerDelivery_await(m)
  <2>1. UNCHANGED <<current_state, session, session_paused, approvals, pause_ctx, cert>>
    BY <1>2 DEF PowerDelivery_await, Stay, sessionVars, contextVars
  <2>2. session.selected = "AC"
    BY <1>2 DEF PowerDelivery_await, AwaitsContactor
  <2>3. timeouts'["ONGOING"] = timeouts["ONGOING"]
    BY <1>2, StartTimeout, TheTimeouts DEF PowerDelivery_await
  <2>4. AuthorizationInv' /\ CableCheckInv' /\ ServiceInv' /\ PausedInv'
    BY <2>1, <2>2
    DEF StateInv, AuthorizationInv, AuthorizedOrResumed, CableCheckInv,
        CableChecked, ServiceInv, ServiceAgreed, PausedInv
  <2>. QED
    BY <2>1, <2>3, <2>4 DEF StateInv, PauseContextOwn, OngoingTimerScoped
<1>3. CASE PowerDelivery_answer(m)
  <2>1. UNCHANGED <<session, session_paused, approvals, pause_ctx, cert, timeouts>>
    BY <1>3 DEF PowerDelivery_answer, contextVars
  <2>2. \/ Stay(local)
        \/ session.selected = "AC" /\ Goto("AC_ChargeLoop")
        \/ session.selected = "DC" /\ Goto("DC_ChargeLoop")
    BY <1>3 DEF PowerDelivery_answer, Services
  <2>3. CASE Stay(local)
    BY <2>1, <2>3, QuietStateInv, LocalsDecisions
  <2>4. CASE ~Stay(local)
    <3>1. session.selected = "DC" => "cable_checked" \in approvals
      BY DEF StateInv, CableCheckInv, CableChecked
    <3>2. ServiceInv' /\ PausedInv'
      BY <2>1, <2>2, <2>4, EnteredMembers
      DEF Goto, StateInv, ServiceInv, ServiceAgreed, PausedInv, Services
    <3>3. approvals \cap {"authorized", "resumed"} # {} /\ ~timeouts["ONGOING"].on
      BY DEF StateInv, AuthorizationInv, AuthorizedOrResumed, OngoingTimerScoped
    <3>. QED BY <2>1, <2>2, <2>4, <3>1, <3>2, <3>3, GotoStateInv DEF StateIDs
  <2>. QED BY <2>3, <2>4
<1>4. CASE Stay(local) /\ UNCHANGED quietVars
  BY <1>4, QuietStateInv, LocalsDecisions DEF quietVars, contextVars
<1>. QED BY <1>1, <1>2, <1>3, <1>4 DEF PowerDelivery_feed

LEMMA ChargeLoopStateInv ==
    ASSUME D20TypeOK, StateInv, NEW m \in Messages,
           \/ current_state = "AC_ChargeLoop" /\ AC_ChargeLoop_feed(m)
           \/ current_state = "DC_ChargeLoop" /\ DC_ChargeLoop_feed(m)
    PROVE  StateInv'
<1>. local \in Locals
  BY DEF D20TypeOK
<1>1. CASE \E x : UnexpectedRequest(m, x)
  BY <1>1, UnexpectedStateInv
<1>2. CASE ~\E x : UnexpectedRequest(m, x)
  <2>1. UNCHANGED <<session, session_paused, approvals, pause_ctx, cert, timeouts>>
    BY <1>2
    DEF AC_ChargeLoop_feed, DC_ChargeLoop_feed, ChargeLoopEnd, ChargeLoopRequest,
        contextVars
  <2>2. \/ Stay(local)
        \/ Stay([local EXCEPT !.first_entry = TRUE])
        \/ Stay([local EXCEPT !.first_entry = FALSE])
        \/ current_state = "AC_ChargeLoop" /\ Goto("SessionStop")
        \/ current_state = "DC_ChargeLoop" /\ Goto("DC_WeldingDetection")
    BY <1>2
    DEF AC_ChargeLoop_feed, DC_ChargeLoop_feed, ChargeLoopEnd, ChargeLoopRequest
  <2>3. CASE \E l \in Locals : Stay(l) /\ SameDecisions(l)
    BY <2>1, <2>3, QuietStateInv
  <2>4. CASE \/ current_state = "AC_ChargeLoop" /\ Goto("SessionStop")
             \/ current_state = "DC_ChargeLoop" /\ Goto("DC_WeldingDetection")
    <3>1. current_state = "DC_ChargeLoop" => "cable_checked" \in approvals
      BY DEF StateInv, CableCheckInv, CableChecked
    <3>2. ServiceInv' /\ PausedInv'
      BY <2>1, <2>4, EnteredMembers
      DEF Goto, StateInv, ServiceInv, ServiceAgreed, PausedInv, Services
    <3>3. approvals \cap {"authorized", "resumed"} # {} /\ ~timeouts["ONGOING"].on
      BY DEF StateInv, AuthorizationInv, AuthorizedOrResumed, OngoingTimerScoped
    <3>. QED BY <2>1, <2>4, <3>1, <3>2, <3>3, GotoStateInv DEF StateIDs
  <2>. QED BY <2>2, <2>3, <2>4, LocalsDecisions, LocalsType
<1>. QED BY <1>1, <1>2

LEMMA SessionEndStateInv ==
    ASSUME D20TypeOK, StateInv, NEW m \in Messages,
           \/ current_state = "DC_WeldingDetection" /\ DC_WeldingDetection_feed(m)
           \/ current_state = "SessionStop" /\ SessionStop_feed(m)
    PROVE  StateInv'
<1>. local \in Locals
  BY DEF D20TypeOK
<1>1. CASE \E x : UnexpectedRequest(m, x)
  BY <1>1, UnexpectedStateInv
<1>2. CASE EndSession(m)
  <2>1. UNCHANGED <<current_state, local, session, cert, approvals, timeouts>>
    BY <1>2 DEF EndSession, Stay
  <2>2. AuthorizationInv' /\ CableCheckInv' /\ ServiceInv' /\ OngoingTimerScoped'
    BY <2>1
    DEF StateInv, AuthorizationInv, AuthorizedOrResumed, CableCheckInv,
        CableChecked, ServiceInv, ServiceAgreed, OngoingTimerScoped
  <2>3. PausedInv'
    BY <2>1 DEF PausedInv
  <2>4. PauseContextOwn'
    BY <1>2, <2>1
    DEF EndSession, StateInv, PauseContextOwn, NoPause, D20TypeOK, PauseContextType
  <2>. QED BY <2>2, <2>3, <2>4 DEF StateInv
<1>3. CASE ~EndSession(m) /\ ~\E x : UnexpectedRequest(m, x)
  <2>1. /\ current_state = "DC_WeldingDetection"
        /\ Stay(local) \/ Goto("SessionStop")
        /\ UNCHANGED <<session, session_paused, approvals, pause_ctx, cert, timeouts>>
    BY <1>3
    DEF DC_WeldingDetection_feed, SessionStop_feed, quietVars, contextVars
  <2>2. CASE Stay(local)
    BY <2>1, <2>2, QuietStateInv, LocalsDecisions
  <2>3. CASE Goto("SessionStop")
    <3>1. ServiceInv' /\ PausedInv'
      BY <2>1, <2>3, EnteredMembers
      DEF Goto, StateInv, ServiceInv, ServiceAgreed, PausedInv, Services
    <3>2. approvals \cap {"authorized", "resumed"} # {} /\ ~timeouts["ONGOING"].on
      BY <2>1 DEF StateInv, AuthorizationInv, AuthorizedOrResumed, OngoingTimerScoped
    <3>. QED BY <2>1, <2>3, <3>1, <3>2, GotoStateInv DEF StateIDs
  <2>. QED BY <2>1, <2>2, <2>3
<1>. QED BY <1>1, <1>2, <1>3

LEMMA FeedMessageStateInv ==
    ASSUME D20TypeOK, StateInv, FeedMessage PROVE StateInv'
<1>1. request \in Messages
  BY DEF FeedMessage, D20TypeOK
<1>. QED
  BY <1>1, SetupStateInv, SessionSetupStateInv, AuthorizationStateInv,
     ServiceDiscoveryStateInv, ServiceSelectionStateInv,
     ChargeParameterDiscoveryStateInv, ScheduleExchangeStateInv, CableCheckStateInv,
     PowerDeliveryStateInv, ChargeLoopStateInv, SessionEndStateInv
  DEF FeedMessage

-----------------------------------------------------------------------------
(* StateInv, the control events and the timeouts *)

LEMMA ApprovedIs ==
    ASSUME NEW e
    PROVE  /\ current_state = "Authorization" /\ e.kind = "AuthorizationResponse"
                 => Approved(e) = IF e.val THEN approvals \cup {"authorized"}
                                           ELSE approvals \ {"authorized"}
           /\ current_state = "DC_CableCheck" /\ e.kind = "CableCheckFinished"
                 => Approved(e) = IF e.val THEN approvals \cup {"cable_checked"}
                                           ELSE approvals \ {"cable_checked"}
           /\ current_state = "PowerDelivery" /\ e.kind = "ClosedContactor"
                 => Approved(e) = IF e.val THEN approvals \cup {"contactor_closed"}
                                           ELSE approvals \ {"contactor_closed"}
           /\ <<current_state, e.kind>> \notin
                    {<<"Authorization", "AuthorizationResponse">>,
                     <<"DC_CableCheck", "CableCheckFinished">>,
                     <<"PowerDelivery", "ClosedContactor">>}
                 => Approved(e) = approvals
BY DEF Approved

LEMMA AppliedDecisions ==
    ASSUME local \in Locals, NEW e \in ControlEvents
    PROVE  /\ Applied(e).previous_req = local.previous_req
           /\ Applied(e).auth =
                 IF current_state = "Authorization" /\ e.kind = "AuthorizationResponse"
                 THEN IF e.val THEN "Accepted" ELSE "Rejected"
                 ELSE local.auth
           /\ Applied(e).cable_done =
                 IF current_state = "DC_CableCheck" /\ e.kind = "CableCheckFinished"
                 THEN e.val ELSE local.cable_done
BY DEF Applied, Locals

LEMMA FeedControlStateInv ==
    ASSUME D20TypeOK, StateInv, NEW e \in ControlEvents, FeedControl(e)
    PROVE  StateInv'
<1>. local \in Locals /\ timeouts \in [TimeoutTypes -> Deadlines]
  BY DEF D20TypeOK
<1>1. /\ UNCHANGED <<session, session_paused, pause_ctx, cert>>
      /\ approvals' = Approved(e)
  BY DEF FeedControl
<1>2. CASE current_state = "PowerDelivery" /\ e.kind = "ClosedContactor"
  <2>1. /\ approvals' \ {"contactor_closed"} = approvals \ {"contactor_closed"}
        /\ "cable_checked" \in approvals' <=> "cable_checked" \in approvals
        /\ "resumed" \in approvals' <=> "resumed" \in approvals
        /\ "authorized" \in approvals' <=> "authorized" \in approvals
    BY <1>1, <1>2, ApprovedIs
  <2>2. ~timeouts["ONGOING"].on /\ timeouts'["ONGOING"] = timeouts["ONGOING"]
    BY <1>2, StopTimeout, TheTimeouts
    DEF FeedControl, ClosedContactor, StateInv, OngoingTimerScoped
  <2>3. \/ Stay([local EXCEPT !.closed = TRUE])
        \/ local.previous_req = "valid" /\ Goto("AC_ChargeLoop")
    BY <1>2 DEF FeedControl, ClosedContactor
  <2>4. \/ current_state' = current_state /\ SameDecisions(local')
        \/ session.selected = "AC" /\ current_state' = "AC_ChargeLoop"
    BY <1>2, <2>3, LocalsDecisions DEF Stay, Goto, StateInv, ServiceInv
  <2>5. AuthorizationInv' /\ CableCheckInv'
    BY <1>1, <1>2, <2>1, <2>4
    DEF StateInv, AuthorizationInv, AuthorizedOrResumed, CableCheckInv, CableChecked
  <2>6. ServiceInv'
    BY <1>1, <1>2, <2>1, <2>4 DEF StateInv, ServiceInv, ServiceAgreed, SameDecisions
  <2>7. PausedInv' /\ PauseContextOwn' /\ OngoingTimerScoped'
    BY <1>1, <1>2, <2>2, <2>4 DEF StateInv, PausedInv, PauseContextOwn, OngoingTimerScoped
  <2>. QED BY <2>5, <2>6, <2>7 DEF StateInv
<1>3. CASE ~(current_state = "PowerDelivery" /\ e.kind = "ClosedContactor")
  <2>1. current_state' = current_state /\ local' = Applied(e) /\ timeouts' = timeouts
    BY <1>3 DEF FeedControl, Stay
  <2>2. CASE current_state = "Authorization" /\ e.kind = "AuthorizationResponse"
    <3>1. AuthorizationInv' /\ CableCheckInv'
      BY <1>1, <2>1, <2>2, ApprovedIs, AppliedDecisions
      DEF StateInv, AuthorizationInv, AuthorizedOrResumed, CableCheckInv, CableChecked
    <3>2. ServiceInv' /\ PausedInv' /\ PauseContextOwn' /\ OngoingTimerScoped'
      BY <1>1, <2>1, <2>2
      DEF StateInv, ServiceInv, ServiceAgreed, PausedInv, PauseContextOwn,
          OngoingTimerScoped
    <3>. QED BY <3>1, <3>2 DEF StateInv
  <2>3. CASE current_state = "DC_CableCheck" /\ e.kind = "CableCheckFinished"
    <3>1. AuthorizationInv' /\ CableCheckInv'
      BY <1>1, <2>1, <2>3, ApprovedIs, AppliedDecisions
      DEF StateInv, AuthorizationInv, AuthorizedOrResumed, CableCheckInv, CableChecked
    <3>2. ServiceInv'
      BY <1>1, <2>1, <2>3, ApprovedIs DEF StateInv, ServiceInv, ServiceAgreed
    <3>3. PausedInv' /\ PauseContextOwn' /\ OngoingTimerScoped'
      BY <1>1, <2>1, <2>3
      DEF StateInv, PausedInv, PauseContextOwn, OngoingTimerScoped
    <3>. QED BY <3>1, <3>2, <3>3 DEF StateInv
  <2>4. CASE /\ ~(current_state = "Authorization" /\ e.kind = "AuthorizationResponse")
             /\ ~(current_state = "DC_CableCheck" /\ e.kind = "CableCheckFinished")
    <3>1. SameDecisions(local') /\ approvals' = approvals
      BY <1>1, <1>3, <2>1, <2>4, ApprovedIs, AppliedDecisions DEF SameDecisions
    <3>. QED BY <1>1, <2>1, <3>1, StateInvKept DEF stateInvVars
  <2>. QED BY <2>2, <2>3, <2>4
<1>. QED BY <1>2, <1>3

LEMMA FeedTimeoutStateInv ==
    ASSUME D20TypeOK, StateInv, NEW type, FeedTimeout(type) PROVE StateInv'
<1>. local \in Locals
  BY DEF D20TypeOK
<1>1. Stay(local) \/ Stay([local EXCEPT !.ongoing_reached = TRUE])
  BY DEF FeedTimeout
<1>. QED
  BY <1>1, QuietStateInv, LocalsDecisions, LocalsType
  DEF FeedTimeout, quietVars, contextVars

-----------------------------------------------------------------------------
(* StateInv is an invariant *)

LEMMA StateInvInit == Init => StateInv
<1>. SUFFICES ASSUME Init PROVE StateInv
  OBVIOUS
<1>1. current_state = "SupportedAppProtocol" /\ session.selected = "None"
  BY DEF Init, NewSession
<1>2. ~timeouts["ONGOING"].on
  BY TheTimeouts DEF Init, NoTimeouts, Off
<1>3. ~session_paused
  BY DEF Init
<1>. QED
  BY <1>1, <1>2, <1>3
  DEF StateInv, AuthorizationInv, AuthorizedOrResumed, CableCheckInv, CableChecked,
      ServiceInv, ServiceAgreed, PausedInv, PauseContextOwn, OngoingTimerScoped

\* No timer is started by time passing, and resetting one starts none.
LEMMA ElapsedTimers ==
    ASSUME NEW t \in [TimeoutTypes -> Deadlines], NEW x \in TimeoutTypes
    PROVE  ElapseAll(t)[x].on = t[x].on
BY DEF ElapseAll, Elapse, Deadlines

LEMMA ResetTimers ==
    ASSUME NEW t \in [TimeoutTypes -> Deadlines], NEW x \in TimeoutTypes, NEW type
    PROVE  reset_timeout(t, type)[x].on => t[x].on
BY DEF reset_timeout, Off

\* The steps that feed nothing to the state machine.
LEMMA NoFeedStateInv ==
    ASSUME TypeOK, StateInv, UNCHANGED <<local, stateInvVars>>,
           timeouts'["ONGOING"].on => timeouts["ONGOING"].on
    PROVE  StateInv'
BY StateInvKept DEF SameDecisions

LEMMA StateInvNext ==
    TypeOK /\ PollInv /\ ConnectInv /\ StateInv /\ [Next]_vars => StateInv'
<1>. SUFFICES ASSUME TypeOK, PollInv, ConnectInv, StateInv, [Next]_vars
              PROVE  StateInv'
  OBVIOUS
<1>. timeouts \in [TimeoutTypes -> Deadlines] /\ D20TypeOK
  BY DEF TypeOK, D20TypeOK
<1>1. CASE EvConnect
  <2>1. /\ UNCHANGED <<current_state, local, session, session_paused, approvals,
                       pause_ctx, timeouts>>
        /\ current_state = "SupportedAppProtocol"
    BY <1>1 DEF EvConnect, ConnectInv, fsmVars, sessionVars
  <2>. QED
    BY <2>1
    DEF StateInv, AuthorizationInv, AuthorizedOrResumed, CableCheckInv, CableChecked,
        ServiceInv, ServiceAgreed, PausedInv, PauseContextOwn, OngoingTimerScoped
<1>2. CASE PopControl
  <2>1. Head(queue) \in ControlEvents
    BY <1>2 DEF PopControl, TypeOK
  <2>. QED BY <1>2, <2>1, FeedControlStateInv DEF PopControl
<1>3. CASE Feed
  BY <1>3, FeedMessageStateInv DEF Feed
<1>4. CASE OtherTimeout
  BY <1>4, FeedTimeoutStateInv DEF OtherTimeout
<1>5. CASE UNCHANGED d20Vars
  BY <1>5, NoFeedStateInv
  DEF d20Vars, fsmVars, sessionVars, contextVars, stateInvVars
<1>6. CASE Tick
  BY <1>6, NoFeedStateInv, ElapsedTimers, TheTimeouts
  DEF Tick, fsmVars, sessionVars, contextVars, stateInvVars
<1>7. CASE TimeoutFed
  BY <1>7, NoFeedStateInv, ResetTimers, TheTimeouts
  DEF TimeoutFed, fsmVars, sessionVars, contextVars, stateInvVars
<1>8. CASE SetRequest
  <2>1. timeouts'["ONGOING"] = timeouts["ONGOING"]
    BY <1>8, StopTimeout, TheTimeouts DEF SetRequest
  <2>. QED
    BY <1>8, <2>1, NoFeedStateInv
    DEF SetRequest, fsmVars, sessionVars, contextVars, stateInvVars
<1>9. CASE Respond
  <2>1. timeouts'["ONGOING"] = timeouts["ONGOING"]
    BY <1>9, StartTimeout, TheTimeouts DEF Respond
  <2>. QED
    BY <1>9, <2>1, NoFeedStateInv
    DEF Respond, fsmVars, sessionVars, contextVars, stateInvVars
<1>10. CASE \/ SequenceTimeout \/ CheckFeedResult \/ ResponseDiscarded
            \/ RespondThrows \/ Close
  BY <1>10, NoFeedStateInv
  DEF SequenceTimeout, CheckFeedResult, ResponseDiscarded, RespondThrows, Close,
      fsmVars, sessionVars, contextVars, stateInvVars
<1>11. CASE \/ (\E q \in EvRequests : EvSend(q)) \/ (\E e \in AppEvents : Push(e))
            \/ UNCHANGED vars
  BY <1>5, <1>11, Zenon DEF EvSend, Push, vars
<1>12. CASE \/ PollStart \/ ReadThrows \/ ControlDone \/ NoPacket \/ DecodeThrows
            \/ NoResponse \/ PollEnd \/ DelayedClose
  BY <1>5, <1>12
  DEF PollStart, ReadThrows, ControlDone, NoPacket, DecodeThrows, NoResponse, PollEnd,
      DelayedClose
<1>. QED
  BY <1>1, <1>2, <1>3, <1>4, <1>6, <1>7, <1>8, <1>9, <1>10, <1>11, <1>12
  DEF Next, PollStep

LEMMA ConnectInvNext == PollInv /\ ConnectInv /\ [Next]_vars => ConnectInv'
<1>. SUFFICES ASSUME PollInv, ConnectInv, [Next]_vars PROVE ConnectInv'
  OBVIOUS
<1>. USE DEF ConnectInv, ioVars
<1>1. CASE EvConnect \/ Close \/ DelayedClose
  BY <1>1 DEF EvConnect, Close, DelayedClose
<1>2. CASE \/ (\E q \in EvRequests : EvSend(q)) \/ (\E e \in AppEvents : Push(e))
           \/ Tick \/ UNCHANGED vars
  <2>1. UNCHANGED <<current_state, connected>>
    BY <1>2, Zenon DEF EvSend, Push, Tick, vars, d20Vars, fsmVars
  <2>. QED BY <2>1
<1>3. CASE PollStart \/ ReadThrows
  BY <1>3 DEF PollStart, ReadThrows
<1>4. CASE PollStep /\ pc # "idle" /\ ~Close /\ ~DelayedClose
  <2>1. connected = "yes"
    BY <1>4 DEF PollInv
  <2>2. connected' = connected
    BY <1>4
    DEF PollStep, PollStart, ReadThrows, PopControl, ControlDone, SequenceTimeout,
        OtherTimeout, TimeoutFed, NoPacket, SetRequest, DecodeThrows, Feed,
        CheckFeedResult, NoResponse, Respond, ResponseDiscarded, RespondThrows, PollEnd
  <2>. QED BY <2>1, <2>2
<1>5. PollStep /\ pc = "idle" => PollStart \/ ReadThrows
  BY DEF PollStep, PopControl, ControlDone, SequenceTimeout,
        OtherTimeout, TimeoutFed, NoPacket, SetRequest, DecodeThrows, Feed,
        CheckFeedResult, NoResponse, Respond, ResponseDiscarded, RespondThrows,
        Close, PollEnd, DelayedClose
<1>. QED BY <1>1, <1>2, <1>3, <1>4, <1>5 DEF Next

LEMMA ConnectInvCorrect == Spec => []ConnectInv
<1>1. Init => ConnectInv
  BY DEF Init, ConnectInv
<1>2. PollInv /\ ConnectInv /\ [Next]_vars => ConnectInv'
  BY ConnectInvNext
<1>. QED BY <1>1, <1>2, PollInvCorrect, PTL DEF Spec

LEMMA StateInvCorrect == Spec => []StateInv
<1>1. Init => StateInv
  BY StateInvInit
<1>2. TypeOK /\ PollInv /\ ConnectInv /\ StateInv /\ [Next]_vars => StateInv'
  BY StateInvNext
<1>. QED
  BY <1>1, <1>2, TypeCorrectness, PollInvCorrect, ConnectInvCorrect, PTL DEF Spec

\* No EV gets past Authorization without the application's consent, whatever it
\* sends and however the consent is given, withdrawn or repeated meanwhile: only the
\* resumption of a paused session goes around it.
THEOREM OnlyAuthorizedOrResumed == Spec => []AuthorizedOrResumed
<1>1. StateInv => AuthorizedOrResumed
  BY DEF StateInv, AuthorizationInv
<1>. QED BY <1>1, StateInvCorrect, PTL

\* DC_PreCharge and everything behind it is only reached after a positive cable check
\* of this session, also when the session was resumed and when the application
\* reported a negative result in between.
THEOREM CableIsChecked == Spec => []CableChecked
<1>1. StateInv => CableChecked
  BY DEF StateInv, CableCheckInv
<1>. QED BY <1>1, StateInvCorrect, PTL

\* A state of one charging technology has that technology selected, and it was
\* offered with its parameters or taken over from a paused session: the branches of
\* ScheduleExchange and PowerDelivery for an unknown service are dead code.
THEOREM ServiceIsAgreed == Spec => []ServiceAgreed
<1>1. StateInv => ServiceAgreed
  BY DEF StateInv, ServiceInv
<1>. QED BY <1>1, StateInvCorrect, PTL

\* The pause context a vehicle with a certificate leaves is its own, for any context
\* an earlier vehicle left and any number of SessionSetupReq.
THEOREM PauseContextIsOwn == Spec => []PauseContextOwn
<1>1. StateInv => PauseContextOwn
  BY DEF StateInv
<1>. QED BY <1>1, StateInvCorrect, PTL

\* The ongoing timer of Authorization and ScheduleExchange is stopped on every way
\* out of them.
THEOREM OngoingTimerIsScoped == Spec => []OngoingTimerScoped
<1>1. StateInv => OngoingTimerScoped
  BY DEF StateInv
<1>. QED BY <1>1, StateInvCorrect, PTL

-----------------------------------------------------------------------------
(* HealthInv and a request: what a session looks like when it was fed and is *)
(* not ending                                                                *)

\* A state is left with a positive response; the sequence timer is left alone, the
\* contactor timer is only started in PowerDelivery, and SupportedAppProtocol is
\* never entered again.
FedWell ==
    /\ \/ feed_result' = "Unhandled"
       \/ response'.code # "FAILED" /\ current_state' # "SupportedAppProtocol"
    /\ timeouts'["SEQUENCE"] = timeouts["SEQUENCE"]
    /\ \/ /\ timeouts'["CONTACTOR"] = timeouts["CONTACTOR"]
          /\ local'.previous_req \in {"None", local.previous_req}
       \/ feed_result' = "Unhandled" /\ current_state' = "PowerDelivery"
    /\ current_state' = "SupportedAppProtocol" => current_state = current_state'

\* A second SupportedAppProtocolReq is a sequence error.
ProtocolOnce ==
    request.type = "SupportedAppProtocolReq" /\ current_state # "SupportedAppProtocol"
        => session_stopped'

LEMMA UnexpectedFedWell ==
    ASSUME NEW m, NEW expected,
           UnexpectedRequest(m, expected) \/ StopOrSequenceError(m, expected)
    PROVE  FedWell /\ session_stopped'
BY DEF UnexpectedRequest, StopOrSequenceError, SequenceError, Stay, FedWell,
       quietVars

LEMMA GotoFedWell ==
    ASSUME NEW s \in StateIDs, NEW type, NEW code, Goto(s), response' = Res(type, code),
           code # "FAILED", s # "SupportedAppProtocol",
           timeouts'["SEQUENCE"] = timeouts["SEQUENCE"],
           timeouts'["CONTACTOR"] = timeouts["CONTACTOR"]
    PROVE  FedWell
BY EnteredMembers DEF Goto, Res, FedWell

LEMMA StayFedWell ==
    ASSUME NEW l, Stay(l), SameDecisions(l),
           timeouts'["SEQUENCE"] = timeouts["SEQUENCE"],
           timeouts'["CONTACTOR"] = timeouts["CONTACTOR"]
    PROVE  FedWell
BY DEF Stay, SameDecisions, FedWell

LEMMA RespondThenFedWell ==
    ASSUME D20TypeOK, NEW m, NEW code, NEW s \in StateIDs, RespondThen(m, code, s),
           s # "SupportedAppProtocol", timeouts' = timeouts
    PROVE  FedWell
BY GotoFedWell, StayFedWell, LocalsDecisions DEF RespondThen, D20TypeOK

LEMMA EarlyFedWell ==
    ASSUME D20TypeOK, NEW m,
           \/ SupportedAppProtocol_feed(m)
           \/ SessionSetup_feed(m)
           \/ AuthorizationSetup_feed(m)
           \/ ServiceDiscovery_feed(m)
           \/ ServiceDetail_feed(m)
           \/ ServiceSelection_feed(m)
    PROVE  FedWell
<1>. local \in Locals
  BY DEF D20TypeOK
<1>1. CASE SupportedAppProtocol_feed(m)
  BY <1>1, GotoFedWell, StayFedWell, LocalsDecisions
  DEF SupportedAppProtocol_feed, StateIDs, quietVars
<1>2. CASE SessionSetup_feed(m)
  <2>1. CASE SessionSetup_new(m)
    BY <2>1, RespondThenFedWell DEF SessionSetup_new, StateIDs
  <2>2. CASE SessionSetup_resume(m)
    <3>1. pause_ctx.selected \in {"AC", "DC", "None"}
      BY DEF D20TypeOK, PauseContextType, Services
    <3>. QED
      BY <2>2, <3>1, GotoFedWell, StayFedWell, LocalsDecisions
      DEF SessionSetup_resume, StateIDs
  <2>. QED BY <1>2, <2>1, <2>2, UnexpectedFedWell DEF SessionSetup_feed
<1>3. CASE AuthorizationSetup_feed(m) \/ ServiceDiscovery_feed(m)
  BY <1>3, RespondThenFedWell, UnexpectedFedWell
  DEF AuthorizationSetup_feed, ServiceDiscovery_feed, StateIDs
<1>4. CASE ServiceDetail_feed(m)
  BY <1>4, RespondThenFedWell, UnexpectedFedWell DEF ServiceDetail_feed, StateIDs
<1>5. CASE ServiceSelection_feed(m)
  BY <1>5, RespondThenFedWell, StayFedWell, LocalsDecisions, UnexpectedFedWell
  DEF ServiceSelection_feed, StateIDs
<1>. QED BY <1>1, <1>2, <1>3, <1>4, <1>5

LEMMA MiddleFedWell ==
    ASSUME D20TypeOK, NEW m,
           \/ Authorization_feed(m)
           \/ AC_ChargeParameterDiscovery_feed(m)
           \/ DC_ChargeParameterDiscovery_feed(m)
           \/ ScheduleExchange_feed(m)
           \/ DC_CableCheck_feed(m)
           \/ DC_PreCharge_feed(m)
    PROVE  FedWell
<1>. local \in Locals /\ timeouts \in [TimeoutTypes -> Deadlines]
  BY DEF D20TypeOK
<1>1. ASSUME NEW d \in Int
      PROVE  /\ start_timeout(timeouts, "ONGOING", d) \in [TimeoutTypes -> Deadlines]
             /\ \A x \in {"SEQUENCE", "CONTACTOR"} :
                   /\ stop_timeout(timeouts, "ONGOING")[x] = timeouts[x]
                   /\ start_timeout(timeouts, "ONGOING", d)[x] = timeouts[x]
                   /\ stop_timeout(start_timeout(timeouts, "ONGOING", d), "ONGOING")[x]
                         = timeouts[x]
  BY StartTimeout, StopTimeout, StartTimeoutType, TheTimeouts
<1>2. EIM_ONGOING_MS \in Int /\ ONGOING_MS \in Int
  BY DurationAssumption
<1>3. CASE Authorization_feed(m)
  <2>1. CASE \E x : StopOrSequenceError(m, x)
    BY <2>1, UnexpectedFedWell
  <2>2. CASE ~\E x : StopOrSequenceError(m, x)
    <3>1. /\ timeouts'["SEQUENCE"] = timeouts["SEQUENCE"]
          /\ timeouts'["CONTACTOR"] = timeouts["CONTACTOR"]
      BY <1>1, <1>2, <1>3, <2>2 DEF Authorization_feed
    <3>. QED
      BY <1>3, <2>2, <3>1, GotoFedWell, StayFedWell, LocalsDecisions
      DEF Authorization_feed, StateIDs
  <2>. QED BY <2>1, <2>2
<1>4. CASE AC_ChargeParameterDiscovery_feed(m) \/ DC_ChargeParameterDiscovery_feed(m)
  BY <1>4, RespondThenFedWell, UnexpectedFedWell
  DEF AC_ChargeParameterDiscovery_feed, DC_ChargeParameterDiscovery_feed, StateIDs,
      quietVars
<1>5. CASE ScheduleExchange_feed(m)
  <2>1. CASE \E x : StopOrSequenceError(m, x)
    BY <2>1, UnexpectedFedWell
  <2>2. CASE ~\E x : StopOrSequenceError(m, x)
    <3>1. /\ timeouts'["SEQUENCE"] = timeouts["SEQUENCE"]
          /\ timeouts'["CONTACTOR"] = timeouts["CONTACTOR"]
      BY <1>1, <1>2, <1>5, <2>2 DEF ScheduleExchange_feed
    <3>. QED
      BY <1>5, <2>2, <3>1, GotoFedWell, StayFedWell, LocalsDecisions
      DEF ScheduleExchange_feed, StateIDs
  <2>. QED BY <2>1, <2>2
<1>6. CASE DC_CableCheck_feed(m) \/ DC_PreCharge_feed(m)
  BY <1>6, GotoFedWell, StayFedWell, LocalsDecisions, UnexpectedFedWell
  DEF DC_CableCheck_feed, DC_PreCharge_feed, StateIDs
<1>. QED BY <1>3, <1>4, <1>5, <1>6

LEMMA LateFedWell ==
    ASSUME D20TypeOK, NEW m,
           \/ current_state = "PowerDelivery" /\ PowerDelivery_feed(m)
           \/ AC_ChargeLoop_feed(m)
           \/ DC_ChargeLoop_feed(m)
           \/ DC_WeldingDetection_feed(m)
           \/ SessionStop_feed(m)
    PROVE  FedWell
<1>. local \in Locals /\ timeouts \in [TimeoutTypes -> Deadlines]
  BY DEF D20TypeOK
<1>1. CASE current_state = "PowerDelivery" /\ PowerDelivery_feed(m)
  <2>1. CASE PowerDelivery_await(m)
    <3>1. timeouts'["SEQUENCE"] = timeouts["SEQUENCE"]
      BY <2>1, StartTimeout, TheTimeouts DEF PowerDelivery_await
    <3>2. feed_result' = "Unhandled" /\ current_state' = current_state
      BY <2>1 DEF PowerDelivery_await, Stay
    <3>. QED BY <1>1, <3>1, <3>2 DEF FedWell
  <2>2. CASE PowerDelivery_answer(m)
    BY <2>2, GotoFedWell, StayFedWell, LocalsDecisions
    DEF PowerDelivery_answer, StateIDs
  <2>3. CASE Stay(local) /\ UNCHANGED quietVars
    BY <2>3, StayFedWell, LocalsDecisions DEF quietVars
  <2>. QED BY <1>1, <2>1, <2>2, <2>3, UnexpectedFedWell DEF PowerDelivery_feed
<1>2. CASE AC_ChargeLoop_feed(m) \/ DC_ChargeLoop_feed(m)
  BY <1>2, GotoFedWell, StayFedWell, LocalsDecisions, UnexpectedFedWell
  DEF AC_ChargeLoop_feed, DC_ChargeLoop_feed, ChargeLoopEnd, ChargeLoopRequest, StateIDs
<1>3. CASE DC_WeldingDetection_feed(m) \/ SessionStop_feed(m)
  BY <1>3, GotoFedWell, StayFedWell, LocalsDecisions, UnexpectedFedWell
  DEF DC_WeldingDetection_feed, SessionStop_feed, EndSession, StateIDs, quietVars
<1>. QED BY <1>1, <1>2, <1>3

LEMMA FeedMessageFedWell == ASSUME D20TypeOK, FeedMessage PROVE FedWell
BY EarlyFedWell, MiddleFedWell, LateFedWell DEF FeedMessage

LEMMA FeedMessageProtocolOnce == ASSUME FeedMessage PROVE ProtocolOnce
<1>. SUFFICES ASSUME request.type = "SupportedAppProtocolReq",
                     current_state # "SupportedAppProtocol"
              PROVE  session_stopped'
  BY DEF ProtocolOnce
<1>1. CASE \E x : UnexpectedRequest(request, x) \/ StopOrSequenceError(request, x)
  BY <1>1, UnexpectedFedWell
<1>2. \E x : UnexpectedRequest(request, x) \/ StopOrSequenceError(request, x)
  BY DEF FeedMessage, SessionSetup_feed, SessionSetup_new, SessionSetup_resume,
         AuthorizationSetup_feed, Authorization_feed, ServiceDiscovery_feed,
         ServiceDetail_feed, ServiceSelection_feed, AC_ChargeParameterDiscovery_feed,
         DC_ChargeParameterDiscovery_feed, ScheduleExchange_feed, DC_CableCheck_feed,
         DC_PreCharge_feed, PowerDelivery_feed, PowerDelivery_await,
         PowerDelivery_answer, AC_ChargeLoop_feed, DC_ChargeLoop_feed, ChargeLoopEnd,
         DC_WeldingDetection_feed, SessionStop_feed, EndSession
<1>. QED BY <1>1, <1>2

-----------------------------------------------------------------------------
(* HealthInv is an invariant *)

LEMMA HealthInvInit == Init => HealthInv
<1>. SUFFICES ASSUME Init PROVE HealthInv
  OBVIOUS
<1>1. ~timeouts["SEQUENCE"].on /\ ~timeouts["CONTACTOR"].on
  BY TheTimeouts DEF Init, NoTimeouts, Off
<1>2. local.previous_req = "None"
  BY DEF Init, Constructed
<1>. QED
  BY <1>1, <1>2 DEF Init, HealthInv, FailureInv, ContactorInv, SequenceInv

\* Nothing is claimed of a session that is about to end.
LEMMA HealthInvFinishing == ASSUME Finishing' PROVE HealthInv'
BY DEF HealthInv, FailureInv, ContactorInv, SequenceInv

\* In the part of poll() before a request is fed, and after it was answered, a healthy
\* session has no response and waits for no contactor.
LEMMA HealthyAtRest ==
    ASSUME HealthInv, ~Finishing, pc \notin {"fed", "respond"}
    PROVE  /\ response = NoMessage
           /\ local.previous_req = "None"
           /\ ~timeouts["CONTACTOR"].on
BY DEF HealthInv, ContactorInv, SequenceInv, Unhandled

\* The steps that feed nothing to the state machine and start no timer.
LEMMA NoFeedHealthInv ==
    ASSUME HealthInv, ~Finishing, ~Finishing',
           UNCHANGED <<current_state, request>>,
           local'.previous_req = local.previous_req,
           timeouts'["SEQUENCE"].on => timeouts["SEQUENCE"].on,
           timeouts'["CONTACTOR"].on => timeouts["CONTACTOR"].on,
           pc # "fed", response' \in {response, NoMessage},
           response' # NoMessage => pc' = "respond"
    PROVE  HealthInv'
BY DEF HealthInv, FailureInv, ContactorInv, SequenceInv, Unhandled

LEMMA FeedHealthInv ==
    ASSUME TypeOK, HealthInv, Feed, ~Finishing, ~Finishing' PROVE HealthInv'
<1>1. FedWell /\ ProtocolOnce
  BY FeedMessageFedWell, FeedMessageProtocolOnce DEF Feed, TypeOK
<1>2. pc = "feed" /\ pc' = "fed" /\ request # NoMessage /\ request' = NoMessage
  BY DEF Feed, FeedMessage
<1>3. /\ response = NoMessage
      /\ local.previous_req = "None"
      /\ ~timeouts["CONTACTOR"].on
  BY <1>2, HealthyAtRest
<1>4. FailureInv' /\ ContactorInv'
  BY <1>1, <1>2, <1>3 DEF FedWell, FailureInv, ContactorInv, Unhandled
<1>5. ~timeouts["SEQUENCE"].on
  BY <1>1, <1>2 DEF ProtocolOnce, HealthInv, SequenceInv, Finishing
<1>6. SequenceInv'
  BY <1>1, <1>2, <1>5 DEF FedWell, SequenceInv, Unhandled
<1>. QED BY <1>4, <1>6 DEF HealthInv

LEMMA PopControlHealthInv ==
    ASSUME TypeOK, HealthInv, PopControl, ~Finishing, ~Finishing' PROVE HealthInv'
<1>. local \in Locals /\ timeouts \in [TimeoutTypes -> Deadlines]
  BY DEF TypeOK, D20TypeOK
<1>. DEFINE e == Head(queue)
<1>1. e \in ControlEvents /\ FeedControl(e) /\ pc = "control" /\ pc' = "control"
  BY DEF PopControl, TypeOK
<1>. HIDE DEF e
<1>2. response = NoMessage /\ local.previous_req = "None"
  BY <1>1, HealthyAtRest
<1>3. CASE current_state = "PowerDelivery" /\ e.kind = "ClosedContactor"
  <2>1. /\ Stay([local EXCEPT !.closed = TRUE])
        /\ UNCHANGED <<request, response>>
        /\ timeouts' = stop_timeout(timeouts, "CONTACTOR")
    BY <1>1, <1>2, <1>3 DEF FeedControl, ClosedContactor
  <2>2. timeouts'["SEQUENCE"] = timeouts["SEQUENCE"] /\ ~timeouts'["CONTACTOR"].on
    BY <2>1, StopTimeout, TheTimeouts
  <2>3. current_state' = current_state /\ local'.previous_req = local.previous_req
    BY <2>1, LocalsDecisions DEF Stay, SameDecisions
  <2>. QED BY <1>1, <1>2, <2>1, <2>2, <2>3, NoFeedHealthInv
<1>4. CASE ~(current_state = "PowerDelivery" /\ e.kind = "ClosedContactor")
  <2>1. /\ current_state' = current_state
        /\ local' = Applied(e)
        /\ UNCHANGED <<request, response, timeouts>>
    BY <1>1, <1>4 DEF FeedControl, Stay
  <2>. QED BY <1>1, <1>2, <2>1, AppliedDecisions, NoFeedHealthInv
<1>. QED BY <1>3, <1>4

LEMMA OtherTimeoutHealthInv ==
    ASSUME TypeOK, HealthInv, OtherTimeout, ~Finishing, ~Finishing' PROVE HealthInv'
<1>. local \in Locals
  BY DEF TypeOK, D20TypeOK
<1>1. PICK type : FeedTimeout(type)
  BY DEF OtherTimeout
<1>2. pc = "timeout" /\ pc' = "timeout_fed"
  BY DEF OtherTimeout
<1>3. response = NoMessage
  BY <1>2, HealthyAtRest
<1>4. /\ Stay(local) \/ Stay([local EXCEPT !.ongoing_reached = TRUE])
      /\ UNCHANGED <<request, response, timeouts>>
  BY <1>1 DEF FeedTimeout, Finishing, quietVars
<1>5. current_state' = current_state /\ local'.previous_req = local.previous_req
  BY <1>4, LocalsDecisions DEF Stay, SameDecisions
<1>. QED BY <1>2, <1>3, <1>4, <1>5, NoFeedHealthInv

LEMMA FinishingStays == ASSUME TypeOK, [Next]_vars, Finishing PROVE Finishing'
<1>. session_stopped \in BOOLEAN /\ session_paused \in BOOLEAN
  BY DEF TypeOK, D20TypeOK
<1>1. CASE \/ PopControl \/ ControlDone \/ SequenceTimeout \/ OtherTimeout
           \/ TimeoutFed \/ NoPacket \/ SetRequest \/ DecodeThrows \/ Feed
           \/ CheckFeedResult \/ NoResponse \/ Respond \/ ResponseDiscarded
           \/ RespondThrows
  BY <1>1, MiddleStepsStop
<1>2. CASE \/ EvConnect \/ (\E q \in EvRequests : EvSend(q))
           \/ (\E e \in AppEvents : Push(e)) \/ Tick \/ UNCHANGED vars
  <2>1. UNCHANGED sessionVars
    BY <1>2, Zenon DEF EvConnect, EvSend, Push, Tick, vars, d20Vars
  <2>. QED BY <2>1 DEF sessionVars, Finishing
<1>3. CASE PollStart \/ ReadThrows \/ PollEnd \/ DelayedClose
  BY <1>3
  DEF PollStart, ReadThrows, PollEnd, DelayedClose, Finishing, d20Vars, sessionVars
<1>4. CASE Close
  BY <1>4 DEF Close, Finishing
<1>. QED BY <1>1, <1>2, <1>3, <1>4 DEF Next, PollStep

LEMMA HealthInvNext ==
    TypeOK /\ ExchangeInv /\ HealthInv /\ [Next]_vars => HealthInv'
<1>. SUFFICES ASSUME TypeOK, ExchangeInv, HealthInv, [Next]_vars, ~Finishing'
              PROVE  HealthInv'
  BY HealthInvFinishing
<1>. timeouts \in [TimeoutTypes -> Deadlines]
  BY DEF TypeOK, D20TypeOK
<1>. ~Finishing
  BY FinishingStays
<1>. USE TheTimeouts
<1>1. CASE EvConnect \/ Tick
  <2>1. /\ UNCHANGED <<current_state, local, exchangeVars, pc>>
        /\ timeouts'["SEQUENCE"].on = timeouts["SEQUENCE"].on
        /\ timeouts'["CONTACTOR"].on = timeouts["CONTACTOR"].on
        /\ pc = "idle"
    BY <1>1, ElapsedTimers DEF EvConnect, Tick, fsmVars
  <2>. QED BY <2>1, HealthyAtRest, NoFeedHealthInv DEF exchangeVars
<1>2. CASE (\E q \in EvRequests : EvSend(q)) \/ (\E e \in AppEvents : Push(e))
  <2>1. UNCHANGED <<fsmVars, exchangeVars, timeouts, pc>> /\ pc \in {"idle", "control"}
    BY <1>2, Zenon DEF EvSend, Push, d20Vars
  <2>. QED BY <2>1, HealthyAtRest, NoFeedHealthInv DEF fsmVars, exchangeVars
<1>3. CASE UNCHANGED vars
  BY <1>3
  DEF vars, d20Vars, fsmVars, exchangeVars, sessionVars, HealthInv, FailureInv,
      ContactorInv, SequenceInv, Unhandled, Finishing
<1>4. CASE \/ PollStart \/ ReadThrows \/ ControlDone \/ NoPacket \/ DecodeThrows
           \/ PollEnd \/ DelayedClose
  <2>1. UNCHANGED <<fsmVars, exchangeVars, timeouts>> /\ pc \notin {"fed", "respond"}
    BY <1>4
    DEF PollStart, ReadThrows, ControlDone, NoPacket, DecodeThrows, PollEnd,
        DelayedClose, d20Vars
  <2>. QED BY <2>1, HealthyAtRest, NoFeedHealthInv DEF fsmVars, exchangeVars
<1>5. CASE PopControl
  BY <1>5, PopControlHealthInv
<1>6. CASE SequenceTimeout \/ Close
  BY <1>6 DEF SequenceTimeout, Close, Finishing
<1>7. CASE OtherTimeout
  BY <1>7, OtherTimeoutHealthInv
<1>8. CASE TimeoutFed
  <2>1. UNCHANGED <<fsmVars, exchangeVars>> /\ pc = "timeout_fed"
    BY <1>8 DEF TimeoutFed
  <2>2. /\ timeouts'["SEQUENCE"].on => timeouts["SEQUENCE"].on
        /\ timeouts'["CONTACTOR"].on => timeouts["CONTACTOR"].on
    BY <1>8, ResetTimers DEF TimeoutFed
  <2>. QED BY <2>1, <2>2, HealthyAtRest, NoFeedHealthInv DEF fsmVars, exchangeVars
<1>9. CASE SetRequest
  <2>1. /\ UNCHANGED <<fsmVars, response>>
        /\ request' = packet
        /\ pc = "timeout" /\ pc' = "feed"
    BY <1>9 DEF SetRequest
  <2>2. /\ response = NoMessage
        /\ local.previous_req = "None"
        /\ ~timeouts["CONTACTOR"].on
    BY <2>1, HealthyAtRest
  <2>3. /\ timeouts'["CONTACTOR"] = timeouts["CONTACTOR"]
        /\ timeouts'["SEQUENCE"].on =>
              timeouts["SEQUENCE"].on /\ packet.type = "SupportedAppProtocolReq"
    BY <1>9, StopTimeout DEF SetRequest
  <2>. QED
    BY <2>1, <2>2, <2>3
    DEF fsmVars, HealthInv, FailureInv, ContactorInv, SequenceInv
<1>10. CASE Feed
  BY <1>10, FeedHealthInv
<1>11. CASE CheckFeedResult
  <2>1. feed_result # "Unhandled" /\ pc = "fed" /\ pc' = "respond"
    BY <1>11 DEF CheckFeedResult, Finishing
  <2>2. UNCHANGED <<fsmVars, exchangeVars, timeouts>>
    BY <1>11 DEF CheckFeedResult
  <2>. QED
    BY <2>1, <2>2
    DEF fsmVars, exchangeVars, HealthInv, FailureInv, ContactorInv, SequenceInv,
        Unhandled
<1>12. CASE NoResponse \/ ResponseDiscarded \/ RespondThrows
  <2>1. UNCHANGED <<fsmVars, request, timeouts>> /\ response' = NoMessage /\ pc # "fed"
    BY <1>12
    DEF NoResponse, ResponseDiscarded, RespondThrows, d20Vars, exchangeVars
  <2>. QED BY <2>1, NoFeedHealthInv DEF fsmVars
<1>13. CASE Respond
  <2>1. /\ UNCHANGED <<fsmVars, request>>
        /\ response' = NoMessage
        /\ pc = "respond"
        /\ request = NoMessage
        /\ timeouts'["CONTACTOR"] = timeouts["CONTACTOR"]
    BY <1>13, StartTimeout DEF Respond, ExchangeInv, ExchangeEmptied
  <2>2. current_state # "SupportedAppProtocol"
    BY <1>13, <2>1 DEF Respond, HealthInv, SequenceInv, Unhandled
  <2>. QED
    BY <2>1, <2>2
    DEF fsmVars, HealthInv, FailureInv, ContactorInv, SequenceInv, Unhandled
<1>. QED
  BY <1>1, <1>2, <1>3, <1>4, <1>5, <1>6, <1>7, <1>8, <1>9, <1>10, <1>11, <1>12, <1>13
  DEF Next, PollStep

LEMMA HealthInvCorrect == Spec => []HealthInv
<1>1. Init => HealthInv /\ ExchangeInv
  BY HealthInvInit DEF Init, ExchangeInv, ExchangeEmptied
<1>2. ExchangeInv /\ [Next]_vars => ExchangeInv'
  BY ExchangeInvNext
<1>3. TypeOK /\ ExchangeInv /\ HealthInv /\ [Next]_vars => HealthInv'
  BY HealthInvNext
<1>. QED BY <1>1, <1>2, <1>3, TypeCorrectness, PTL DEF Spec

\* A negative response is the last one of a session: whichever handler, event or
\* timeout gave it, the session is stopped or paused when poll() sends it.
THEOREM FailureIsTheEnd == Spec => []FailureEndsSession
<1>1. HealthInv => FailureEndsSession
  BY DEF HealthInv, FailureInv, FailureEndsSession, Unhandled
<1>. QED BY <1>1, HealthInvCorrect, PTL

\* Outside PowerDelivery the contactor timer only runs in a session that ends anyway.
THEOREM ContactorTimerIsScoped == Spec => []ContactorTimerScoped
<1>1. HealthInv => ContactorTimerScoped
  BY DEF HealthInv, ContactorInv, ContactorTimerScoped
<1>. QED BY <1>1, HealthInvCorrect, PTL

\* Every response starts the sequence timer anew with its full time: no path through
\* poll() leaves an older deadline running, which start_timeout would keep.
THEOREM SequenceIsRestarted == Spec => SequenceRestarted
<1>1. ASSUME TypeOK, HealthInv, Respond, ~Finishing
      PROVE  timeouts'["SEQUENCE"] = Running(SEQUENCE_MS)
  <2>1. ~timeouts["SEQUENCE"].on
    BY <1>1 DEF HealthInv, SequenceInv, Respond, Unhandled
  <2>. QED
    BY <1>1, <2>1, TheTimeouts DEF Respond, start_timeout, TypeOK, D20TypeOK
<1>2. TypeOK /\ HealthInv
        => [Respond /\ ~Finishing => timeouts'["SEQUENCE"] = Running(SEQUENCE_MS)]_vars
  BY <1>1
<1>. QED
  BY <1>2, TypeCorrectness, HealthInvCorrect, PTL DEF SequenceRestarted

=============================================================================
