--------------------------- MODULE TbdController ---------------------------
(***************************************************************************)
(* iso15118::TbdController: the event loop with its SDP server, which      *)
(* makes one session after the other and drives each with poll().  The     *)
(* pause context and the configuration outlive the sessions.               *)
(***************************************************************************)
EXTENDS IsoSession

CONSTANTS
    Updates,            \* the events of update_energy_modes and
                        \* update_supported_vas_services
    MaxSessions         \* bound: sessions made by the controller

ASSUME ControllerAssumption ==
    /\ \A e \in Updates :
          e \in ControlEvents /\ e.kind \in {"EnergyServices", "SupportedVASs"}
    /\ MaxSessions \in Nat \ {0}

VARIABLES
    alive,              \* TbdController::session is not null
    evse_services,      \* evse_setup.supported_energy_services, _vas_services
    made,               \* history: how many sessions were made
    paused              \* history: <<vehicle, session id, service>> when paused

controllerVars == <<alive, evse_services, made, paused>>
tbdVars == <<vars, controllerVars>>

\* A new controller remembers no paused session.
TbdInit ==
    /\ Init
    /\ pause_ctx = NoPause
    /\ alive = FALSE
    /\ evse_services = InitialServices
    /\ made = 0
    /\ paused = {}

\* handle_sdp_server_input: an SDP request makes a session, and waits for the EV to
\* connect, unless there is a session.  The objects of the old one are gone.
HandleSdp ==
    /\ ~alive
    /\ made < MaxSessions
    /\ alive' = TRUE
    /\ made' = made + 1
    /\ current_state' = "SupportedAppProtocol"
    /\ local' = Constructed("SupportedAppProtocol")
    /\ feed_result' = "None"
    /\ request' = NoMessage
    /\ response' = NoMessage
    /\ timeouts' = NoTimeouts
    /\ session' = NewSession(next_id)
    /\ next_id' = next_id + 1
    /\ session_stopped' = FALSE
    /\ session_paused' = FALSE
    /\ cert' = NoCert
    /\ cache' = [dynamic |-> NoValue, target |-> NoValue, present |-> NoValue]
    /\ services' = evse_services
    /\ signals' = {}
    /\ approvals' = {}
    /\ pc' = "idle"
    /\ connected' = "no"
    /\ new_data' = FALSE
    /\ inbox' = <<>>
    /\ packet' = NoMessage
    /\ queue' = <<>>
    /\ pending' = {}
    /\ active_timeout' = "None"
    /\ delayed_close' = Off
    /\ dlink' = <<>>
    /\ owed' = <<>>
    /\ UNCHANGED <<pause_ctx, evse_services, paused>>

\* send_control_event; without a session the event is dropped.
SendControlEvent(e) ==
    /\ alive
    /\ Push(e)
    /\ UNCHANGED controllerVars

\* update_energy_modes and update_supported_vas_services: for the running session
\* and for those to come.
UpdateServices(e) ==
    /\ evse_services' = Configured(evse_services, e)
    /\ IF alive THEN Push(e) ELSE UNCHANGED vars
    /\ UNCHANGED <<alive, made, paused>>

\* What happens to a session from the outside.
Environment ==
    /\ alive
    /\ EvConnect \/ (\E q \in EvRequests : EvSend(q)) \/ Tick
    /\ UNCHANGED controllerVars

\* The steps of poll() that do not return.
Polling ==
    /\ alive
    /\ \/ PollStart \/ ReadThrows \/ PopControl \/ ControlDone
       \/ SequenceTimeout \/ OtherTimeout \/ TimeoutFed
       \/ NoPacket \/ SetRequest \/ DecodeThrows \/ Feed \/ CheckFeedResult
       \/ NoResponse \/ Respond \/ ResponseDiscarded \/ RespondThrows
    /\ paused' = IF session_paused' /\ ~session_paused
                 THEN paused \cup {<<cert, session.id, session.selected>>}
                 ELSE paused
    /\ UNCHANGED <<alive, evse_services, made>>

\* poll() returns, or throws and is followed by close(); then the loop destroys a
\* session that is finished.
PollReturns ==
    /\ alive
    /\ PollEnd \/ DelayedClose \/ Close
    /\ alive' = ~(session_stopped' \/ session_paused')
    /\ UNCHANGED <<evse_services, made, paused>>

TbdNext ==
    \/ HandleSdp
    \/ \E e \in AppEvents : SendControlEvent(e)
    \/ \E e \in Updates : UpdateServices(e)
    \/ Environment
    \/ Polling
    \/ PollReturns

TbdSpec == TbdInit /\ [][TbdNext]_tbdVars

\* loop() never ends; see IsoSession for the other two.
TbdFairness ==
    /\ WF_tbdVars(Polling \/ PollReturns)
    /\ SF_tbdVars(Polling /\ ControlDone)
    /\ SF_tbdVars(Environment /\ Tick)

FairTbdSpec == TbdSpec /\ TbdFairness

-----------------------------------------------------------------------------
(* Properties *)

\* A vehicle that resumes goes on with the service with which it paused the session
\* it names, so a session that is charged without a new authorization was
\* authorized and agreed on earlier, with the same vehicle.  The one exception: a
\* vehicle without certificate that pauses writes its service into the pause context
\* it found, and the owner of that context goes on with this service.
ResumedAsPaused ==
    "resumed" \in approvals /\ session.selected # "None"
        => \E p \in paused :
              /\ p[3] = session.selected
              /\ p[1] = NoCert \/ (p[1] = cert /\ p[2] = session.id)

\* Every session does what ChargingSession promises, see there, from its very beginning:
\* nothing of an earlier session, whenever it was destroyed and whatever it had been
\* allowed, is left in the new one.
EverySessionKeepsPromise ==
    /\ Charging!PromiseInit
    /\ [][IF made' # made
          THEN Charging!PromiseInit'
          ELSE Charging!PromiseNext \/ UNCHANGED Charging!promiseVars]_tbdVars

\* A session never keeps the controller from serving the next vehicle: once it got
\* past SupportedAppProtocol it is destroyed at last, whatever the EV does.
ControllerFreed == alive /\ current_state # "SupportedAppProtocol" ~> ~alive

\* iso.hpp: the data link is released, with a close 5 seconds after the session was
\* stopped or paused.  So no session is destroyed without it.
DlinkBeforeDestruction == [][alive /\ ~alive' => dlink' # <<>>]_tbdVars

=============================================================================
