----------------------------- MODULE IsoSession -----------------------------
(***************************************************************************)
(* iso15118::Session: one connection of an EV, driven by poll().           *)
(*                                                                         *)
(* poll() is a sequence of steps in one thread, so `pc` says where in it   *)
(* the thread is; "idle" is between two calls.  The connection callbacks   *)
(* run in the same thread between two calls of poll(); the application     *)
(* pushes control events from another thread.  A push commutes with every  *)
(* step of poll() but the pops, so it is placed before poll() or between   *)
(* two pops.  Time passes between two calls of poll().                     *)
(*                                                                         *)
(* Two threads are left to their environment: the EV, which sends any      *)
(* request it likes and may fall silent, and the application.              *)
(***************************************************************************)
EXTENDS D20States, Sequences

CONSTANTS
    EvRequests,         \* the requests of the EV: [type, sid, arg], sid a tag
    AppEvents,          \* the control events of the application
    PauseContexts,      \* what earlier sessions can have left in pause_ctx
    InitialServices,    \* the services configured at the start
    Certs,              \* the certificate of the vehicle, or NoCert
    Unencodable,        \* requests whose response the EXI encoder may refuse
    CLOSE_MS,           \* the 5000 ms of the delayed close
    MaxOutstanding,     \* bound: requests sent and not yet answered
    MaxQueue            \* bound: control events waiting in the queue

ASSUME CloseAssumption == CLOSE_MS \in Nat \ {0}

ASSUME BoundAssumption == MaxOutstanding \in Nat \ {0} /\ MaxQueue \in Nat

\* A session id is drawn at random: 1 is the id an earlier pause context remembers,
\* 2 the id of the session the Context is constructed with.
ASSUME EnvironmentAssumption ==
    /\ EvRequests \subseteq
          UNION {[type : {type}, sid : {"zero", "own", "paused"}, arg : Args[type]] :
                    type \in MessageTypes}
    /\ AppEvents \subseteq ControlEvents
    /\ PauseContexts \subseteq
          {NoPause} \cup [set : {TRUE}, vehicle : Vehicles, id : {1},
                          selected : Services \cup {"None"}]
    /\ InitialServices \subseteq Offerable
    /\ Certs \subseteq Vehicles \cup {NoCert}
    /\ Unencodable \subseteq MessageTypes

VARIABLES
    pc,                 \* where poll() is
    connected,          \* SessionState::connected; "closed" after close()
    new_data,           \* SessionState::new_data
    inbox,              \* complete packets in the receive buffer of the socket
    packet,             \* Session::packet once it is complete
    queue,              \* ControlEventQueue
    pending,            \* what timeouts.check() returned and is not delivered yet
    active_timeout,     \* Context::current_timeout
    delayed_close,      \* Session::delayed_close_at
    dlink,              \* the DLINK_* signals given, in order
    owed                \* history: the requests the EV still has no answer to

ioVars == <<connected, new_data, inbox, packet, owed>>
pollVars == <<queue, pending, active_timeout, delayed_close, dlink>>
vars == <<d20Vars, pc, ioVars, pollVars>>

Finishing == session_stopped \/ session_paused

Init ==
    /\ current_state = "SupportedAppProtocol"
    /\ local = Constructed("SupportedAppProtocol")
    /\ feed_result = "None"
    /\ request = NoMessage
    /\ response = NoMessage
    /\ timeouts = NoTimeouts
    /\ session = NewSession(2)
    /\ session_stopped = FALSE
    /\ session_paused = FALSE
    /\ pause_ctx \in PauseContexts
    /\ cert = NoCert
    /\ cache = [dynamic |-> NoValue, target |-> NoValue, present |-> NoValue]
    /\ services = InitialServices
    /\ signals = {}
    /\ next_id = 3
    /\ approvals = {}
    /\ pc = "idle"
    /\ connected = "no"
    /\ new_data = FALSE
    /\ inbox = <<>>
    /\ packet = NoMessage
    /\ queue = <<>>
    /\ pending = {}
    /\ active_timeout = "None"
    /\ delayed_close = Off
    /\ dlink = <<>>
    /\ owed = <<>>

-----------------------------------------------------------------------------
(* The environment *)

\* handle_connection_event(ACCEPTED), then OPEN: a TLS connection may bring the
\* certificate of the vehicle.
EvConnect ==
    /\ pc = "idle"
    /\ connected = "no"
    /\ connected' = "yes"
    /\ cert' \in Certs
    /\ UNCHANGED <<fsmVars, exchangeVars, sessionVars, timeouts, signals,
                   pause_ctx, cache, services, approvals,
                   pc, new_data, inbox, packet, owed, pollVars>>

\* An id that is neither the current nor the paused one is refused just like 0.
SessionId(tag) ==
    CASE tag = "zero"   -> 0
      [] tag = "own"    -> session.id
      [] tag = "paused" -> pause_ctx.id

\* The EV sends a request; handle_connection_event(NEW_DATA).
EvSend(q) ==
    /\ pc = "idle"
    /\ connected = "yes"
    /\ Len(owed) < MaxOutstanding
    /\ inbox' = Append(inbox, [q EXCEPT !.sid = SessionId(q.sid)])
    /\ new_data' = TRUE
    /\ owed' = Append(owed, q.type)
    /\ UNCHANGED <<d20Vars, pc, connected, packet, pollVars>>

\* push_control_event
Push(e) ==
    /\ pc \in {"idle", "control"}
    /\ Len(queue) < MaxQueue
    /\ queue' = Append(queue, e)
    /\ UNCHANGED <<d20Vars, pc, ioVars, pending, active_timeout, delayed_close,
                   dlink>>

Tick ==
    /\ pc = "idle"
    /\ timeouts' = ElapseAll(timeouts)
    /\ delayed_close' = Elapse(delayed_close)
    /\ UNCHANGED <<fsmVars, exchangeVars, sessionVars, contextVars, signals, pc,
                   ioVars, queue, pending, active_timeout, dlink>>

-----------------------------------------------------------------------------
(* poll() *)

\* Without a connection poll() returns at once.  A read that does not fill the
\* packet would block; only then is new_data cleared.
PollStart ==
    /\ pc = "idle"
    /\ connected = "yes"
    /\ \/ /\ new_data
          /\ inbox # <<>>
          /\ packet' = Head(inbox)
          /\ inbox' = Tail(inbox)
          /\ UNCHANGED new_data
       \/ /\ new_data
          /\ inbox = <<>>
          /\ new_data' = FALSE
          /\ UNCHANGED <<packet, inbox>>
       \/ /\ ~new_data
          /\ UNCHANGED <<new_data, packet, inbox>>
    /\ pc' = "control"
    /\ UNCHANGED <<d20Vars, connected, owed, pollVars>>

\* connection->read throws: a TLS connection (which may come without a vehicle
\* certificate) that broke or was closed by the peer.
ReadThrows ==
    /\ pc = "idle"
    /\ connected = "yes"
    /\ new_data
    /\ pc' = "thrown"
    /\ UNCHANGED <<d20Vars, ioVars, pollVars>>

\* The events that may come before the state that uses them are cached.
Cached(e) ==
    CASE e.kind = "UpdateDynamicModeParameters" -> [cache EXCEPT !.dynamic = e.val]
      [] e.kind = "AcTargetPower"               -> [cache EXCEPT !.target = e.val]
      [] e.kind = "AcPresentPower"              -> [cache EXCEPT !.present = e.val]
      [] OTHER                                  -> cache

Configured(configured, e) ==
    CASE e.kind = "EnergyServices" -> e.val \cup (configured \ Services)
      [] e.kind = "SupportedVASs"  -> e.val \cup (configured \cap Services)
      [] OTHER                     -> configured

PopControl ==
    /\ pc = "control"
    /\ queue # <<>>
    /\ LET e == Head(queue)
       IN /\ cache' = Cached(e)
          /\ services' = Configured(services, e)
          /\ FeedControl(e)
    /\ queue' = Tail(queue)
    /\ UNCHANGED <<pc, ioVars, pending, active_timeout, delayed_close, dlink>>

ControlDone ==
    /\ pc = "control"
    /\ queue = <<>>
    /\ pending' = check(timeouts)
    /\ pc' = "timeout"
    /\ UNCHANGED <<d20Vars, ioVars, queue, active_timeout, delayed_close, dlink>>

\* "break": the timeouts behind a SEQUENCE timeout are not delivered, and
\* SEQUENCE itself is not reset.
SequenceTimeout ==
    /\ pc = "timeout"
    /\ pending # {}
    /\ Earliest(timeouts, pending) = "SEQUENCE"
    /\ session_stopped' = TRUE
    /\ pending' = {}
    /\ UNCHANGED <<fsmVars, exchangeVars, contextVars, timeouts, signals, session,
                   session_paused, next_id, pc, ioVars, queue, active_timeout,
                   delayed_close, dlink>>

OtherTimeout ==
    /\ pc = "timeout"
    /\ pending # {}
    /\ LET type == Earliest(timeouts, pending)
       IN /\ type # "SEQUENCE"
          /\ active_timeout' = type
          /\ pending' = pending \ {type}
          /\ FeedTimeout(type)
    /\ pc' = "timeout_fed"
    /\ UNCHANGED <<ioVars, queue, delayed_close, dlink>>

TimeoutFed ==
    /\ pc = "timeout_fed"
    /\ session_stopped' = (session_stopped \/ feed_result = "Unhandled")
    /\ timeouts' = reset_timeout(timeouts, active_timeout)
    /\ pc' = "timeout"
    /\ UNCHANGED <<fsmVars, exchangeVars, contextVars, signals, session,
                   session_paused, next_id, ioVars, pollVars>>

\* Mutant: poll() returns at once when there is no packet.
NoPacket_returns ==
    /\ pc = "timeout"
    /\ pending = {}
    /\ packet = NoMessage
    /\ pc' = "idle"
    /\ UNCHANGED <<d20Vars, ioVars, pollVars>>

NoPacket ==
    /\ pc = "timeout"
    /\ pending = {}
    /\ packet = NoMessage
    /\ pc' = "respond"
    /\ UNCHANGED <<d20Vars, ioVars, pollVars>>

\* Mutant: the sequence timer runs on while a request is handled.
SetRequest_running ==
    /\ pc = "timeout"
    /\ pending = {}
    /\ packet # NoMessage
    /\ request = NoMessage
    /\ request' = packet
    /\ packet' = NoMessage
    /\ pc' = "feed"
    /\ UNCHANGED <<fsmVars, response, sessionVars, contextVars, signals, connected,
                   new_data, inbox, owed, pollVars, timeouts>>

\* set_request throws when the previous request was never pulled.  There is no
\* sequence timer before SupportedAppProtocol.
SetRequest ==
    /\ pc = "timeout"
    /\ pending = {}
    /\ packet # NoMessage
    /\ request = NoMessage
    /\ request' = packet
    /\ packet' = NoMessage
    /\ timeouts' = IF packet.type = "SupportedAppProtocolReq" THEN timeouts
                   ELSE stop_timeout(timeouts, "SEQUENCE")
    /\ pc' = "feed"
    /\ UNCHANGED <<fsmVars, response, sessionVars, contextVars, signals, connected,
                   new_data, inbox, owed, pollVars>>

\* make_variant_from_packet throws: the packet is not reset, nothing is fed.
DecodeThrows ==
    /\ pc = "timeout"
    /\ pending = {}
    /\ packet # NoMessage
    /\ packet.type \in {"ScheduleExchangeReq", "PowerDeliveryReq"}
    /\ pc' = "thrown"
    /\ UNCHANGED <<d20Vars, ioVars, pollVars>>

Feed ==
    /\ pc = "feed"
    /\ FeedMessage
    /\ pc' = "fed"
    /\ UNCHANGED <<ioVars, pollVars>>

\* Mutant: the result of the feed is ignored, as it is for control events.
CheckFeedResult_ignored ==
    /\ pc = "fed"
    /\ pc' = "respond"
    /\ UNCHANGED <<d20Vars, ioVars, pollVars>>

CheckFeedResult ==
    /\ pc = "fed"
    /\ session_stopped' = (session_stopped \/ feed_result = "Unhandled")
    /\ pc' = "respond"
    /\ UNCHANGED <<fsmVars, exchangeVars, contextVars, timeouts, signals, session,
                   session_paused, next_id, ioVars, pollVars>>

NoResponse ==
    /\ pc = "respond"
    /\ response = NoMessage
    /\ pc' = "finish"
    /\ UNCHANGED <<d20Vars, ioVars, pollVars>>

\* Mutant: the response stays available after it was sent.
Respond_uncleared ==
    /\ pc = "respond"
    /\ response # NoMessage
    /\ timeouts' = start_timeout(timeouts, "SEQUENCE", SEQUENCE_MS)
    /\ owed' = IF owed = <<>> THEN owed ELSE Tail(owed)
    /\ pc' = "finish"
    /\ UNCHANGED <<fsmVars, exchangeVars, sessionVars, contextVars, signals,
                   connected, new_data, inbox, packet, pollVars>>

\* Mutant: the sequence timer is not started.
Respond_untimed ==
    /\ pc = "respond"
    /\ response # NoMessage
    /\ response' = NoMessage
    /\ owed' = IF owed = <<>> THEN owed ELSE Tail(owed)
    /\ pc' = "finish"
    /\ UNCHANGED <<fsmVars, request, sessionVars, contextVars, signals, connected,
                   new_data, inbox, packet, pollVars, timeouts>>

Respond ==
    /\ pc = "respond"
    /\ response # NoMessage
    /\ response' = NoMessage
    /\ timeouts' = start_timeout(timeouts, "SEQUENCE", SEQUENCE_MS)
    /\ owed' = IF owed = <<>> THEN owed ELSE Tail(owed)
    /\ pc' = "finish"
    /\ UNCHANGED <<fsmVars, request, sessionVars, contextVars, signals, connected,
                   new_data, inbox, packet, pollVars>>

\* set_response could not encode the message: no response is available, also not
\* one set before it in the same poll().  The EV gets no answer and the sequence
\* timer, stopped by set_request, is not started again.
ResponseDiscarded ==
    /\ pc = "respond"
    /\ response # NoMessage
    /\ response.type \in Unencodable
    /\ response' = NoMessage
    /\ pc' = "finish"
    /\ UNCHANGED <<fsmVars, request, sessionVars, contextVars, timeouts, signals,
                   ioVars, pollVars>>

\* connection->write throws: the peer is gone, or the write was not complete.
RespondThrows ==
    /\ pc = "respond"
    /\ response # NoMessage
    /\ response' = NoMessage
    /\ pc' = "thrown"
    /\ UNCHANGED <<fsmVars, request, sessionVars, contextVars, timeouts, signals,
                   ioVars, pollVars>>

\* The event loop catches the error and calls Session::close.
Close ==
    /\ pc = "thrown"
    /\ connected' = "closed"
    /\ dlink' = Append(dlink, "DLINK_TERMINATE")
    /\ session_stopped' = TRUE
    /\ pc' = "idle"
    /\ UNCHANGED <<fsmVars, exchangeVars, contextVars, timeouts, signals, session,
                   session_paused, next_id, new_data, inbox, packet, owed, queue,
                   pending, active_timeout, delayed_close>>

\* Mutant: every poll() schedules the close anew.
PollEnd_postpones ==
    /\ pc = "finish"
    /\ ~(Finishing /\ delayed_close.on /\ delayed_close.left <= 0)
    /\ delayed_close' = IF Finishing THEN Running(CLOSE_MS) ELSE delayed_close
    /\ pc' = "idle"
    /\ UNCHANGED <<d20Vars, ioVars, queue, pending, active_timeout, dlink>>

\* The connection is closed CLOSE_MS after the first poll() that finds the
\* session stopped or paused; until then poll() works on as before.
PollEnd ==
    /\ pc = "finish"
    /\ ~(Finishing /\ delayed_close.on /\ delayed_close.left <= 0)
    /\ delayed_close' = IF Finishing /\ ~delayed_close.on
                        THEN Running(CLOSE_MS) ELSE delayed_close
    /\ pc' = "idle"
    /\ UNCHANGED <<d20Vars, ioVars, queue, pending, active_timeout, dlink>>

\* Mutant: the CLOSED event does not reach the session.
DelayedClose_unnoticed ==
    /\ pc = "finish"
    /\ Finishing
    /\ delayed_close.on
    /\ delayed_close.left <= 0
    /\ delayed_close' = Off
    /\ dlink' = Append(dlink, IF session_paused THEN "DLINK_PAUSE"
                              ELSE "DLINK_TERMINATE")
    /\ pc' = "idle"
    /\ UNCHANGED <<d20Vars, ioVars, queue, pending, active_timeout>>

DelayedClose ==
    /\ pc = "finish"
    /\ Finishing
    /\ delayed_close.on
    /\ delayed_close.left <= 0
    /\ connected' = "closed"
    /\ delayed_close' = Off
    /\ dlink' = Append(dlink, IF session_paused THEN "DLINK_PAUSE"
                              ELSE "DLINK_TERMINATE")
    /\ pc' = "idle"
    /\ UNCHANGED <<d20Vars, new_data, inbox, packet, owed, queue, pending,
                   active_timeout>>

-----------------------------------------------------------------------------

PollStep ==
    \/ PollStart \/ ReadThrows \/ PopControl \/ ControlDone
    \/ SequenceTimeout \/ OtherTimeout \/ TimeoutFed
    \/ NoPacket \/ SetRequest \/ DecodeThrows \/ Feed \/ CheckFeedResult
    \/ NoResponse \/ Respond \/ ResponseDiscarded \/ RespondThrows \/ Close
    \/ PollEnd \/ DelayedClose

Next ==
    \/ EvConnect
    \/ \E q \in EvRequests : EvSend(q)
    \/ \E e \in AppEvents : Push(e)
    \/ Tick
    \/ PollStep

Spec == Init /\ [][Next]_vars

\* The event loop calls poll() again and again, time passes between the calls, and
\* the application does not push events so fast that poll() never empties the queue.
Fairness == WF_vars(PollStep) /\ SF_vars(ControlDone) /\ SF_vars(Tick)

FairSpec == Spec /\ Fairness

-----------------------------------------------------------------------------
(* Properties *)

PCs == {"idle", "control", "timeout", "timeout_fed", "feed", "fed", "respond",
        "finish", "thrown"}

\* The type of every variable.
TypeOK ==
    /\ D20TypeOK
    /\ pc \in PCs
    /\ connected \in {"no", "yes", "closed"}
    /\ new_data \in BOOLEAN
    /\ inbox \in Seq(Messages)
    /\ packet \in Messages \cup {NoMessage}
    /\ queue \in Seq(ControlEvents)
    /\ pending \in SUBSET TimeoutTypes
    /\ active_timeout \in TimeoutTypes \cup {"None"}
    /\ delayed_close \in Deadlines
    /\ dlink \in Seq({"DLINK_PAUSE", "DLINK_TERMINATE"})
    /\ owed \in Seq(MessageTypes)

\* Nothing is left in the message exchange between two calls of poll(): a request
\* is pulled in the poll() that set it, so that set_request cannot throw in the
\* next one, and a response is never held back to be sent for a later request.
\* Only an error that ends the session leaves a packet or a response behind.
ExchangeEmptied ==
    /\ request # NoMessage => pc = "feed"
    /\ packet # NoMessage =>
          pc \in {"control", "timeout", "timeout_fed", "thrown"} \/ connected = "closed"
    /\ response # NoMessage =>
          \/ pc \in {"control", "timeout", "timeout_fed", "feed", "fed", "respond",
                     "thrown"}
          \/ connected = "closed"

\* Whatever the order of parameter updates and requests, the states that report
\* them work with the latest parameters taken from the queue.
LatestParameters ==
    /\ current_state \in ChargeLoops => local.dynamic = cache.dynamic
    /\ current_state = "AC_ChargeLoop" => local.target = cache.target
    /\ current_state \in {"AC_ChargeLoop", "AC_ChargeParameterDiscovery"} =>
          local.present = cache.present

\* An EV gets past Authorization only when the last answer of the application in
\* that state was positive, or when it resumes a paused session.
AuthorizedOrResumed ==
    current_state \notin {"SupportedAppProtocol", "SessionSetup",
                          "AuthorizationSetup", "Authorization"}
        => approvals \cap {"authorized", "resumed"} # {}

\* A DC session is only energised after a positive cable check of this session,
\* also when it was resumed.
CableChecked ==
    (\/ current_state \in {"DC_PreCharge", "DC_ChargeLoop", "DC_WeldingDetection"}
     \/ current_state = "PowerDelivery" /\ session.selected = "DC")
        => "cable_checked" \in approvals

\* The states of one charging technology are only reached with that service
\* selected, so the branches of ScheduleExchange and PowerDelivery for an unknown
\* service are dead; and a service is only selected out of what was offered with
\* its parameters in this session, or taken over from a paused one.
ServiceAgreed ==
    /\ current_state \in {"AC_ChargeParameterDiscovery", "AC_ChargeLoop"}
          => session.selected = "AC"
    /\ current_state \in {"DC_ChargeParameterDiscovery", "DC_CableCheck",
                          "DC_PreCharge", "DC_ChargeLoop", "DC_WeldingDetection"}
          => session.selected = "DC"
    /\ current_state \in {"ScheduleExchange", "PowerDelivery", "SessionStop"}
          => session.selected \in Services
    /\ session.selected # "None" =>
          \/ session.selected \in session.offered \cap session.detailed
          \/ "resumed" \in approvals

\* The ongoing timer never outlives the state that started it, where it would be
\* delivered to a state that does not expect it and stop the session.
OngoingTimerScoped ==
    timeouts["ONGOING"].on => current_state \in {"Authorization", "ScheduleExchange"}

\* How many of the unanswered requests poll() has taken out of the receive buffer;
\* the last of these is owed[Taken].
Taken == Len(owed) - Len(inbox)

\* The response to the last request taken could not be encoded.
Unanswerable == Taken > 0 /\ owed[Taken] \in Unencodable

\* A silent EV is noticed: between two polls a session that is past
\* SupportedAppProtocol and not finishing has its sequence timer running, unless
\* the response to the last request was discarded: then nothing watches it.
SequenceSupervised ==
    pc = "idle" /\ connected = "yes" /\ ~Finishing /\ ~Unanswerable
        => (timeouts["SEQUENCE"].on <=> current_state # "SupportedAppProtocol")

\* The EV always has the full sequence time after a response: start_timeout does
\* nothing when the timer is still running, so it must have been stopped before.
SequenceRestarted ==
    [][Respond /\ ~Finishing => timeouts'["SEQUENCE"] = Running(SEQUENCE_MS)]_vars

\* A negative response is always the last one of the session: when it is sent
\* the session is already stopped or paused.
FailureEndsSession ==
    pc = "respond" /\ response # NoMessage /\ response.code = "FAILED" => Finishing

\* A session that has to end has its delayed close scheduled before poll()
\* returns, whichever of its steps stopped or paused it.
CloseScheduled ==
    pc = "idle" /\ connected = "yes" => (delayed_close.on <=> Finishing)

\* The data link is released exactly once, when the connection is closed, by the
\* delayed close or by Session::close; and as paused only for a paused session.
DlinkOnce ==
    /\ Len(dlink) = IF connected = "closed" THEN 1 ELSE 0
    /\ dlink = <<"DLINK_PAUSE">> => session_paused

\* The pause context a vehicle with a certificate leaves behind is its own and
\* that of its current session, whatever was stored before.
PauseContextOwn ==
    (/\ cert # NoCert
     /\ current_state \notin {"SupportedAppProtocol", "SessionSetup"}
     /\ pause_ctx.set)
        => pause_ctx.vehicle = cert /\ pause_ctx.id = session.id

\* A PowerDeliveryReq that waits for the contactor is never forgotten: as long as an
\* EV that sends one request at a time waits for the answer to it, the contactor timer
\* runs and will answer it, unless the answer was given and could not be encoded.
ContactorAwaited ==
    (/\ pc = "idle"
     /\ connected = "yes"
     /\ current_state = "PowerDelivery"
     /\ inbox = <<>>
     /\ owed = <<"PowerDeliveryReq">>
     /\ ~Unanswerable)
        => timeouts["CONTACTOR"].on

\* An EV that sends one request at a time gets every response for the request it
\* waits for, also from a session that is about to be closed.  The exception is a
\* session that had the contactor closed: when the event comes after the contactor
\* timer has answered, the request is answered twice.
AnswersInOrder ==
    pc = "respond" /\ response # NoMessage /\ "AC_CLOSE_CONTACTOR" \notin signals
        => owed # <<>> /\ response.type = Head(owed)

\* Also an EV that sends on without waiting gets its answers in order from a healthy
\* session: a response is always for the last request taken, and no earlier one is
\* unanswered unless its response could not be encoded.
HealthyAnswersInOrder ==
    pc = "respond" /\ response # NoMessage /\ ~Finishing
        => /\ Taken > 0
           /\ response.type = owed[Taken]
           /\ Unencodable = {} => Taken = 1

\* A healthy session that left PowerDelivery has no contactor timer that would be
\* delivered to a state that does not expect it and stop the session.
ContactorTimerScoped ==
    timeouts["CONTACTOR"].on /\ current_state # "PowerDelivery" => Finishing

\* Once a session got past SupportedAppProtocol, its connection is closed at last,
\* even when the EV falls silent or never stops sending.
SessionEnds == connected = "yes" /\ current_state # "SupportedAppProtocol"
                   ~> connected = "closed"

\* A stopped or paused session releases the data link at last.
DlinkReleased == Finishing /\ connected = "yes" ~> dlink # <<>>

-----------------------------------------------------------------------------
(* The session implements ChargingSession *)

Phase ==
    CASE current_state \in {"SupportedAppProtocol", "SessionSetup",
                            "AuthorizationSetup", "Authorization"} -> "setup"
      [] current_state \in {"ServiceDiscovery", "ServiceDetail", "ServiceSelection"} ->
            "authorized"
      [] current_state \in ChargeLoops -> "charging"
      [] current_state \in {"DC_WeldingDetection", "SessionStop"} -> "stopping"
      [] OTHER -> "preparing"

Link ==
    CASE dlink = <<>> -> "up"
      [] dlink = <<"DLINK_PAUSE">> -> "paused"
      [] OTHER -> "terminated"

Charging == INSTANCE ChargingSession WITH
    EnergyServices <- Services, phase <- Phase, service <- session.selected,
    approved <- approvals \ {"contactor_closed"}, link <- Link

\* Whatever requests, events, timeouts and errors come in whatever order, also in the
\* seconds before the delayed close, a session does what ChargingSession promises:
\* see there.
KeepsPromise == Charging!Promise

-----------------------------------------------------------------------------
(* What the documentation and the comments say, and the code does not do.   *)
(* Each of these is the property of a run that shows how it is violated.    *)

\* docs/architecture.md: a state that answered a request has handled it; only the
\* other branch, an unhandled feed, stops the session.
AnsweredIsHandled ==
    pc = "fed" /\ response # NoMessage /\ response.code = "OK"
        => feed_result # "Unhandled"

\* power_delivery.cpp: on a ClosedContactor event that says the contactor is not
\* closed the state waits until it is, so AC charging starts with it closed.
ContactorClosedInLoop ==
    current_state = "AC_ChargeLoop" => "contactor_closed" \in approvals

\* iso.cpp: control events that come before the corresponding state are stored and
\* picked up by it.  ScheduleExchange answers with the dynamic mode parameters.
ScheduleParametersCached ==
    current_state = "ScheduleExchange" => local.dynamic = cache.dynamic

=============================================================================
