# A TLA+ model of libiso15118

libiso15118 is the charging-station side (EVSE, SECC) of ISO 15118-20: it finds a
vehicle by SDP, accepts its TCP or TLS connection, cuts the byte stream into V2GTP
packets, decodes them and runs the state machine of a charging session, together
with an application that gives permissions, measurements and limits.  This directory
holds TLA+ modules that model its control flow, TLC configurations that check small
instances, and proofs checked by TLAPS.  Paths below are relative to the repository.

## 1. The system

| Component | State | Operations | Modelled by |
|---|---|---|---|
| Timeouts (`d20/timeout.cpp`) | four optional deadlines | start, stop, reset, check | `Timeouts` |
| Context and message exchange (`d20/context.cpp`, `context_helper.cpp`, `session.cpp`) | one request, one response, session id and services, pause context, cached parameters, stop and pause flags | set/pull request, respond, header validation, sequence error | `D20Context` |
| 17 states (`d20/state/*.cpp`) and the machine (`fsm/fsm.hpp`) | the current state object and its members | `enter`, `feed` with V2GTP_MESSAGE, CONTROL_MESSAGE or TIMEOUT | `D20States`; the parameters of services again, in detail, in `Negotiation` |
| Session driver (`session/iso.cpp`) | connected, new_data, packet, delayed close | `poll`, `push_control_event`, connection events, `close` | `IsoSession`, specified by `ChargingSession` |
| Control event queue | a locked queue | push, pop | `IsoSession` |
| `SdpPacket`, `read_single_sdp_packet` | bytes read, length, parse state | two reads per poll, parse the header, reset | `SdpReader`, specified by `Frames` |
| `TbdController` | at most one session, pause context, configuration | `loop`, SDP input, `send_control_event`, updates | `TbdController` |
| Connections, `PollManager`, SDP server | sockets, handshake, registered callbacks, poll set | register, unregister, poll, SDP request, accept, handshake, read, write, close | `Connections`; reads in `SdpReader`, errors of read and write in `IsoSession` |
| Configuration (`d20/config.cpp`) and offered services (`d20/session.cpp`) | parameter lists, offered and selected sets | derive the lists, offer, find and select a set | `ServiceParameters`, `Negotiation` |
| AC DER control (`d20/ac_der_control.cpp`) | snapshots of the application | validate, build the control data, providers | `AcDerControl`, `Negotiation` |
| Message codecs, feedback, logging, sockets | - | - | not modelled, see section 8 |

How they interact.  `TbdController::loop` runs in one thread: `PollManager::poll` calls
the callbacks of sockets that are readable (SDP input, accept, NEW_DATA), then
`Session::poll` takes one packet, all control events and the timeouts that are due,
feeds them to the state machine, and sends the response a handler left in the message
exchange.  The application pushes control events and configuration updates from its
own threads.  The pause context belongs to the controller; every session writes it.

What is hard here: requests of the EV, answers of the application and timeouts reach a
state in any order; three different paths end a session and each has to release the
data link once; timers are started, stopped and reset in different places; parameters
arrive before the state that reports them; a pause context outlives its session and may
be met by another vehicle; errors are thrown in the middle of `poll`; packets arrive in
pieces that have nothing to do with their boundaries; control data for the grid is
validated in four places with different subsets of the same checks.  `PROJECT.json`
lists these hazards at their lines.

## 2. The modules and the code

**`Timeouts`.**  A timer is off or has `left` ms to go; time is negative down to
`MaxLag` once it is due, so that the order of two overdue timers is kept.  `check`
returns what the code returns, including that the map in it loses one of two timers with
the same deadline.  `ONGOING` and `CONTACTOR` are reset after delivery, `SEQUENCE` never.

**`D20Context`.**  The state the handlers share.  A request is `[type, sid, arg]`: `arg`
is the one field of the message that a handler branches on (the selected service, the
charge progress, whether the control mode matches).  A response is
`[type, code, status]`.  `Stay` and `Goto` are what `fsm::FSM::feed` does with the two
kinds of `Result`; `Result{}` is *unhandled*, exactly as in `states.hpp`.  `local` holds
the data members of the state object, which is constructed anew by every `Goto`
(`Constructed`) and then entered (`Entered`).

**`D20States`.**  One operator per state, `X_feed(m)`, and the three events as actions
`FeedMessage`, `FeedControl(e)`, `FeedTimeout(type)`.  The BPT, MCS and DER variants
branch as AC and DC do and are not told apart.  `approvals` is a history variable: the
last answers of the application in the states that ask for them, and that a session was
resumed.

**`IsoSession`.**  `poll()` as a sequence of steps with a program counter:
`PollStart`/`ReadThrows` (read), `PopControl`*, `ControlDone`, `SequenceTimeout` or
`OtherTimeout`+`TimeoutFed`*, `NoPacket` or `SetRequest`+`Feed`+`CheckFeedResult` or
`DecodeThrows`, `NoResponse`/`ResponseDiscarded`/`Respond`/`RespondThrows`, then
`PollEnd`, `DelayedClose` or, after a throw, `Close`.  `ResponseDiscarded` is
`set_response` when the encoder fails: the response is dropped silently, and with it the
sequence timer that `poll` would have started; `Unencodable` names the requests this may
happen to.  The EV (`EvConnect`, `EvSend`), the application (`Push`) and time (`Tick`)
are the environment.  A push is allowed between polls and between two pops, which are
all the places where its position can be observed.

**`ChargingSession`.**  What a session promises, without messages, states and timers:
phases that go in one direction, no way out of the setup but an authorization that stands
or the resumption of a pause, no DC charging without a cable check that stands, one
release of the data link (as paused only after charging) and nothing after it.
`IsoSession` implements it with `phase <- Phase` (the state, grouped), `service` the
selected service, `approved` the recorded answers and `link` the DLINK signals.

**`TbdController`.**  Extends `IsoSession` by the loop, which creates a session on an
SDP request, polls it and destroys it as soon as `is_finished()`.  `IsoSession` on its
own is a driver that goes on polling until the connection is closed, as the header of
`Session` describes it; the controller does not wait that long (finding DlinkSignal).
A controller begins without a pause context; a single session may begin with any.

**`Frames` and `SdpReader`.**  `Frames` is the promise: go through the byte stream header
by header, deliver an accepted packet, skip a refused header.  `SdpReader` is the code:
two reads per poll, bytes that arrive at any time in any number, a plain socket or TLS
records that end anywhere.  Bytes are abstracted to `header[p]`, what the bytes from
position p on say if they are read as a header; every such function is an initial state.

**`AcDerControl` and `ServiceParameters`.**  Operators only.  `AcDerControl` has the
validations, default data and providers of `ac_der_control.cpp`; a chain of early returns
is a sequence of checks, and `FirstFailure` its answer.  `ServiceParameters` has the
parameter lists `SessionConfig` derives from a setup, the ids `ServiceDetail` offers them
under and what a selection finds again, with the integer widths of the code.

**`Negotiation`.**  One session of an EV that keeps to the sequence, from ServiceDetail to
the charge loop, with the parameter sets that `IsoSession` abstracts to known or unknown:
ServiceDetail while the application changes its value added services, ServiceSelection,
AC_ChargeParameterDiscovery and AC_ChargeLoop with every request kind and provider.  As in
`IsoSession`, a handler that answers OK and stays in its state (a ServiceDetailReq in
ServiceSelection, every AC_ChargeLoopReq, a PowerDeliveryReq that waits for the contactor)
is unhandled for `poll`, which stops the session (`FeedResult`); `poll` still serves a
stopped session until its delayed close.  An EV that asks for a service again and then
selects, and a second AC_ChargeLoopReq, occur in this grace period only, and need a driver
that goes on polling, which the controller does not.  `told` is a history variable: what
the responses said last of every id.  The provider of an application is external: any
result of `CustomResults`, in every request anew.

**`Connections`.**  The same loop seen from the descriptors: which numbers the kernel has
given out (always the least that is free), which callback the `PollManager` holds for
each, which are readable, and the one connection.  `Wait`, the handlers, `Dispatched`
and one step for `Session::poll` are one turn of `loop`; a callback that registers or
unregisters clears `revents`, because `create_poll_set` makes a set without any.
`register_fd` is an `emplace`, and keeps an older callback.  The session is reduced to
going on, finishing or throwing, once it has been spoken to.  A finished session is
destroyed with its connection open, as in the code; `left` records it, and a callback of
a destroyed object leads to `"undefined"`.  The configuration (SDP server or not, TLS
strategy) is chosen in the initial state.

## 3. Properties and runs

| Run | Properties | Distinct states |
|---|---|---|
| `DcSession` | TypeOK, ExchangeEmptied, AuthorizedOrResumed, CableChecked, OngoingTimerScoped, SequenceSupervised, CloseScheduled, DlinkOnce, AnswersInOrder, SequenceRestarted, KeepsPromise | 1.0 M |
| `Overlap` | LatestParameters, HealthyAnswersInOrder, ContactorTimerScoped | 4.5 M |
| `Liveness` | ContactorAwaited, SessionEnds, DlinkReleased | 0.15 M |
| `Visits` | ServiceAgreed, PauseContextOwn, FailureEndsSession, ResumedAsPaused, EverySessionKeepsPromise | 3.5 M |
| `Controller` | ControllerFreed | 0.18 M |
| `Framing` | ReaderTypeOK, BufferRespected, ReadsSomething, PulledIsRead, FramesKept, ArrivedIsRead | 0.90 M |
| `Connections` | ConnTypeOK, CallbacksLive, AlwaysWatched, AssertionsHold, NothingLeaks, SecurityKept, ArrivedIsTaken | 0.02 M |
| `Negotiation` | SelectedAsTold, PreflightDecides, LoopAgreesWithCpd, DerDataComplete | 0.19 M |
| `AnsweredIsHandled`, `ContactorClosed`, `ScheduleParameters`, `DlinkSignal` | one each, violated: section 5 | |

- **DcSession** takes a DC session through all its states with requests in any order,
  foreign session ids, mismatching modes, positive and negative answers, timers, errors
  and a response that cannot be encoded.  No charging without authorization (or
  resumption) and a positive cable check of this session; every response goes to the
  oldest unanswered request and the sequence timer runs from every response for its full
  time; the ongoing timer never leaves the state that started it; nothing is left in the
  message exchange between two polls (so `set_request` never throws); the close is
  scheduled whenever the session is stopped or paused, and the data link is released
  exactly once.  The whole is an implementation of `ChargingSession`.
- **Overlap** resumes an AC session with an EV that sends its next request without waiting,
  while parameters with two different values, the contactor and its timer come at any
  moment.  States work with the latest parameters; a healthy session answers in order and
  has the contactor timer in PowerDelivery only.  A session that is already stopped does
  neither: in the 5 s of the delayed close a contactor that closes late answers a request
  a second time, and the timer fires in another state.
- **Visits** lets two interchangeable vehicles and one without certificate visit the
  controller three times, pause, come back or not, with value added services, refused
  requests and changes of the configuration between discovery and selection.  The service
  in use was offered to this session or comes from the pause it resumes; the pause context
  belongs to the vehicle that can resume with it.  One exception is in the code and in
  ResumedAsPaused: a session without certificate that pauses overwrites the service of a
  pause context that another vehicle left.  Every session implements `ChargingSession` from
  its beginning.
- **Liveness** resumes an AC session and goes around the contactor: the session is closed
  at last and the data link released.
- **Controller** lets an EV send ahead and checks that the controller becomes free again.
- **Framing** checks every stream of up to 6 bytes with headers of 2 bytes and a buffer
  of 3, with the payload lengths 0, 1, 2 (too long) and the largest uint32 (overflow).
- **Connections** makes three connections in turn with four descriptors, with every error
  of constructors, accept, handshake and session.  As long as no session was destroyed
  with its connection open, no callback outlives its object and no descriptor is lost.
  A plain connection left that way does not disturb the next one, a TLS one does: its
  number is used again while its callback is still registered.  The assertions of the
  code on `connected`, `connection_open` and `handshake_complete` hold, the security of
  a session is the one announced, and what a vehicle sends is taken however many SDP
  requests arrive.
- **Negotiation** starts from about 100 setups: every provider of the library with good
  data and with each kind of thing wrong, and one of the application that may return
  anything.  The session works with the parameter set the EV was told last under the very
  id it asked for, if that is below 256 (section 5), also when it asked again in the grace
  period; the preflight an application makes on its snapshots decides, with the same
  reason, whether an AC_DER session is served with the data of the snapshots; the charge
  loop never refuses what parameter discovery accepted; no incomplete control data reaches
  the EV.

Bounds.  Durations are small numbers that keep the order of the real ones in the runs
about timers (contactor 3 s < close 5 s < ongoing 55/60 s and sequence 60 s are
1 < 2 < 3, 5 and 4), and 1 where only their existence matters.  `MaxLag` is how late a
timer can be found due.  `MaxOutstanding` 1 is an EV that waits for its answers, as the
standard demands; `Overlap` and `Controller` have one that does not (2).  `MaxQueue` 1 loses no order of
events: `poll` empties the queue before anything else, and a push is possible again
between two pops.  Session ids are drawn at random in the code; here they are fresh
numbers, 1 being that of an earlier session.  Three visits are a pause, a visit in
between and a return.  In `Framing` 6 bytes hold three headers, or two packets with a
refused header between them, and every position a piece can end at.  In `Connections`
four descriptors are the SDP socket, a listening and an accepted one and one that was
left; with more of them left, `socket` and `accept` fail.  In `Negotiation` `MaxDetails` 3
lets the EV ask for its energy service and for two others, or for one value added service
twice with a change between, before it selects; the ids 0, 1, 2, 5 and 256 are sets that
exist, do not, and differ beyond a uint8_t.  The policies vary two fields at a time, since
every check compares at most two.

Deadlock is checked in every run but two: in `IsoSession` time always passes, in
`SdpReader` the loop goes on.  In `Connections` `loop()` really ends when `PollManager::poll`
throws; `Negotiation` has no step behind DC_ChargeParameterDiscovery and no
ServiceDetailReq beyond `MaxDetails`.

## 4. Fairness

`FairSpec` and `FairTbdSpec` assume weak fairness of the steps of `poll` (`loop` calls it
for ever, in one thread), strong fairness of `Tick` (time passes between two polls: each
call of `PollManager::poll` waits up to 50 ms), and strong fairness of `ControlDone`: the
application does not push events so fast that the queue is never found empty.  The last
one is an assumption about the application that the code does not enforce (see the
hazards).  Nothing is assumed of the EV, which may fall silent or send for ever.
`FairReaderSpec` and `FairConnSpec` have weak fairness of the loop and nothing else.

`SessionEnds` and `ControllerFreed` begin behind SupportedAppProtocol on purpose: before
it no timer runs, and a vehicle that connects and says nothing, or never connects, does
block the controller.  `Liveness` and `Controller` assume that every response can be encoded
(`Unencodable = {}`): after a dropped one no timer runs, and a silent EV keeps its session.

## 5. Where code and documentation disagree

1. `AnsweredIsHandled`: `Result` is `unhandled` by default, so every state that answers
   and stays (`return {};`) stops its session.  `docs/architecture.md` says an answered
   request is handled.  Cable checks that take time, authorization that waits and both
   charge loops end in the 5 s of the delayed close.
2. `ContactorClosed`: `power_delivery.cpp:53` assigns the pointer to the event; a
   contactor that reports it is open starts the AC charge loop.
3. `ScheduleParameters`: `ScheduleExchange::enter` does not read the cached dynamic mode
   parameters, although `iso.cpp` says cached events are picked up by the next state.
4. `DlinkSignal`: the controller destroys a finished session before its delayed close, so
   neither the close nor the DLINK signal described in `session/iso.hpp` happens.

Besides, the state diagram of `docs/architecture.md` lacks transitions the code takes:
ScheduleExchange and DC_PreCharge go to PowerDelivery and PowerDelivery to the charge
loops, and a resumed session goes from SessionSetup to a ChargeParameterDiscovery.

`Negotiation` also shows that a false parameter set id is not always refused, as two tests
expect of energy and value added services (`test/iso15118/states/service_selection.cpp:31`
and `:331`, "false parameter set id - FAILED_ServiceSelectionInvalid").  An id is a uint16_t
in a request and a uint8_t in the offered lists, so id 256, which no response offers, selects
set 0.  The tests try no id above 255, and SelectedAsTold speaks of the ids below 256: with
its bound `s.id < 256` removed the same run violates it in its third state.

Other details of the code no document speaks of.  Ids of ParkingStatus sets are numbered anew, and an Internet set with an unknown id is
offered under the id of the set before it and replaces it.  A provider that returns neither
a configuration nor a reason has the session refused without a diagnostic.

## 6. Proofs

All theorems hold for every value of the constants that satisfies the named
assumptions: any sets of vehicles, parameter values, requests and events, any positive
durations, any queue length, any choice of responses that cannot be encoded; any number
of sessions, descriptors and connections; for the reader any header size up to the buffer
size, any buffer up to the largest uint32 and any length of the stream; for the
negotiation any setups, replies, provider results and selections of the right types
(`NegotiationAssumption` says no more than the C++ types do).  Every inductive invariant
was checked by TLC on the instance of its component before it was proved.

**`IsoSessionProofs`.**  First the lemmas about timers, states and handlers of `D20States`:
each operator yields values of the declared types.  Then:

- `TypeCorrectness` (TypeOK), inductive as it stands, one lemma per group of steps;
- `CloseIsScheduled` and `DlinkIsSignalledOnce` from `PollInv`.  Neither property is
  inductive: both need that poll() only runs on an open connection, that nothing stops a
  session before it is connected, that a scheduled close belongs to a stopped or paused
  session, and that the list of signals is empty until the connection is closed;
- `ExchangeIsEmptied` from an invariant that says at which steps of poll() a request, a
  packet or a response can be there;
- `ParametersAreLatest` (LatestParameters), together with TypeOK.

**`SessionSafetyProofs`.**  What a session may do in which state, from two invariants.
`StateInv` is about the states: AuthorizedOrResumed needs that the `Accepted` an
Authorization object remembers is also the last answer given; CableChecked needs the same
of `cable_done`; ServiceAgreed needs that nothing is selected before ServiceSelection and
that only an AC session saves a PowerDeliveryReq; and a session is paused only behind the
charge loop.  PauseContextOwn and OngoingTimerScoped are inductive with these.  `HealthInv`
is about sessions that are not yet stopped: a failed response and a saved
PowerDeliveryReq exist only in a session that is finishing, or whose request was just fed
and is unhandled, so that the next step of poll() stops it.  This is what makes
FailureEndsSession and ContactorTimerScoped true, and it is a property of `poll` and the
states together, not of either.  The action property SequenceRestarted needs that the
sequence timer does not run from the moment a request is taken until it is answered
(`start_timeout` leaves a running timer alone).

**`AnswerProofs`.**  What is answered, and when.  The lemma `FeedAnswers` goes through all
handlers: a request is answered and the state left, or answered or ignored with nothing
saved lost, or it is a PowerDeliveryReq that is saved and starts the contactor timer; no
other request touches that timer.  Two invariants follow for every value of the constants:

- `AccountInv`: in a healthy session the unanswered requests (`owed`) end with those in the
  receive buffer, and the packet, request or response in work belongs to the last one taken
  from it (`owed[Taken]`); if all responses can be encoded, no other is unanswered.  This is
  `HealthyAnswersAreInOrder`.
- `SupervisedInv`: behind SupportedAppProtocol the sequence timer of a healthy session stands
  still only while something is in work, after an error, or when the response to `owed[Taken]`
  was dropped, which needs AccountInv to say whose it was.  This is `SessionIsSupervised`.

Two more theorems are about an EV that waits for its answers; their hypothesis
`MaxOutstanding = 1` is what ISO 15118 demands of an EV and the code does not check.
They include sessions in the 5 s before the close, of which HealthInv says nothing:

- `AnswersAreInOrder` from `WaitInv` (what the EV waits for is in the buffer, in work, or has
  its response ready) and `ContactorTimerInv` (the contactor timer, its undelivered timeout
  and a saved request exist only in a session that asked for the contactor).
- `ContactorIsAwaited` from `AwaitedInv`: an unanswered PowerDeliveryReq is in the buffer, in
  work, or under the contactor timer.  It needs that in PowerDelivery the timer never runs
  without a saved request, so that a contactor that closes and stops the timer also answers,
  and that a delivered timeout has its response ready before the timer is reset.

These proofs corrected the model.  SequenceSupervised and ContactorAwaited now name the one
request whose response was dropped (`Unanswerable`), HealthyAnswersInOrder holds with
responses that cannot be encoded, and AnswersInOrder in AC sessions that have not asked for
the contactor.  `NoMessageAssumption` (an empty optional is no message) was implicit before.

**`ChargingSessionProofs`.**  `SessionKeepsPromise`: `IsoSession` implements
`ChargingSession`.  The initial states map to its initial state; each step of poll(), the
EV and the application either leaves phase, service, approvals and link alone or is one
step of the promise: a handler that changes the state moves the phase forward only, with
the approvals StateInv guarantees, and `Close` and `DelayedClose` are the one release of
the link, by PollInv.

**`TbdControllerProofs`.**  The controller destroys a session and makes the next one with
what the last one left: the pause context and the configuration.  `EverySessionIsSafe`
says that the invariants above (`SessionInv`) hold again at once, so all sessions have
them, those about answers and supervision included; `EverySessionPromises`
(EverySessionKeepsPromise) that a new session begins in the initial state of
`ChargingSession` and every other step of the controller is a step of the promise or none.
`ResumesAsPaused` (ResumedAsPaused) relates a session to an earlier one.  Its invariant
says that the service of a resumed session, and that of the pause context, was paused
with by the vehicle and session id stored there or by a vehicle without certificate, and
that a paused session is recorded; a resumed session never is in the states before
ServiceSelection, so it keeps that service.

**`SdpReaderProofs`** proves one invariant, `ReaderInv`: the types; that the packet in work
is the beginning of the frame at `Start` (fewer bytes than a header, or an accepted header
and part of its payload, with the length Frames computes); that it is complete only at
the end of a poll; that a plain connection pulls nothing ahead; and PulledIsRead.  From
it follow `ReaderTypeCorrect`, `BufferIsRespected`, `AlwaysReadsSomething`,
`PulledBytesAreRead`, and `ReaderKeepsFrames`: `SdpReader` implements `Frames` with
`pos <- consumed - packet.bytes_read`.  The lemma `Parse` is the arithmetic behind it:
the overflow check and the check against the buffer together accept exactly what fits.

**`ConnectionsProofs`** proves one invariant, `ConnInv`, from which the six invariants of the
run follow.  Besides them it says that `revents` is empty outside the loop over the poll
set, that the connection of the session is the last one made, that a callback with its id
is registered for its socket and with the handler of its phase, and, the heart of it, that
as long as no TLS connection was left open every registered number is an open descriptor:
so the kernel never gives a registered number to a new socket, and `register_fd`, an
`emplace`, never meets an older callback.  The least free descriptor exists by the well-foundedness
of the natural numbers.

**`NegotiationProofs`.**  The lemma `FailureCases` is what a chain of early returns does:
all checks hold, or the first that does not is the answer.  With it `DerVerdict`,
`PreflightVerdict` and `SeccVerdict` say what the DER checks, the preflight and the SECC
provider decide, and `SeccConfigValid` that snapshots which pass the preflight give a
configuration which passes the validation of the handlers, with every curve and limit the
library adds itself: the step a unit test can only sample.  The invariant `NegotiationInv`
says that the lists a selection copies from are those the EV was told (ToldInv), that an
energy service is always offered with the same list (EnergyToldInv), that nothing is offered
once something is selected as long as the session runs, that every AC_DER set on offer has
all control functions, and that what AC_ChargeParameterDiscovery accepted is accepted again
(LoopReadyInv, because the providers of the library have one answer to one selection).  From it:
`SelectionIsAsTold`, `LoopAgrees`, `PreflightIsDecisive` and `DerDataIsComplete`.  The
last one includes that a curve increases between any two points, which the code compares
pairwise: a least counterexample has a predecessor that is one, too (`CurveIncreases`).

## 7. Only model-checked

- Liveness (SessionEnds, DlinkReleased, ControllerFreed, ArrivedIsRead, ArrivedIsTaken): the
  prover handles neither fairness nor ENABLED.
- AnswersInOrder and ContactorAwaited are proved for an EV that waits for its answers only,
  because without that they are false: a request out of sequence stops the session and gets
  no answer, the request sent behind it is answered in the seconds before the close, and that
  is the first answer the EV gets (TLC finds both with `MaxOutstanding` 2).
  HealthyAnswersInOrder and SequenceSupervised are proved without it, for sessions that are
  not stopped.
- What the operators compute on the concrete default data and profiles of the library
  (`make_ac_der_iec_dynamic_eim_profile_snapshots` and the setups of the run).

## 8. Not modelled

- The payload of messages beyond the fields that are branched on, and the message codecs:
  conversions field by field, without state.  That an encoder may fail is modelled, when it
  does is not; DER curves longer than the EXI structure are cut off silently
  (`message/ac_charge_parameter_discovery.cpp:206`).
- `NestedFSM` in `fsm.hpp` (unused), logging, the wording of feedback, socket helpers.
- The bytes of SDP datagrams, the set-up of OpenSSL, the verification of certificates, the
  TLS key logging server, and `PollManager::abort`, which nothing calls.
- Of AC DER control and the parameter lists, units, references, PT1 flags, prices and
  voltages; a RationalNumber is an integer, so rounding is not seen.  Fields that are always
  treated alike are one field.  The parameters of the DC services after their selection, and
  schedules, are the `match` or `mismatch` of a request in `D20States`.
- `Negotiation` with the message exchange, timers and requests out of sequence: these are in
  `IsoSession`, which sees of a parameter set whether it is known.  In particular the
  delayed close is not in `Negotiation`: the grace period of a stopped session may last
  for any number of requests.
- The data race on the session pointer between `loop` and the threads of the application:
  the test and the push are one step.
- That `SSL_free` closes a number `ConnectionSSL::close` has already closed: without the
  descriptors of other threads it has no effect.

## 9. Plan

Done: the session and its states, the controller, the framing of packets, the descriptors
and callbacks of the loop, the promise of a session, the parameters of services with AC
DER control, and a proof of every safety property that a passing run checks.  Left, in the
model: the session pointer shared with the threads of the application.
