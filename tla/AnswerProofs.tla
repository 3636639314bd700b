---------------------------- MODULE AnswerProofs ----------------------------
(***************************************************************************)
(* What a session answers and when, for any EV, any application, any       *)
(* configuration and any durations.                                        *)
(*                                                                         *)
(* FedAnswer says what the handlers do with a request: answer it, ignore   *)
(* it, or save it until the contactor is closed.  On it rest the account   *)
(* of the requests the EV has no answer to (AccountInv), the supervision   *)
(* of a silent EV (SupervisedInv), and, for an EV that sends one request   *)
(* at a time, the order of its answers (WaitInv) and the PowerDeliveryReq  *)
(* that waits for the contactor (AwaitedInv).                              *)
(***************************************************************************)
EXTENDS SessionSafetyProofs

-----------------------------------------------------------------------------
(* What a request is answered with *)

Answered(m) == response' \in Responses /\ response'.type = m.type

\* The state a PowerDeliveryReq waits in, and those behind it.
ContactorStates ==
    {"PowerDelivery", "AC_ChargeLoop", "DC_ChargeLoop", "DC_WeldingDetection",
     "SessionStop"}

\* A request is answered and the state is left ...
AnsweredAndLeft(m) ==
    /\ Answered(m)
    /\ \E s \in StateIDs :
          /\ Goto(s)
          /\ current_state \in ContactorStates => s \in ContactorStates \ {"PowerDelivery"}

\* ... or it is answered, or not answered at all, and nothing that was saved is lost.
AnsweredOrIgnored(m) ==
    /\ \/ Answered(m)
       \/ /\ response' = response
          /\ ~(current_state = "PowerDelivery" /\ m.type = "PowerDeliveryReq")
    /\ \E l : Stay(l) /\ SameDecisions(l)

AwaitedThen(m) == current_state = "PowerDelivery" /\ PowerDelivery_await(m)

\* Only a PowerDeliveryReq that is saved changes the contactor timer.
FedAnswer(m) ==
    \/ AwaitedThen(m)
    \/ /\ signals \subseteq signals'
       /\ timeouts'["CONTACTOR"] = timeouts["CONTACTOR"]
       /\ AnsweredAndLeft(m) \/ AnsweredOrIgnored(m)

LEMMA ResAnswers ==
    ASSUME NEW m \in Messages, NEW code \in Codes, response' = Res(m.type, code)
    PROVE  Answered(m)
BY ResType, MessageHasType DEF Answered, Res

LEMMA UnexpectedAnswer ==
    ASSUME D20TypeOK, NEW m \in Messages, NEW expected,
           current_state = "PowerDelivery" => "PowerDeliveryReq" \in expected,
           UnexpectedRequest(m, expected) \/ StopOrSequenceError(m, expected)
    PROVE  FedAnswer(m)
<1>1. Stay(local) /\ SameDecisions(local) /\ UNCHANGED quietVars
  BY LocalsDecisions
  DEF UnexpectedRequest, StopOrSequenceError, SequenceError, D20TypeOK
<1>2. SessionStopCode(m) \in Codes /\ "FAILED" \in Codes
  BY ValidatedType DEF SessionStopCode, Codes
<1>3. Answered(m) \/ response' = response
  BY <1>2, ResAnswers DEF UnexpectedRequest, StopOrSequenceError, SequenceError
<1>4. m.type \notin expected
  BY DEF UnexpectedRequest, StopOrSequenceError
<1>. QED BY <1>1, <1>3, <1>4 DEF FedAnswer, AnsweredOrIgnored, quietVars

\* A handler that answers and leaves the contactor alone.
LEMMA AnswerGoes ==
    ASSUME NEW m \in Messages, NEW code \in Codes, response' = Res(m.type, code),
           signals \subseteq signals', timeouts'["CONTACTOR"] = timeouts["CONTACTOR"],
           NEW s \in StateIDs, Goto(s),
           current_state \in ContactorStates => s \in ContactorStates \ {"PowerDelivery"}
    PROVE  FedAnswer(m)
BY ResAnswers DEF FedAnswer, AnsweredAndLeft

LEMMA AnswerStays ==
    ASSUME NEW m \in Messages, NEW code \in Codes, response' = Res(m.type, code),
           signals \subseteq signals', timeouts'["CONTACTOR"] = timeouts["CONTACTOR"],
           NEW l, Stay(l), SameDecisions(l)
    PROVE  FedAnswer(m)
BY ResAnswers DEF FedAnswer, AnsweredOrIgnored

LEMMA RespondThenAnswers ==
    ASSUME D20TypeOK, NEW m \in Messages, NEW code \in Codes, NEW s \in StateIDs,
           RespondThen(m, code, s), timeouts' = timeouts, signals \subseteq signals',
           current_state \notin ContactorStates
    PROVE  FedAnswer(m)
BY AnswerGoes, AnswerStays, LocalsDecisions DEF RespondThen, D20TypeOK

LEMMA EarlyAnswer ==
    ASSUME D20TypeOK, NEW m \in Messages, current_state \notin ContactorStates,
           \/ current_state = "SupportedAppProtocol" /\ SupportedAppProtocol_feed(m)
           \/ SessionSetup_feed(m)
           \/ AuthorizationSetup_feed(m)
           \/ ServiceDiscovery_feed(m)
           \/ ServiceDetail_feed(m)
           \/ ServiceSelection_feed(m)
    PROVE  FedAnswer(m)
<1>. local \in Locals /\ current_state # "PowerDelivery"
  BY DEF D20TypeOK, ContactorStates
<1>. "OK" \in Codes /\ "FAILED" \in Codes /\ "OK_OldSessionJoined" \in Codes
  BY DEF Codes
<1>1. CASE current_state = "SupportedAppProtocol" /\ SupportedAppProtocol_feed(m)
  <2>1. UNCHANGED <<signals, timeouts>>
    BY <1>1 DEF SupportedAppProtocol_feed, quietVars
  <2>2. CASE m.type # "SupportedAppProtocolReq"
    BY <1>1, <2>1, <2>2, LocalsDecisions
    DEF SupportedAppProtocol_feed, FedAnswer, AnsweredOrIgnored
  <2>3. CASE m.type = "SupportedAppProtocolReq"
    BY <1>1, <2>1, <2>3, AnswerGoes, AnswerStays, LocalsDecisions
    DEF SupportedAppProtocol_feed, StateIDs
  <2>. QED BY <2>2, <2>3
<1>2. CASE SessionSetup_feed(m)
  <2>1. CASE SessionSetup_new(m)
    BY <2>1, RespondThenAnswers DEF SessionSetup_new, StateIDs
  <2>2. CASE SessionSetup_resume(m)
    <3>1. pause_ctx.selected \in {"AC", "DC", "None"}
      BY DEF D20TypeOK, PauseContextType, Services
    <3>. QED
      BY <2>2, <3>1, AnswerGoes, AnswerStays, LocalsDecisions
      DEF SessionSetup_resume, StateIDs
  <2>. QED BY <1>2, <2>1, <2>2, UnexpectedAnswer DEF SessionSetup_feed
<1>3. CASE AuthorizationSetup_feed(m)
  BY <1>3, RespondThenAnswers, ValidatedType, UnexpectedAnswer
  DEF AuthorizationSetup_feed, StateIDs
<1>4. CASE ServiceDiscovery_feed(m)
  BY <1>4, RespondThenAnswers, ValidatedType, UnexpectedAnswer
  DEF ServiceDiscovery_feed, StateIDs
<1>5. CASE ServiceDetail_feed(m)
  BY <1>5, RespondThenAnswers, DetailedType, UnexpectedAnswer
  DEF ServiceDetail_feed, StateIDs
<1>6. CASE ServiceSelection_feed(m)
  <2>1. ServiceSelectionCode(m) \in Codes /\ ServiceDetailCode(m) \in Codes
    BY DetailedType DEF ServiceSelectionCode
  <2>. QED
    BY <1>6, <2>1, RespondThenAnswers, AnswerStays, LocalsDecisions, UnexpectedAnswer
    DEF ServiceSelection_feed, StateIDs
<1>. QED BY <1>1, <1>2, <1>3, <1>4, <1>5, <1>6

LEMMA MiddleAnswer ==
    ASSUME D20TypeOK, NEW m \in Messages, current_state \notin ContactorStates,
           \/ Authorization_feed(m)
           \/ AC_ChargeParameterDiscovery_feed(m)
           \/ DC_ChargeParameterDiscovery_feed(m)
           \/ ScheduleExchange_feed(m)
           \/ DC_CableCheck_feed(m)
           \/ DC_PreCharge_feed(m)
    PROVE  FedAnswer(m)
<1>. local \in Locals /\ current_state # "PowerDelivery"
  BY DEF D20TypeOK, ContactorStates
<1>1. timeouts'["CONTACTOR"] = timeouts["CONTACTOR"]
  <2>. timeouts \in [TimeoutTypes -> Deadlines]
    BY DEF D20TypeOK
  <2>1. ASSUME NEW d \in Int
        PROVE  LET t == start_timeout(timeouts, "ONGOING", d)
               IN /\ t["CONTACTOR"] = timeouts["CONTACTOR"]
                  /\ stop_timeout(t, "ONGOING")["CONTACTOR"] = timeouts["CONTACTOR"]
                  /\ stop_timeout(timeouts, "ONGOING")["CONTACTOR"]
                        = timeouts["CONTACTOR"]
    BY StartTimeout, StopTimeout, StartTimeoutType, TheTimeouts
  <2>2. EIM_ONGOING_MS \in Int /\ ONGOING_MS \in Int
    BY DurationAssumption
  <2>. QED
    BY <2>1, <2>2
    DEF Authorization_feed, AC_ChargeParameterDiscovery_feed,
        DC_ChargeParameterDiscovery_feed, ScheduleExchange_feed, DC_CableCheck_feed,
        DC_PreCharge_feed, StopOrSequenceError, quietVars
<1>2. CASE \E x : StopOrSequenceError(m, x)
  BY <1>2, UnexpectedAnswer
<1>3. CASE ~\E x : StopOrSequenceError(m, x)
  <2>. USE <1>1, <1>3
  <2>1. Validated(m, "OK") \in Codes /\ ModeCode(m) \in Codes
    BY ValidatedType, ModeCodeType DEF Codes
  <2>2. CASE Authorization_feed(m)
    <3>1. AuthorizationCode(m) \in Codes
      BY ValidatedType DEF AuthorizationCode, Codes
    <3>. QED
      BY <2>2, <3>1, AnswerGoes, AnswerStays, LocalsDecisions
      DEF Authorization_feed, StateIDs
  <2>3. CASE AC_ChargeParameterDiscovery_feed(m) \/ DC_ChargeParameterDiscovery_feed(m)
    BY <2>1, <2>3, RespondThenAnswers
    DEF AC_ChargeParameterDiscovery_feed, DC_ChargeParameterDiscovery_feed, StateIDs,
        quietVars
  <2>4. CASE ScheduleExchange_feed(m)
    <3>1. ScheduleExchangeCode(m) \in Codes
      BY ModeCodeType DEF ScheduleExchangeCode, Codes
    <3>. QED
      BY <2>4, <3>1, AnswerGoes, AnswerStays, LocalsDecisions
      DEF ScheduleExchange_feed, StateIDs
  <2>5. CASE DC_CableCheck_feed(m) \/ DC_PreCharge_feed(m)
    BY <2>1, <2>5, AnswerGoes, AnswerStays, LocalsDecisions
    DEF DC_CableCheck_feed, DC_PreCharge_feed, StateIDs
  <2>. QED BY <2>2, <2>3, <2>4, <2>5
<1>. QED BY <1>2, <1>3

LEMMA LateAnswer ==
    ASSUME D20TypeOK, NEW m \in Messages,
           \/ current_state = "PowerDelivery" /\ PowerDelivery_feed(m)
           \/ current_state = "AC_ChargeLoop" /\ AC_ChargeLoop_feed(m)
           \/ current_state = "DC_ChargeLoop" /\ DC_ChargeLoop_feed(m)
           \/ current_state = "DC_WeldingDetection" /\ DC_WeldingDetection_feed(m)
           \/ current_state = "SessionStop" /\ SessionStop_feed(m)
    PROVE  FedAnswer(m)
<1>. local \in Locals
  BY DEF D20TypeOK
<1>1. /\ Validated(m, "OK") \in Codes
      /\ ModeCode(m) \in Codes
      /\ PowerDeliveryCode(m) \in Codes
      /\ SessionStopCode(m) \in Codes
  BY ValidatedType, ModeCodeType DEF PowerDeliveryCode, SessionStopCode, Codes
<1>2. CASE current_state = "PowerDelivery" /\ PowerDelivery_feed(m)
  <2>1. CASE PowerDelivery_await(m)
    BY <1>2, <2>1 DEF FedAnswer, AwaitedThen
  <2>2. CASE PowerDelivery_answer(m)
    BY <1>1, <1>2, <2>2, AnswerGoes, AnswerStays, LocalsDecisions
    DEF PowerDelivery_answer, StateIDs, ContactorStates
  <2>3. CASE response' = Res(m.type, Validated(m, "OK")) /\ Stay(local)
             /\ UNCHANGED quietVars
    BY <1>1, <2>3, AnswerStays, LocalsDecisions DEF quietVars
  <2>. QED BY <1>2, <2>1, <2>2, <2>3, UnexpectedAnswer DEF PowerDelivery_feed
<1>3. CASE \/ current_state = "AC_ChargeLoop" /\ AC_ChargeLoop_feed(m)
           \/ current_state = "DC_ChargeLoop" /\ DC_ChargeLoop_feed(m)
  <2>1. CASE m.type \in {"AC_ChargeLoopReq", "DC_ChargeLoopReq"} /\ ChargeLoopRequest(m)
    <3>1. response' \in Responses /\ response'.type = m.type
      BY <1>1, <2>1, MessageHasType
      DEF ChargeLoopRequest, Responses, Notifications, Notification
    <3>2. /\ Stay([local EXCEPT !.first_entry = FALSE])
          /\ signals \subseteq signals'
          /\ timeouts' = timeouts
      BY <2>1 DEF ChargeLoopRequest
    <3>. QED
      BY <3>1, <3>2, LocalsDecisions DEF FedAnswer, AnsweredOrIgnored, Answered
  <2>2. CASE \/ ChargeLoopEnd(m, "AC_OPEN_CONTACTOR", "SessionStop", local)
             \/ ChargeLoopEnd(m, "DC_OPEN_CONTACTOR", "DC_WeldingDetection",
                              [local EXCEPT !.first_entry = TRUE])
    BY <1>1, <1>3, <2>2, AnswerGoes, AnswerStays, LocalsDecisions
    DEF ChargeLoopEnd, StateIDs, ContactorStates
  <2>. QED
    BY <1>3, <2>1, <2>2, UnexpectedAnswer DEF AC_ChargeLoop_feed, DC_ChargeLoop_feed
<1>4. CASE \/ current_state = "DC_WeldingDetection" /\ DC_WeldingDetection_feed(m)
           \/ current_state = "SessionStop" /\ SessionStop_feed(m)
  BY <1>1, <1>4, AnswerGoes, AnswerStays, LocalsDecisions, UnexpectedAnswer
  DEF DC_WeldingDetection_feed, SessionStop_feed, EndSession, StateIDs, quietVars,
      ContactorStates
<1>. QED BY <1>2, <1>3, <1>4

LEMMA FeedAnswers == ASSUME D20TypeOK, FeedMessage PROVE FedAnswer(request)
<1>1. request \in Messages
  BY DEF FeedMessage, D20TypeOK
<1>. QED
  BY <1>1, EarlyAnswer, MiddleAnswer, LateAnswer DEF FeedMessage, ContactorStates

-----------------------------------------------------------------------------
(* The requests the EV has no answer to *)

\* A request or a response is in work.
Busy == packet # NoMessage \/ request # NoMessage \/ response # NoMessage

\* The unanswered requests end with those in the receive buffer.
BufferOwed ==
    /\ Taken >= 0
    /\ \A i \in 1 .. Len(inbox) : owed[Taken + i] = inbox[i].type

LastTaken(type) == Taken > 0 /\ owed[Taken] = type

\* What is in work in a healthy session is the last request taken, or the response
\* to it; if all responses can be encoded, no other request taken is unanswered.
AccountInv ==
    ~Finishing =>
        /\ BufferOwed
        /\ packet # NoMessage => LastTaken(packet.type)
        /\ request # NoMessage => LastTaken(request.type)
        /\ response # NoMessage /\ ~Unhandled => LastTaken(response.type)
        /\ Unencodable = {} /\ pc # "thrown" /\ ~Unhandled
              => Taken = IF Busy THEN 1 ELSE 0

LEMMA TakenType == ASSUME TypeOK PROVE Taken \in Int
BY DEF TypeOK, Taken

LEMMA SendAccount ==
    ASSUME TypeOK, BufferOwed, NEW q \in EvRequests, EvSend(q)
    PROVE  /\ BufferOwed'
           /\ Taken' = Taken
           /\ \A k \in 1 .. Taken : owed'[k] = owed[k]
<1>. DEFINE r == [q EXCEPT !.sid = SessionId(q.sid)]
<1>1. r \in Messages /\ q.type \in MessageTypes
  BY EvRequestType DEF TypeOK
<1>2. r.type = q.type
  <2>1. PICK type \in MessageTypes :
          q \in [type : {type}, sid : {"zero", "own", "paused"}, arg : Args[type]]
    BY EnvironmentAssumption
  <2>. QED BY <2>1
<1>3. inbox \in Seq(Messages) /\ owed \in Seq(MessageTypes)
  BY DEF TypeOK
<1>4. inbox' = Append(inbox, r) /\ owed' = Append(owed, q.type)
  BY DEF EvSend
<1>. HIDE DEF r
<1>5. Len(inbox') = Len(inbox) + 1 /\ Len(owed') = Len(owed) + 1
  BY <1>1, <1>3, <1>4
<1>6. Taken' = Taken
  BY <1>3, <1>5 DEF Taken
<1>7. ASSUME NEW k \in 1 .. Taken PROVE owed'[k] = owed[k]
  BY <1>1, <1>3, <1>4 DEF Taken
<1>8. ASSUME NEW i \in 1 .. Len(inbox') PROVE owed'[Taken' + i] = (inbox'[i]).type
  <2>1. CASE i = Len(inbox')
    <3>1. Taken' + i = Len(owed')
      BY <1>3, <1>5, <2>1 DEF Taken
    <3>. QED BY <1>1, <1>2, <1>3, <1>4, <1>5, <2>1, <3>1
  <2>2. CASE i # Len(inbox')
    <3>1. i \in 1 .. Len(inbox) /\ Taken + i \in 1 .. Len(owed)
      BY <1>3, <1>5, <2>2 DEF Taken, BufferOwed
    <3>2. inbox'[i] = inbox[i] /\ owed'[Taken + i] = owed[Taken + i]
      BY <1>1, <1>3, <1>4, <3>1
    <3>. QED BY <1>6, <3>1, <3>2 DEF BufferOwed
  <2>. QED BY <2>1, <2>2
<1>. QED BY <1>6, <1>7, <1>8 DEF BufferOwed

LEMMA TakeAccount ==
    ASSUME TypeOK, BufferOwed, inbox # <<>>, inbox' = Tail(inbox), owed' = owed
    PROVE  BufferOwed' /\ Taken' = Taken + 1 /\ owed'[Taken'] = Head(inbox).type
<1>1. inbox \in Seq(Messages) /\ owed \in Seq(MessageTypes)
  BY DEF TypeOK
<1>2. Len(inbox') = Len(inbox) - 1 /\ Len(inbox) \in Nat /\ Len(inbox) >= 1
  BY <1>1
<1>3. Taken' = Taken + 1
  BY <1>1, <1>2 DEF Taken
<1>4. owed[Taken + 1] = (inbox[1]).type
  BY <1>2 DEF BufferOwed
<1>5. ASSUME NEW i \in 1 .. Len(inbox') PROVE owed'[Taken' + i] = (inbox'[i]).type
  <2>1. inbox'[i] = inbox[i + 1] /\ i + 1 \in 1 .. Len(inbox)
    BY <1>1, <1>2
  <2>2. Taken' + i = Taken + (i + 1)
    BY <1>3, TakenType
  <2>. QED BY <2>1, <2>2 DEF BufferOwed
<1>6. Taken' >= 0
  BY <1>3, TakenType DEF BufferOwed
<1>. QED BY <1>1, <1>3, <1>4, <1>5, <1>6 DEF BufferOwed

LEMMA AnswerAccount ==
    ASSUME TypeOK, BufferOwed, Taken > 0, inbox' = inbox, owed' = Tail(owed)
    PROVE  BufferOwed' /\ Taken' = Taken - 1
<1>1. inbox \in Seq(Messages) /\ owed \in Seq(MessageTypes)
  BY DEF TypeOK
<1>2. owed # <<>> /\ Len(owed') = Len(owed) - 1 /\ Len(inbox) \in Nat
  BY <1>1 DEF Taken
<1>3. Taken' = Taken - 1 /\ Taken' >= 0
  BY <1>1, <1>2 DEF Taken
<1>4. ASSUME NEW i \in 1 .. Len(inbox') PROVE owed'[Taken' + i] = (inbox'[i]).type
  <2>1. Taken' + i \in 1 .. Len(owed')
    BY <1>1, <1>2, <1>3 DEF Taken
  <2>2. owed'[Taken' + i] = owed[Taken' + i + 1]
    BY <1>1, <1>2, <2>1
  <2>3. Taken' + i + 1 = Taken + i
    BY <1>3, TakenType
  <2>. QED BY <2>2, <2>3 DEF BufferOwed
<1>. QED BY <1>3, <1>4 DEF BufferOwed

\* In a healthy session that handles no request there is no response either, and a
\* packet is only there before it is handled.
LEMMA Unoccupied ==
    ASSUME ExchangeInv, HealthInv, ~Finishing
    PROVE  /\ pc \notin {"fed", "respond"} => response = NoMessage
           /\ pc # "feed" => request = NoMessage
           /\ pc = "feed" => packet = NoMessage
           /\ pc = "idle" /\ connected = "yes" => packet = NoMessage
           /\ pc \in {"fed", "respond", "finish"} => packet = NoMessage
BY DEF ExchangeInv, ExchangeEmptied, HealthInv, SequenceInv

accountVars == <<inbox, owed, packet, request, response>>

\* The steps that take, answer and throw nothing.
LEMMA AccountKept ==
    ASSUME AccountInv, UNCHANGED accountVars, ~Finishing,
           pc' = "thrown" \/ pc # "thrown",
           Unhandled => Unhandled'
    PROVE  AccountInv'
<1>1. Taken' = Taken /\ (BufferOwed => BufferOwed') /\ Busy' = Busy
  BY DEF accountVars, Taken, BufferOwed, Busy
<1>. QED BY <1>1 DEF AccountInv, accountVars, LastTaken, Busy

LEMMA FeedAccount ==
    ASSUME TypeOK, ExchangeInv, HealthInv, AccountInv, Feed, ~Finishing, ~Finishing'
    PROVE  AccountInv'
<1>1. pc = "feed" /\ pc' = "fed" /\ UNCHANGED <<inbox, owed, packet>>
  BY DEF Feed, ioVars
<1>2. request # NoMessage /\ request' = NoMessage /\ packet = NoMessage
  BY <1>1, Unoccupied DEF Feed, FeedMessage
<1>3. FedAnswer(request)
  BY FeedAnswers DEF Feed, TypeOK
<1>4. Unhandled' \/ Answered(request)
  BY <1>1, <1>3
  DEF FedAnswer, AwaitedThen, PowerDelivery_await, AnsweredAndLeft, AnsweredOrIgnored,
      Stay, Unhandled
<1>5. Answered(request) => response' # NoMessage /\ response'.type = request.type
  BY NoMessageAssumption DEF Answered
<1>6. LastTaken(request.type) /\ BufferOwed
  BY <1>2 DEF AccountInv
<1>7. BufferOwed' /\ Taken' = Taken /\ owed' = owed
  BY <1>1, <1>6 DEF BufferOwed, Taken
<1>8. Unencodable = {} => Taken = 1
  BY <1>1, <1>2 DEF AccountInv, Unhandled, Busy
<1>. QED
  BY <1>1, <1>2, <1>4, <1>5, <1>6, <1>7, <1>8 DEF AccountInv, LastTaken, Busy

LEMMA AccountInvInit == Init => AccountInv
BY DEF Init, AccountInv, BufferOwed, Taken, LastTaken, Busy

LEMMA AccountInvNext ==
    TypeOK /\ ExchangeInv /\ HealthInv /\ AccountInv /\ [Next]_vars => AccountInv'
<1>. SUFFICES ASSUME TypeOK, ExchangeInv, HealthInv, AccountInv, [Next]_vars,
                     ~Finishing'
              PROVE  AccountInv'
  BY DEF AccountInv
<1>. ~Finishing
  BY FinishingStays
<1>. HealthInv' /\ ExchangeInv'
  BY HealthInvNext, ExchangeInvNext
<1>. BufferOwed /\ Taken \in Int
  BY TakenType DEF AccountInv
<1>. USE DEF ioVars
<1>1. CASE EvConnect \/ Tick \/ (\E e \in AppEvents : Push(e)) \/ UNCHANGED vars
  <2>1. UNCHANGED <<accountVars, pc, feed_result>>
    BY <1>1, Zenon
    DEF EvConnect, Tick, Push, vars, d20Vars, exchangeVars, fsmVars, accountVars
  <2>. QED BY <2>1, AccountKept DEF Unhandled
<1>2. CASE \E q \in EvRequests : EvSend(q)
  <2>1. PICK q \in EvRequests : EvSend(q)
    BY <1>2
  <2>2. /\ BufferOwed'
        /\ Taken' = Taken
        /\ pc = "idle" /\ connected = "yes" /\ pc' = pc
        /\ UNCHANGED <<packet, request, response>>
    BY <2>1, SendAccount DEF EvSend, d20Vars, exchangeVars
  <2>3. ~Busy /\ ~Busy'
    BY <2>2, Unoccupied DEF Busy
  <2>. QED BY <2>2, <2>3 DEF AccountInv, Busy, Unhandled
<1>3. CASE PollStart
  <2>1. /\ pc = "idle" /\ pc' = "control" /\ connected = "yes"
        /\ UNCHANGED <<owed, request, response>>
    BY <1>3 DEF PollStart, d20Vars, exchangeVars
  <2>2. ~Busy
    BY <2>1, Unoccupied DEF Busy
  <2>3. CASE UNCHANGED <<inbox, packet>>
    BY <2>1, <2>3, AccountKept DEF accountVars, Unhandled
  <2>4. CASE ~UNCHANGED <<inbox, packet>>
    <3>1. inbox # <<>> /\ packet' = Head(inbox) /\ inbox' = Tail(inbox)
      BY <1>3, <2>4 DEF PollStart
    <3>2. BufferOwed' /\ Taken' = Taken + 1 /\ owed'[Taken'] = packet'.type
      BY <2>1, <3>1, TakeAccount
    <3>3. packet' # NoMessage
      BY <3>1, NoMessageAssumption DEF TypeOK
    <3>4. request' = NoMessage /\ response' = NoMessage
      BY <2>1, <2>2 DEF Busy
    <3>5. Unencodable = {} => Taken = 0
      BY <2>1, <2>2 DEF AccountInv, Unhandled
    <3>6. Taken' > 0
      BY <3>2 DEF BufferOwed
    <3>. QED
      BY <2>1, <3>2, <3>3, <3>4, <3>5, <3>6 DEF AccountInv, LastTaken, Busy
  <2>. QED BY <2>3, <2>4
<1>4. CASE \/ ReadThrows \/ ControlDone \/ TimeoutFed \/ NoPacket \/ DecodeThrows
           \/ NoResponse \/ PollEnd \/ DelayedClose
  <2>1. UNCHANGED accountVars /\ pc \notin {"fed", "thrown"}
    BY <1>4
    DEF ReadThrows, ControlDone, TimeoutFed, NoPacket, DecodeThrows, NoResponse,
        PollEnd, DelayedClose, d20Vars, exchangeVars, accountVars
  <2>. QED BY <2>1, AccountKept DEF Unhandled
<1>5. CASE PopControl \/ OtherTimeout
  <2>1. /\ UNCHANGED <<inbox, owed, packet, request>>
        /\ pc \in {"control", "timeout"} /\ pc' \in {"control", "timeout_fed"}
    BY <1>5 DEF PopControl, OtherTimeout, FeedControl, FeedTimeout
  <2>2. response = NoMessage /\ response' = NoMessage
    BY <2>1 DEF HealthInv, SequenceInv
  <2>. QED BY <2>1, <2>2, AccountKept DEF accountVars, Unhandled
<1>6. CASE SetRequest
  <2>1. /\ pc = "timeout" /\ pc' = "feed"
        /\ packet # NoMessage /\ request = NoMessage
        /\ request' = packet /\ packet' = NoMessage
        /\ UNCHANGED <<inbox, owed, response>>
    BY <1>6 DEF SetRequest
  <2>2. Taken' = Taken /\ BufferOwed' /\ Busy /\ Busy'
    BY <2>1 DEF Taken, BufferOwed, Busy
  <2>. QED BY <2>1, <2>2 DEF AccountInv, LastTaken, Unhandled
<1>7. CASE Feed
  BY <1>7, FeedAccount
<1>8. CASE CheckFeedResult
  <2>1. UNCHANGED accountVars /\ pc = "fed" /\ feed_result # "Unhandled"
    BY <1>8 DEF CheckFeedResult, exchangeVars, accountVars, Finishing
  <2>. QED BY <2>1, AccountKept DEF Unhandled
<1>9. CASE Respond
  <2>1. /\ pc = "respond" /\ pc' = "finish"
        /\ response # NoMessage /\ response' = NoMessage
        /\ UNCHANGED <<inbox, packet, request>>
    BY <1>9 DEF Respond
  <2>2. packet = NoMessage /\ request = NoMessage /\ LastTaken(response.type)
    BY <2>1, Unoccupied DEF AccountInv, Unhandled
  <2>3. owed' = Tail(owed)
    BY <1>9, <2>2 DEF Respond, LastTaken, Taken, TypeOK
  <2>4. BufferOwed' /\ Taken' = Taken - 1
    BY <2>1, <2>2, <2>3, AnswerAccount DEF LastTaken
  <2>5. Unencodable = {} => Taken = 1
    BY <2>1 DEF AccountInv, Unhandled, Busy
  <2>. QED
    BY <2>1, <2>2, <2>4, <2>5 DEF AccountInv, Busy
<1>10. CASE ResponseDiscarded \/ RespondThrows
  <2>1. /\ response' = NoMessage
        /\ pc = "respond"
        /\ pc' = "thrown" \/ Unencodable # {}
        /\ UNCHANGED <<inbox, owed, packet, request>>
    BY <1>10 DEF ResponseDiscarded, RespondThrows
  <2>2. Taken' = Taken /\ BufferOwed'
    BY <2>1 DEF Taken, BufferOwed
  <2>. QED BY <2>1, <2>2 DEF AccountInv, LastTaken
<1>11. CASE SequenceTimeout \/ Close
  BY <1>11 DEF SequenceTimeout, Close, Finishing
<1>. QED
  BY <1>1, <1>2, <1>3, <1>4, <1>5, <1>6, <1>7, <1>8, <1>9, <1>10, <1>11
  DEF Next, PollStep

-----------------------------------------------------------------------------
(* A silent EV is noticed *)

\* Behind SupportedAppProtocol the sequence timer of a healthy session only stands
\* still while a request is in work, or when its response was discarded; a timeout
\* that is fed is none of the sequence timer, so it is not reset either.
SupervisedInv ==
    /\ ~Finishing /\ current_state # "SupportedAppProtocol" /\ ~timeouts["SEQUENCE"].on
          => Busy \/ pc = "thrown" \/ Unhandled \/ Unanswerable
    /\ pc = "timeout_fed" => active_timeout # "SEQUENCE"

\* The steps that leave the sequence timer and all that is in work alone.
LEMMA SupervisedKept ==
    ASSUME SupervisedInv, ~Finishing, UNCHANGED <<accountVars, current_state>>,
           timeouts["SEQUENCE"].on => timeouts'["SEQUENCE"].on,
           pc # "thrown", ~Unhandled, pc' # "timeout_fed"
    PROVE  SupervisedInv'
<1>1. Busy' = Busy /\ Unanswerable' = Unanswerable
  BY DEF accountVars, Busy, Unanswerable, Taken
<1>. QED BY <1>1 DEF SupervisedInv

LEMMA SupervisedInvNext ==
    TypeOK /\ ExchangeInv /\ HealthInv /\ AccountInv /\ SupervisedInv /\ [Next]_vars
        => SupervisedInv'
<1>. SUFFICES ASSUME TypeOK, ExchangeInv, HealthInv, AccountInv, SupervisedInv,
                     [Next]_vars
              PROVE  SupervisedInv'
  OBVIOUS
<1>. USE DEF ioVars
<1>1. pc' = "timeout_fed" => active_timeout' # "SEQUENCE"
  <2>1. CASE OtherTimeout
    BY <2>1 DEF OtherTimeout
  <2>2. CASE \/ EvConnect \/ Tick \/ (\E e \in AppEvents : Push(e)) \/ UNCHANGED vars
             \/ (\E q \in EvRequests : EvSend(q))
    BY <2>2, Zenon DEF EvConnect, Tick, Push, EvSend, vars, pollVars, SupervisedInv
  <2>3. CASE \/ PollStart \/ ReadThrows \/ PopControl \/ ControlDone
             \/ SequenceTimeout \/ TimeoutFed \/ NoPacket \/ SetRequest \/ DecodeThrows
             \/ Feed \/ CheckFeedResult \/ NoResponse \/ Respond
             \/ ResponseDiscarded \/ RespondThrows \/ Close \/ PollEnd \/ DelayedClose
    BY <2>3
    DEF PollStart, ReadThrows, PopControl, ControlDone, SequenceTimeout, TimeoutFed,
        NoPacket, SetRequest, DecodeThrows, Feed, CheckFeedResult, NoResponse, Respond,
        ResponseDiscarded, RespondThrows, Close, PollEnd, DelayedClose
  <2>. QED BY <2>1, <2>2, <2>3 DEF Next, PollStep
<1>. SUFFICES ASSUME ~Finishing', current_state' # "SupportedAppProtocol",
                     ~timeouts'["SEQUENCE"].on
              PROVE  (Busy \/ pc = "thrown" \/ Unhandled \/ Unanswerable)'
  BY <1>1 DEF SupervisedInv
<1>. ~Finishing
  BY FinishingStays
<1>. HealthInv' /\ AccountInv'
  BY HealthInvNext, AccountInvNext
<1>. timeouts \in [TimeoutTypes -> Deadlines]
  BY DEF TypeOK, D20TypeOK
<1>. USE TheTimeouts
<1>2. CASE UNCHANGED vars
  BY <1>2
  DEF vars, d20Vars, fsmVars, exchangeVars, sessionVars, SupervisedInv, Busy,
      Unhandled, Unanswerable, Taken, Finishing
<1>3. CASE EvConnect \/ Tick \/ (\E e \in AppEvents : Push(e))
  <2>1. /\ UNCHANGED <<accountVars, current_state, pc>>
        /\ pc \in {"idle", "control"}
        /\ timeouts'["SEQUENCE"].on = timeouts["SEQUENCE"].on
    <3>1. CASE Tick
      BY <3>1, ElapsedTimers DEF Tick, fsmVars, exchangeVars, accountVars
    <3>2. CASE EvConnect \/ (\E e \in AppEvents : Push(e))
      BY <3>2, Zenon
      DEF EvConnect, Push, d20Vars, exchangeVars, fsmVars, accountVars
    <3>. QED BY <1>3, <3>1, <3>2
  <2>. QED BY <2>1, SupervisedKept DEF SupervisedInv, Unhandled
<1>4. CASE \E q \in EvRequests : EvSend(q)
  <2>1. PICK q \in EvRequests : EvSend(q)
    BY <1>4
  <2>2. /\ Taken' = Taken
        /\ \A k \in 1 .. Taken : owed'[k] = owed[k]
        /\ UNCHANGED <<packet, request, response, current_state, timeouts>>
        /\ pc = "idle"
    BY <2>1, SendAccount DEF EvSend, d20Vars, exchangeVars, fsmVars, AccountInv
  <2>3. Busy \/ Unanswerable
    BY <2>2 DEF SupervisedInv, Unhandled
  <2>4. Unanswerable => Unanswerable'
    BY <2>2, TakenType DEF Unanswerable
  <2>. QED BY <2>2, <2>3, <2>4 DEF Busy
<1>5. CASE PollStart
  <2>1. CASE UNCHANGED <<inbox, packet>>
    <3>1. UNCHANGED <<accountVars, current_state, timeouts>> /\ pc = "idle"
      BY <1>5, <2>1 DEF PollStart, d20Vars, exchangeVars, fsmVars, accountVars
    <3>2. pc' = "control"
      BY <1>5 DEF PollStart
    <3>. QED BY <3>1, <3>2, SupervisedKept DEF SupervisedInv, Unhandled
  <2>2. CASE ~UNCHANGED <<inbox, packet>>
    <3>1. packet' # NoMessage
      BY <1>5, <2>2, NoMessageAssumption DEF PollStart, TypeOK
    <3>. QED BY <3>1 DEF Busy
  <2>. QED BY <2>1, <2>2
<1>6. CASE ReadThrows \/ DecodeThrows \/ RespondThrows
  BY <1>6 DEF ReadThrows, DecodeThrows, RespondThrows
<1>7. CASE ControlDone \/ NoPacket \/ NoResponse \/ PollEnd \/ DelayedClose
  <2>1. /\ UNCHANGED <<accountVars, current_state, timeouts>>
        /\ pc \notin {"fed", "thrown"} /\ pc' # "timeout_fed"
    BY <1>7
    DEF ControlDone, NoPacket, NoResponse, PollEnd, DelayedClose, d20Vars,
        exchangeVars, fsmVars, accountVars
  <2>. QED BY <2>1, SupervisedKept DEF SupervisedInv, Unhandled
<1>8. CASE PopControl \/ OtherTimeout
  <2>1. /\ UNCHANGED <<inbox, owed, packet, request>>
        /\ pc \in {"control", "timeout"} /\ pc' \in {"control", "timeout_fed"}
    BY <1>8 DEF PopControl, OtherTimeout, FeedControl, FeedTimeout
  <2>2. response = NoMessage /\ response' = NoMessage
    BY <2>1 DEF HealthInv, SequenceInv
  <2>3. local.previous_req = "None"
    BY <2>1, HealthyAtRest
  <2>4. timeouts'["SEQUENCE"] = timeouts["SEQUENCE"]
    BY <1>8, StopTimeout
    DEF PopControl, OtherTimeout, FeedControl, ClosedContactor, FeedTimeout, quietVars
  <2>5. current_state' = current_state
    BY <1>8, <2>3
    DEF PopControl, OtherTimeout, FeedControl, ClosedContactor, FeedTimeout, Stay
  <2>6. Busy \/ Unanswerable
    BY <2>1, <2>4, <2>5 DEF SupervisedInv, Unhandled
  <2>. QED BY <2>1, <2>2, <2>6 DEF Busy, Unanswerable, Taken
<1>9. CASE TimeoutFed
  <2>1. active_timeout # "SEQUENCE" /\ active_timeout \in TimeoutTypes \cup {"None"}
    BY <1>9 DEF TimeoutFed, SupervisedInv, TypeOK
  <2>2. timeouts'["SEQUENCE"] = timeouts["SEQUENCE"]
    BY <1>9, <2>1 DEF TimeoutFed, reset_timeout
  <2>3. UNCHANGED <<accountVars, current_state>>
    BY <1>9 DEF TimeoutFed, exchangeVars, fsmVars, accountVars
  <2>4. pc = "timeout_fed" /\ pc' = "timeout"
    BY <1>9 DEF TimeoutFed
  <2>. QED BY <2>2, <2>3, <2>4, SupervisedKept DEF SupervisedInv, Unhandled
<1>10. CASE SetRequest
  BY <1>10 DEF SetRequest, Busy
<1>11. CASE Feed
  <2>1. pc' = "fed" /\ FedAnswer(request)
    BY <1>11, FeedAnswers DEF Feed, TypeOK
  <2>2. Unhandled' \/ Answered(request)
    BY <2>1
    DEF FedAnswer, AwaitedThen, PowerDelivery_await, AnsweredAndLeft,
        AnsweredOrIgnored, Stay, Unhandled
  <2>. QED BY <2>2, NoMessageAssumption DEF Answered, Busy
<1>12. CASE CheckFeedResult
  <2>1. /\ UNCHANGED <<accountVars, current_state, timeouts>>
        /\ pc = "fed" /\ pc' = "respond" /\ feed_result # "Unhandled"
    BY <1>12 DEF CheckFeedResult, exchangeVars, fsmVars, accountVars, Finishing
  <2>. QED BY <2>1, SupervisedKept DEF SupervisedInv, Unhandled
<1>13. CASE Respond
  BY <1>13, StartTimeout DEF Respond
<1>14. CASE ResponseDiscarded
  <2>1. LastTaken(response.type) /\ response.type \in Unencodable
    BY <1>14 DEF ResponseDiscarded, AccountInv, Unhandled
  <2>. QED BY <1>14, <2>1 DEF ResponseDiscarded, LastTaken, Unanswerable, Taken
<1>15. CASE SequenceTimeout \/ Close
  BY <1>15 DEF SequenceTimeout, Close, Finishing
<1>. QED
  BY <1>2, <1>3, <1>4, <1>5, <1>6, <1>7, <1>8, <1>9, <1>10, <1>11, <1>12, <1>13, <1>14,
     <1>15
  DEF Next, PollStep

LEMMA SupervisedInvCorrect == Spec => [](ExchangeInv /\ AccountInv /\ SupervisedInv)
<1>1. Init => ExchangeInv /\ AccountInv /\ SupervisedInv
  BY AccountInvInit DEF Init, ExchangeInv, ExchangeEmptied, SupervisedInv
<1>2. ExchangeInv /\ [Next]_vars => ExchangeInv'
  BY ExchangeInvNext
<1>3. TypeOK /\ ExchangeInv /\ HealthInv /\ AccountInv /\ [Next]_vars => AccountInv'
  BY AccountInvNext
<1>4. TypeOK /\ ExchangeInv /\ HealthInv /\ AccountInv /\ SupervisedInv
        /\ [Next]_vars => SupervisedInv'
  BY SupervisedInvNext
<1>. QED
  BY <1>1, <1>2, <1>3, <1>4, TypeCorrectness, HealthInvCorrect, PTL DEF Spec

LEMMA Supervision ==
    ExchangeInv /\ HealthInv /\ SupervisedInv => SequenceSupervised
BY Unoccupied
DEF HealthInv, SequenceInv, SupervisedInv, SequenceSupervised, Busy, Unhandled

LEMMA HealthyAnswers == HealthInv /\ AccountInv => HealthyAnswersInOrder
BY DEF AccountInv, HealthyAnswersInOrder, LastTaken, Busy, Unhandled

\* Nothing poll(), the states or the application do in any order leaves a healthy
\* session without its sequence timer between two polls, but a response that could
\* not be encoded.
THEOREM SessionIsSupervised == Spec => []SequenceSupervised
<1>1. ExchangeInv /\ HealthInv /\ SupervisedInv => SequenceSupervised
  BY Supervision
<1>. QED BY <1>1, HealthInvCorrect, SupervisedInvCorrect, PTL

\* A healthy session answers every request once and in order, however far the EV sends
\* ahead and whatever events and timeouts come in between.
THEOREM HealthyAnswersAreInOrder == Spec => []HealthyAnswersInOrder
<1>1. HealthInv /\ AccountInv => HealthyAnswersInOrder
  BY HealthyAnswers
<1>. QED BY <1>1, HealthInvCorrect, SupervisedInvCorrect, PTL

-----------------------------------------------------------------------------
(* An EV that waits for its answers *)

\* The contactor timer, its timeout and a saved request belong to a session that asked
\* for the contactor; in PowerDelivery there is no timer without a saved request, and
\* the timer is not reset before its timeout is answered.
ContactorTimerInv ==
    /\ timeouts["CONTACTOR"].on => current_state \in ContactorStates
    /\ timeouts["CONTACTOR"].on /\ current_state = "PowerDelivery"
          => local.previous_req # "None"
    /\ timeouts["CONTACTOR"].on => "AC_CLOSE_CONTACTOR" \in signals
    /\ "CONTACTOR" \in pending => "AC_CLOSE_CONTACTOR" \in signals
    /\ local.previous_req # "None" => "AC_CLOSE_CONTACTOR" \in signals
    /\ pc = "timeout_fed" /\ active_timeout = "CONTACTOR" /\ current_state = "PowerDelivery"
          => response # NoMessage

\* The steps that feed nothing to the state machine and start no timer.
LEMMA NoFeedTimerInv ==
    ASSUME ContactorTimerInv, UNCHANGED <<fsmVars, signals>>,
           timeouts'["CONTACTOR"].on => timeouts["CONTACTOR"].on,
           "CONTACTOR" \in pending' => "CONTACTOR" \in pending \/ timeouts["CONTACTOR"].on,
           pc' = "timeout_fed" => UNCHANGED <<pc, active_timeout, response>>
    PROVE  ContactorTimerInv'
BY DEF ContactorTimerInv, fsmVars

LEMMA FeedTimerInv == ASSUME TypeOK, ContactorTimerInv, Feed PROVE ContactorTimerInv'
<1>1. pc' = "fed" /\ pending' = pending /\ FedAnswer(request)
  BY FeedAnswers DEF Feed, pollVars, TypeOK
<1>2. timeouts \in [TimeoutTypes -> Deadlines] /\ local \in Locals
  BY DEF TypeOK, D20TypeOK
<1>3. CASE AwaitedThen(request)
  <2>1. "AC_CLOSE_CONTACTOR" \in signals' /\ current_state' = "PowerDelivery"
    BY <1>3 DEF AwaitedThen, PowerDelivery_await, Stay
  <2>2. local'.previous_req # "None"
    BY <1>2, <1>3 DEF AwaitedThen, PowerDelivery_await, Stay, Locals
  <2>. QED BY <1>1, <2>1, <2>2 DEF ContactorTimerInv, ContactorStates
<1>4. CASE AnsweredAndLeft(request) /\ ~AwaitedThen(request)
  <2>1. PICK s \in StateIDs :
          /\ Goto(s)
          /\ current_state \in ContactorStates
                => s \in ContactorStates \ {"PowerDelivery"}
    BY <1>4 DEF AnsweredAndLeft
  <2>2. current_state' = s /\ local'.previous_req = "None"
    BY <2>1, EnteredMembers DEF Goto
  <2>3. timeouts'["CONTACTOR"] = timeouts["CONTACTOR"] /\ signals \subseteq signals'
    BY <1>1, <1>4 DEF FedAnswer
  <2>. QED BY <1>1, <2>1, <2>2, <2>3 DEF ContactorTimerInv
<1>5. CASE AnsweredOrIgnored(request) /\ ~AwaitedThen(request)
  <2>1. current_state' = current_state /\ local'.previous_req = local.previous_req
    BY <1>5 DEF AnsweredOrIgnored, Stay, SameDecisions
  <2>2. timeouts'["CONTACTOR"] = timeouts["CONTACTOR"] /\ signals \subseteq signals'
    BY <1>1, <1>5 DEF FedAnswer
  <2>. QED BY <1>1, <2>1, <2>2 DEF ContactorTimerInv
<1>. QED BY <1>1, <1>3, <1>4, <1>5 DEF FedAnswer

LEMMA PopTimerInv == ASSUME TypeOK, ContactorTimerInv, PopControl PROVE ContactorTimerInv'
<1>. timeouts \in [TimeoutTypes -> Deadlines] /\ local \in Locals
  BY DEF TypeOK, D20TypeOK
<1>1. PICK e \in ControlEvents : FeedControl(e)
  BY DEF PopControl, TypeOK
<1>2. pc' = "control" /\ pending' = pending /\ signals' = signals
  BY <1>1 DEF PopControl, FeedControl
<1>3. CASE ClosedContactor
  <2>1. ~timeouts'["CONTACTOR"].on
    BY <1>3, StopTimeout, TheTimeouts DEF ClosedContactor
  <2>2. local'.previous_req \in {local.previous_req, "None"}
    <3>1. Stay([local EXCEPT !.closed = TRUE]) \/ Goto("AC_ChargeLoop")
      BY <1>3 DEF ClosedContactor
    <3>. QED BY <3>1, EnteredMembers, LocalsDecisions DEF Stay, Goto, SameDecisions
  <2>. QED BY <1>2, <2>1, <2>2 DEF ContactorTimerInv
<1>4. CASE Stay(Applied(e)) /\ timeouts' = timeouts
  BY <1>2, <1>4, AppliedDecisions DEF ContactorTimerInv, Stay
<1>. QED BY <1>1, <1>3, <1>4 DEF FeedControl

LEMMA OtherTimeoutTimerInv ==
    ASSUME TypeOK, ContactorTimerInv, OtherTimeout PROVE ContactorTimerInv'
<1>1. local \in Locals
  BY DEF TypeOK, D20TypeOK
<1>2. /\ UNCHANGED <<current_state, timeouts, signals>>
      /\ local'.previous_req = local.previous_req
      /\ pending' \subseteq pending
  BY <1>1, LocalsDecisions DEF OtherTimeout, FeedTimeout, Stay, quietVars, SameDecisions
<1>3. Res("PowerDeliveryReq", "FAILED") # NoMessage
  BY ResType, NoMessageAssumption, MessageTypesAre DEF Codes
<1>4. active_timeout' = "CONTACTOR" /\ current_state = "PowerDelivery"
        => response' # NoMessage
  BY <1>3 DEF OtherTimeout, FeedTimeout
<1>. QED BY <1>2, <1>4 DEF ContactorTimerInv

LEMMA ContactorTimerInvNext ==
    TypeOK /\ ContactorTimerInv /\ [Next]_vars => ContactorTimerInv'
<1>. SUFFICES ASSUME TypeOK, ContactorTimerInv, [Next]_vars PROVE ContactorTimerInv'
  OBVIOUS
<1>. timeouts \in [TimeoutTypes -> Deadlines]
  BY DEF TypeOK, D20TypeOK
<1>. USE TheTimeouts DEF ioVars, pollVars
<1>1. CASE UNCHANGED vars \/ EvConnect \/ (\E q \in EvRequests : EvSend(q))
           \/ (\E e \in AppEvents : Push(e))
  <2>1. UNCHANGED <<fsmVars, signals, timeouts, pending, pc, active_timeout, response>>
    BY <1>1, Zenon DEF vars, d20Vars, EvConnect, EvSend, Push, exchangeVars
  <2>. QED BY <2>1, NoFeedTimerInv
<1>2. CASE Tick
  BY <1>2, NoFeedTimerInv, ElapsedTimers DEF Tick
<1>3. CASE \/ PollStart \/ ReadThrows \/ NoPacket \/ DecodeThrows \/ CheckFeedResult
           \/ NoResponse \/ ResponseDiscarded \/ RespondThrows \/ Close \/ PollEnd
           \/ DelayedClose \/ SequenceTimeout
  <2>1. /\ UNCHANGED <<fsmVars, signals, timeouts>>
        /\ pending' \subseteq pending
        /\ pc' # "timeout_fed"
    BY <1>3
    DEF PollStart, ReadThrows, NoPacket, DecodeThrows, CheckFeedResult, NoResponse,
        ResponseDiscarded, RespondThrows, Close, PollEnd, DelayedClose,
        SequenceTimeout, d20Vars
  <2>. QED BY <2>1, NoFeedTimerInv
<1>4. CASE ControlDone
  BY <1>4, NoFeedTimerInv DEF ControlDone, check, IsReached, d20Vars
<1>5. CASE TimeoutFed
  BY <1>5, NoFeedTimerInv, ResetTimers DEF TimeoutFed
<1>6. CASE SetRequest
  BY <1>6, NoFeedTimerInv, StopTimeout DEF SetRequest
<1>7. CASE Respond
  BY <1>7, NoFeedTimerInv, StartTimeout DEF Respond
<1>8. CASE Feed \/ PopControl \/ OtherTimeout
  BY <1>8, FeedTimerInv, PopTimerInv, OtherTimeoutTimerInv
<1>. QED BY <1>1, <1>2, <1>3, <1>4, <1>5, <1>6, <1>7, <1>8 DEF Next, PollStep

\* What an EV that sends one request at a time waits for is the request in the receive
\* buffer or in work, or the response to it; only a PowerDeliveryReq of a session that
\* asked for the contactor is answered again.
WaitInv ==
    /\ owed = <<>> \/ Len(owed) = 1
    /\ inbox # <<>> =>
          /\ new_data
          /\ pc \in {"idle", "thrown"}
          /\ Len(inbox) = 1
          /\ owed = <<Head(inbox).type>>
    /\ packet # NoMessage => inbox = <<>> /\ owed = <<packet.type>>
    /\ request # NoMessage => inbox = <<>> /\ owed = <<request.type>>
    /\ response # NoMessage =>
          \/ owed = <<response.type>>
          \/ response.type = "PowerDeliveryReq" /\ "AC_CLOSE_CONTACTOR" \in signals

\* A PowerDeliveryReq the EV waits for in PowerDelivery is in the receive buffer or in
\* work, or the contactor timer runs.
AwaitedInv ==
    (/\ connected = "yes"
     /\ current_state = "PowerDelivery"
     /\ owed = <<"PowerDeliveryReq">>
     /\ "PowerDeliveryReq" \notin Unencodable)
        => inbox # <<>> \/ Busy \/ timeouts["CONTACTOR"].on \/ pc = "thrown"

\* The steps that move no message.
LEMMA WaitKept ==
    ASSUME WaitInv, UNCHANGED <<accountVars, signals>>,
           inbox # <<>> => UNCHANGED new_data /\ pc' \in {"idle", "thrown"}
    PROVE  WaitInv'
BY DEF WaitInv, accountVars

LEMMA SendWait ==
    ASSUME MaxOutstanding = 1, TypeOK, ExchangeInv, WaitInv, NEW q \in EvRequests,
           EvSend(q)
    PROVE  WaitInv'
<1>. DEFINE r == [q EXCEPT !.sid = SessionId(q.sid)]
<1>1. r \in Messages /\ q.type \in MessageTypes
  BY EvRequestType DEF TypeOK
<1>2. r.type = q.type
  <2>1. PICK type \in MessageTypes :
          q \in [type : {type}, sid : {"zero", "own", "paused"}, arg : Args[type]]
    BY EnvironmentAssumption
  <2>. QED BY <2>1
<1>3. inbox' = Append(inbox, r) /\ owed' = Append(owed, q.type) /\ new_data' = TRUE
  BY DEF EvSend
<1>. HIDE DEF r
<1>4. owed = <<>>
  BY DEF EvSend, WaitInv, TypeOK
<1>5. inbox = <<>> /\ packet = NoMessage /\ request = NoMessage
  BY <1>4 DEF WaitInv
<1>6. inbox' = <<r>> /\ owed' = <<r.type>> /\ Head(inbox') = r /\ Len(inbox') = 1
      /\ Len(owed') = 1
  BY <1>1, <1>2, <1>3, <1>4, <1>5
<1>7. UNCHANGED <<packet, request, response, signals, pc>> /\ pc = "idle"
  BY DEF EvSend, d20Vars, exchangeVars
<1>8. response # NoMessage
        => response.type = "PowerDeliveryReq" /\ "AC_CLOSE_CONTACTOR" \in signals
  BY <1>4 DEF WaitInv
<1>. QED BY <1>3, <1>5, <1>6, <1>7, <1>8 DEF WaitInv

LEMMA StartWait == ASSUME TypeOK, ExchangeInv, WaitInv, PollStart PROVE WaitInv'
<1>1. /\ pc = "idle" /\ pc' = "control"
      /\ UNCHANGED <<owed, request, response, signals>>
  BY DEF PollStart, d20Vars, exchangeVars
<1>2. CASE inbox = <<>>
  <2>1. UNCHANGED <<inbox, packet>>
    BY <1>2 DEF PollStart
  <2>. QED BY <1>1, <1>2, <2>1 DEF WaitInv
<1>3. CASE inbox # <<>>
  <2>1. packet' = Head(inbox) /\ inbox' = Tail(inbox)
    BY <1>3 DEF PollStart, WaitInv
  <2>2. Len(inbox) = 1 /\ owed = <<Head(inbox).type>>
    BY <1>3 DEF WaitInv
  <2>3. inbox' = <<>>
    BY <1>3, <2>1, <2>2 DEF TypeOK
  <2>. QED BY <1>1, <2>1, <2>2, <2>3 DEF WaitInv
<1>. QED BY <1>2, <1>3

LEMMA FeedWait == ASSUME TypeOK, ExchangeInv, WaitInv, Feed PROVE WaitInv'
<1>1. /\ request # NoMessage /\ request' = NoMessage
      /\ UNCHANGED <<inbox, packet, owed>>
      /\ FedAnswer(request)
  BY FeedAnswers DEF Feed, FeedMessage, TypeOK, ioVars
<1>2. owed = <<request.type>> /\ inbox = <<>>
  BY <1>1 DEF WaitInv
<1>3. \/ response'.type = request.type
      \/ response' = response /\ signals \subseteq signals'
  BY <1>1
  DEF FedAnswer, AnsweredAndLeft, AnsweredOrIgnored, Answered, AwaitedThen,
      PowerDelivery_await
<1>. QED BY <1>1, <1>2, <1>3 DEF WaitInv

LEMMA ContactorWait ==
    ASSUME TypeOK, ContactorTimerInv, WaitInv, PopControl \/ OtherTimeout
    PROVE  WaitInv'
<1>1. UNCHANGED <<inbox, packet, owed, request, signals>> /\ inbox = <<>>
  BY DEF PopControl, OtherTimeout, FeedControl, FeedTimeout, ioVars, quietVars, WaitInv
<1>2. \/ response' = response
      \/ response'.type = "PowerDeliveryReq" /\ "AC_CLOSE_CONTACTOR" \in signals
  <2>1. CASE PopControl
    BY <2>1 DEF PopControl, FeedControl, ClosedContactor, Res, ContactorTimerInv
  <2>2. CASE OtherTimeout
    <3>1. Earliest(timeouts, pending) \in pending
      BY <2>2, EarliestType DEF OtherTimeout, TypeOK, D20TypeOK
    <3>. QED
      BY <2>2, <3>1 DEF OtherTimeout, FeedTimeout, Res, ContactorTimerInv
  <2>. QED BY <2>1, <2>2
<1>. QED BY <1>1, <1>2 DEF WaitInv

LEMMA WaitInvNext ==
    ASSUME MaxOutstanding = 1
    PROVE  TypeOK /\ ExchangeInv /\ ContactorTimerInv /\ WaitInv /\ [Next]_vars
              => WaitInv'
<1>. SUFFICES ASSUME TypeOK, ExchangeInv, ContactorTimerInv, WaitInv, [Next]_vars
              PROVE  WaitInv'
  OBVIOUS
<1>. USE DEF ioVars
<1>1. CASE UNCHANGED vars \/ EvConnect \/ (\E e \in AppEvents : Push(e)) \/ Tick
  <2>1. UNCHANGED <<accountVars, signals, new_data, pc>>
    BY <1>1, Zenon DEF vars, d20Vars, EvConnect, Push, Tick, exchangeVars, accountVars
  <2>. QED BY <2>1, WaitKept DEF WaitInv
<1>2. CASE \/ ReadThrows \/ ControlDone \/ SequenceTimeout \/ TimeoutFed \/ NoPacket
           \/ DecodeThrows \/ CheckFeedResult \/ NoResponse \/ PollEnd \/ DelayedClose
           \/ Close
  <2>1. /\ UNCHANGED <<accountVars, signals, new_data>>
        /\ pc \in {"idle", "thrown"} => pc' \in {"idle", "thrown"}
    BY <1>2
    DEF ReadThrows, ControlDone, SequenceTimeout, TimeoutFed, NoPacket, DecodeThrows,
        CheckFeedResult, NoResponse, PollEnd, DelayedClose, Close, d20Vars,
        exchangeVars, accountVars
  <2>. QED BY <2>1, WaitKept DEF WaitInv
<1>3. CASE SetRequest
  BY <1>3 DEF SetRequest, WaitInv
<1>4. CASE Respond
  <2>1. /\ pc = "respond"
        /\ response' = NoMessage
        /\ UNCHANGED <<inbox, packet, request>>
        /\ owed = <<>> => owed' = owed
        /\ owed # <<>> => owed' = Tail(owed)
    BY <1>4 DEF Respond
  <2>2. packet = NoMessage /\ request = NoMessage /\ inbox = <<>>
    BY <1>4, <2>1 DEF ExchangeInv, ExchangeEmptied, WaitInv
  <2>3. owed' = <<>>
    BY <2>1 DEF WaitInv, TypeOK
  <2>. QED BY <2>1, <2>2, <2>3 DEF WaitInv
<1>5. CASE ResponseDiscarded \/ RespondThrows
  BY <1>5 DEF ResponseDiscarded, RespondThrows, WaitInv
<1>6. CASE (\E q \in EvRequests : EvSend(q)) \/ PollStart \/ Feed
  BY <1>6, SendWait, StartWait, FeedWait
<1>7. CASE PopControl \/ OtherTimeout
  BY <1>7, ContactorWait
<1>. QED BY <1>1, <1>2, <1>3, <1>4, <1>5, <1>6, <1>7 DEF Next, PollStep

\* The steps that leave the messages and the contactor timer alone.
LEMMA AwaitedKept ==
    ASSUME AwaitedInv, UNCHANGED <<accountVars, current_state>>,
           connected' = "yes" => connected = "yes" \/ current_state # "PowerDelivery",
           timeouts["CONTACTOR"].on => timeouts'["CONTACTOR"].on,
           pc # "thrown" \/ pc' = "thrown"
    PROVE  AwaitedInv'
BY DEF AwaitedInv, accountVars, Busy

LEMMA FeedAwaited == ASSUME TypeOK, WaitInv, AwaitedInv, Feed PROVE AwaitedInv'
<1>1. /\ request # NoMessage
      /\ UNCHANGED <<inbox, owed, connected>>
      /\ FedAnswer(request)
  BY FeedAnswers DEF Feed, FeedMessage, TypeOK, ioVars
<1>2. owed = <<request.type>>
  BY <1>1 DEF WaitInv
<1>3. CASE Answered(request)
  BY <1>3, NoMessageAssumption DEF Answered, AwaitedInv, Busy
<1>4. CASE AwaitedThen(request)
  BY <1>4, StartTimeout, TheTimeouts
  DEF AwaitedThen, PowerDelivery_await, AwaitedInv, TypeOK, D20TypeOK
<1>5. CASE AnsweredOrIgnored(request) /\ ~Answered(request)
  <2>1. ~(current_state = "PowerDelivery" /\ request.type = "PowerDeliveryReq")
        /\ current_state' = current_state
    BY <1>5 DEF AnsweredOrIgnored, Stay
  <2>. QED BY <1>1, <1>2, <2>1 DEF AwaitedInv
<1>. QED BY <1>1, <1>3, <1>4, <1>5 DEF FedAnswer, AnsweredAndLeft

LEMMA PopAwaited ==
    ASSUME TypeOK, ContactorTimerInv, AwaitedInv, PopControl PROVE AwaitedInv'
<1>1. PICK e \in ControlEvents : FeedControl(e)
  BY DEF PopControl, TypeOK
<1>2. UNCHANGED <<inbox, owed, connected, packet, request, pc>>
  BY <1>1 DEF PopControl, FeedControl, ioVars
<1>3. CASE current_state = "PowerDelivery" /\ ClosedContactor
  <2>1. CASE local.previous_req = "None"
    BY <1>2, <1>3, <2>1
    DEF ClosedContactor, ContactorTimerInv, AwaitedInv, Busy, Stay
  <2>2. CASE local.previous_req # "None"
    <3>1. Res("PowerDeliveryReq", "OK") # NoMessage
          /\ Res("PowerDeliveryReq", "FAILED") # NoMessage
      BY ResType, NoMessageAssumption, MessageTypesAre DEF Codes
    <3>. QED BY <1>3, <2>2, <3>1 DEF ClosedContactor, AwaitedInv, Busy
  <2>. QED BY <2>1, <2>2
<1>4. CASE Stay(Applied(e)) /\ UNCHANGED <<response, timeouts>>
  BY <1>2, <1>4, AwaitedKept DEF accountVars, Stay
<1>. QED BY <1>1, <1>3, <1>4 DEF FeedControl

LEMMA AwaitedInvNext ==
    ASSUME MaxOutstanding = 1
    PROVE  TypeOK /\ ConnectInv /\ ContactorTimerInv /\ WaitInv /\ AwaitedInv
              /\ [Next]_vars => AwaitedInv'
<1>. SUFFICES ASSUME TypeOK, ConnectInv, ContactorTimerInv, WaitInv, AwaitedInv,
                     [Next]_vars
              PROVE  AwaitedInv'
  OBVIOUS
<1>. timeouts \in [TimeoutTypes -> Deadlines]
  BY DEF TypeOK, D20TypeOK
<1>. USE TheTimeouts DEF ioVars
<1>1. CASE UNCHANGED vars \/ EvConnect \/ (\E e \in AppEvents : Push(e))
  <2>1. /\ UNCHANGED <<accountVars, current_state, timeouts, pc>>
        /\ connected' = connected \/ connected = "no"
    BY <1>1, Zenon
    DEF vars, d20Vars, EvConnect, Push, exchangeVars, fsmVars, accountVars
  <2>. QED BY <2>1, AwaitedKept DEF ConnectInv
<1>2. CASE Tick
  BY <1>2, AwaitedKept, ElapsedTimers DEF Tick, exchangeVars, fsmVars, accountVars
<1>3. CASE \E q \in EvRequests : EvSend(q)
  <2>1. inbox' # <<>>
    BY <1>3, EvRequestType DEF EvSend, TypeOK
  <2>. QED BY <2>1 DEF AwaitedInv
<1>4. CASE PollStart
  <2>1. CASE inbox = <<>>
    BY <1>4, <2>1, AwaitedKept
    DEF PollStart, d20Vars, exchangeVars, fsmVars, accountVars
  <2>2. CASE inbox # <<>>
    <3>1. packet' = Head(inbox)
      BY <1>4, <2>2 DEF PollStart, WaitInv
    <3>2. packet' # NoMessage
      BY <2>2, <3>1, NoMessageAssumption DEF TypeOK
    <3>. QED BY <3>2 DEF AwaitedInv, Busy
  <2>. QED BY <2>1, <2>2
<1>5. CASE ReadThrows \/ DecodeThrows \/ RespondThrows
  BY <1>5 DEF ReadThrows, DecodeThrows, RespondThrows, AwaitedInv
<1>6. CASE \/ ControlDone \/ SequenceTimeout \/ NoPacket \/ CheckFeedResult
           \/ NoResponse \/ PollEnd
  <2>1. UNCHANGED <<accountVars, current_state, timeouts, connected>> /\ pc # "thrown"
    BY <1>6
    DEF ControlDone, SequenceTimeout, NoPacket, CheckFeedResult, NoResponse, PollEnd,
        d20Vars, exchangeVars, fsmVars, accountVars
  <2>. QED BY <2>1, AwaitedKept
<1>7. CASE Close \/ DelayedClose
  BY <1>7 DEF Close, DelayedClose, AwaitedInv
<1>8. CASE OtherTimeout
  <2>1. /\ UNCHANGED <<inbox, owed, packet, request, current_state, connected, timeouts>>
        /\ pc = "timeout"
    BY <1>8 DEF OtherTimeout, FeedTimeout, Stay, quietVars
  <2>2. response # NoMessage => response' # NoMessage
    <3>1. Res("PowerDeliveryReq", "FAILED") # NoMessage
      BY ResType, NoMessageAssumption, MessageTypesAre DEF Codes
    <3>. QED BY <1>8, <3>1 DEF OtherTimeout, FeedTimeout
  <2>. QED BY <2>1, <2>2 DEF AwaitedInv, Busy
<1>9. CASE TimeoutFed
  <2>1. /\ UNCHANGED <<accountVars, current_state, connected>>
        /\ pc = "timeout_fed"
        /\ timeouts' = reset_timeout(timeouts, active_timeout)
    BY <1>9 DEF TimeoutFed, exchangeVars, fsmVars, accountVars
  <2>2. CASE active_timeout = "CONTACTOR"
    BY <2>1, <2>2 DEF ContactorTimerInv, AwaitedInv, Busy, accountVars
  <2>3. CASE active_timeout # "CONTACTOR"
    <3>1. timeouts'["CONTACTOR"] = timeouts["CONTACTOR"]
      BY <2>1, <2>3 DEF reset_timeout
    <3>. QED BY <2>1, <3>1, AwaitedKept
  <2>. QED BY <2>2, <2>3
<1>10. CASE SetRequest
  BY <1>10 DEF SetRequest, AwaitedInv, Busy
<1>11. CASE Respond
  <2>1. /\ owed = <<>> => owed' = owed
        /\ owed # <<>> => owed' = Tail(owed)
    BY <1>11 DEF Respond
  <2>2. owed' = <<>>
    BY <2>1 DEF WaitInv, TypeOK
  <2>. QED BY <2>2 DEF AwaitedInv
<1>12. CASE ResponseDiscarded
  BY <1>12 DEF ResponseDiscarded, WaitInv, AwaitedInv, fsmVars
<1>13. CASE Feed \/ PopControl
  BY <1>13, FeedAwaited, PopAwaited
<1>. QED
  BY <1>1, <1>2, <1>3, <1>4, <1>5, <1>6, <1>7, <1>8, <1>9, <1>10, <1>11, <1>12, <1>13
  DEF Next, PollStep

LEMMA AnswerInvInit ==
    Init => SupervisedInv /\ ContactorTimerInv /\ WaitInv /\ AwaitedInv
<1>. SUFFICES ASSUME Init
              PROVE  SupervisedInv /\ ContactorTimerInv /\ WaitInv /\ AwaitedInv
  OBVIOUS
<1>1. ~timeouts["CONTACTOR"].on /\ local.previous_req = "None"
  BY TheTimeouts DEF Init, NoTimeouts, Off, Constructed
<1>. QED BY <1>1 DEF Init, SupervisedInv, ContactorTimerInv, WaitInv, AwaitedInv

LEMMA AwaitedInvCorrect ==
    ASSUME MaxOutstanding = 1
    PROVE  Spec => [](ExchangeInv /\ ContactorTimerInv /\ WaitInv /\ AwaitedInv)
<1>1. Init => ExchangeInv /\ ContactorTimerInv /\ WaitInv /\ AwaitedInv
  BY AnswerInvInit DEF Init, ExchangeInv, ExchangeEmptied
<1>2. ExchangeInv /\ [Next]_vars => ExchangeInv'
  BY ExchangeInvNext
<1>3. TypeOK /\ ContactorTimerInv /\ [Next]_vars => ContactorTimerInv'
  BY ContactorTimerInvNext
<1>4. TypeOK /\ ExchangeInv /\ ContactorTimerInv /\ WaitInv /\ [Next]_vars => WaitInv'
  BY WaitInvNext
<1>5. TypeOK /\ ConnectInv /\ ContactorTimerInv /\ WaitInv /\ AwaitedInv
        /\ [Next]_vars => AwaitedInv'
  BY AwaitedInvNext
<1>. QED
  BY <1>1, <1>2, <1>3, <1>4, <1>5, TypeCorrectness, ConnectInvCorrect, PTL DEF Spec

LEMMA WaitedAnswers == WaitInv => AnswersInOrder
BY DEF WaitInv, AnswersInOrder

LEMMA WaitedContactor == ExchangeInv /\ AwaitedInv => ContactorAwaited
BY DEF AwaitedInv, ExchangeInv, ExchangeEmptied, ContactorAwaited, Busy, Unanswerable,
       Taken

\* An EV that waits for its answers gets none for another request, whatever the
\* application does in between, in a session that closed no contactor.
THEOREM AnswersAreInOrder ==
    ASSUME MaxOutstanding = 1 PROVE Spec => []AnswersInOrder
<1>1. WaitInv => AnswersInOrder
  BY WaitedAnswers
<1>. QED BY <1>1, AwaitedInvCorrect, PTL

\* A PowerDeliveryReq that waits for the contactor is always answered by the contactor
\* timer at last, if no event answers it: the timer runs as long as the EV waits.
THEOREM ContactorIsAwaited ==
    ASSUME MaxOutstanding = 1 PROVE Spec => []ContactorAwaited
<1>1. ExchangeInv /\ AwaitedInv => ContactorAwaited
  BY WaitedContactor
<1>. QED BY <1>1, AwaitedInvCorrect, PTL

=============================================================================
