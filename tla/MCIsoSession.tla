---------------------------- MODULE MCIsoSession ----------------------------
(***************************************************************************)
(* Small instances of IsoSession.  Each run gives the EV and the           *)
(* application the requests and events that matter for its question.       *)
(***************************************************************************)
EXTENDS IsoSession

Req(type, arg) == [type |-> type, sid |-> "own", arg |-> arg]

Foreign(type, arg) == [type |-> type, sid |-> "zero", arg |-> arg]

Bool(kind) == {[kind |-> kind, val |-> b] : b \in BOOLEAN}

Updates(kind) == {[kind |-> kind, val |-> x] : x \in Values}

Unset == {NoPause}

Plain == {NoCert}

DcOnly == {"DC"}

AcOnly == {"AC"}

\* The path to the selection of a service.
SetupRequests ==
    {Req("SupportedAppProtocolReq", "known"), Foreign("SessionSetupReq", "-"),
     Req("AuthorizationSetupReq", "-"), Req("AuthorizationReq", "EIM"),
     Req("ServiceDiscoveryReq", "any")}

-----------------------------------------------------------------------------
(* DcSession: a whole DC session, with the requests that do not fit *)

DcRequests ==
    SetupRequests \cup
    {Req("ServiceDetailReq", "DC"), Req("ServiceSelectionReq", "DC"),
     Req("DC_ChargeParameterDiscoveryReq", "match"),
     Req("ScheduleExchangeReq", "match"), Req("DC_CableCheckReq", "-"),
     Req("DC_PreChargeReq", "-"), Req("PowerDeliveryReq", "Start"),
     Req("PowerDeliveryReq", "Stop"), Req("DC_ChargeLoopReq", "match"),
     Req("DC_WeldingDetectionReq", "Ongoing"),
     Req("DC_WeldingDetectionReq", "Finished"), Req("SessionStopReq", "Terminate"),
     Req("SessionStopReq", "Pause"),
     Foreign("DC_CableCheckReq", "-"), Foreign("DC_PreChargeReq", "-"),
     Foreign("PowerDeliveryReq", "Stop"), Req("DC_ChargeLoopReq", "mismatch")}

DcEvents ==
    Bool("AuthorizationResponse") \cup Bool("CableCheckFinished")
        \cup {[kind |-> "ClosedContactor", val |-> TRUE]}

-----------------------------------------------------------------------------
(* ContactorClosed: a whole AC session *)

StartRequests ==
    SetupRequests \cup
    {Req("ServiceDetailReq", "AC"), Req("ServiceSelectionReq", "AC"),
     Req("AC_ChargeParameterDiscoveryReq", "match"),
     Req("ScheduleExchangeReq", "match"), Req("PowerDeliveryReq", "Start"),
     Req("AC_ChargeLoopReq", "match"), Req("SessionStopReq", "Terminate")}

AcEvents ==
    {[kind |-> "AuthorizationResponse", val |-> TRUE]} \cup Bool("ClosedContactor")

-----------------------------------------------------------------------------
(* Overlap: an EV that sends a second request before the first is answered, *)
(* and updates of the application before, in and after the states that       *)
(* report them                                                               *)

OverlapRequests ==
    {Req("SupportedAppProtocolReq", "known"),
     [type |-> "SessionSetupReq", sid |-> "paused", arg |-> "-"],
     Req("AC_ChargeParameterDiscoveryReq", "match"),
     Req("ScheduleExchangeReq", "match"), Req("PowerDeliveryReq", "Standby"),
     Req("PowerDeliveryReq", "Start"), Req("AC_ChargeLoopReq", "match")}

OverlapEvents ==
    Updates("UpdateDynamicModeParameters") \cup Updates("AcTargetPower")
        \cup {[kind |-> "AcPresentPower", val |-> CHOOSE x \in Values : TRUE],
              [kind |-> "ClosedContactor", val |-> TRUE]}

StoredAc ==
    {[set |-> TRUE, vehicle |-> v, id |-> 1, selected |-> "AC"] : v \in Vehicles}

TlsOnly == Vehicles

-----------------------------------------------------------------------------
(* Liveness: an AC session around the contactor, reached by resuming *)

LiveRequests ==
    {Req("SupportedAppProtocolReq", "known"),
     [type |-> "SessionSetupReq", sid |-> "paused", arg |-> "-"],
     Req("AC_ChargeParameterDiscoveryReq", "match"),
     Req("ScheduleExchangeReq", "match"), Req("PowerDeliveryReq", "Start"),
     Foreign("PowerDeliveryReq", "Start"), Req("PowerDeliveryReq", "Standby"),
     Req("PowerDeliveryReq", "Stop"), Req("AC_ChargeLoopReq", "match"),
     Req("SessionStopReq", "Pause")}

LiveEvents == Bool("ClosedContactor")

=============================================================================
