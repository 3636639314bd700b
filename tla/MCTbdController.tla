-------------------------- MODULE MCTbdController --------------------------
(***************************************************************************)
(* Small instances of TbdController: vehicles with and without a            *)
(* certificate that come one after the other, pause, come back or not.      *)
(***************************************************************************)
EXTENDS TbdController, TLC

Req(type, arg) == [type |-> type, sid |-> "own", arg |-> arg]

SetupReq(sid) == [type |-> "SessionSetupReq", sid |-> sid, arg |-> "-"]

Unset == {NoPause}

AcOnly == {"AC"}

TlsOrPlain == Vehicles \cup {NoCert}

TlsOnly == Vehicles

Modes(modes) == [kind |-> "EnergyServices", val |-> modes]

AcAndVas == {"AC", "VAS"}

ToDc == {Modes({"DC"})}

AcStays == {Modes({"AC"})}

AcOrDc == {Modes({"AC"}), Modes({"DC"}), [kind |-> "SupportedVASs", val |-> {"VAS"}]}

\* The vehicles are interchangeable.
VehicleSymmetry == Permutations(Vehicles)

\* A session from the beginning to a pause or to its end, with the requests that are
\* refused on the way.
VisitRequests ==
    {Req("SupportedAppProtocolReq", "known"), Req("SupportedAppProtocolReq", "unknown"),
     Req("None", "-"), SetupReq("zero"), SetupReq("paused"),
     Req("AuthorizationSetupReq", "-"), Req("AuthorizationReq", "EIM"),
     Req("AuthorizationReq", "PnC"), Req("ServiceDiscoveryReq", "any"),
     Req("ServiceDiscoveryReq", "DC"),
     Req("ServiceDetailReq", "AC"), Req("ServiceDetailReq", "DC"),
     Req("ServiceDetailReq", "VAS"), Req("ServiceSelectionReq", "AC"),
     Req("ServiceSelectionReq", "DC"), Req("ServiceSelectionReq", "AC+VAS"),
     Req("AC_ChargeParameterDiscoveryReq", "match"),
     Req("ScheduleExchangeReq", "match"), Req("PowerDeliveryReq", "Standby"),
     Req("PowerDeliveryReq", "Stop"), Req("SessionStopReq", "Pause"),
     Req("SessionStopReq", "Terminate"), Req("SessionStopReq", "ServiceRenegotiation")}

VisitEvents == {[kind |-> "AuthorizationResponse", val |-> TRUE]}

\* The beginning of a session is enough for the questions about its end and about
\* an EV that does not wait for the answers.
ShortRequests ==
    {Req("SupportedAppProtocolReq", "known"), SetupReq("zero"),
     Req("AuthorizationSetupReq", "-"), Req("AuthorizationReq", "EIM")}

=============================================================================
