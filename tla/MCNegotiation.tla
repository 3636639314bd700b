--------------------------- MODULE MCNegotiation ---------------------------
(***************************************************************************)
(* A small instance of Negotiation: setups with one control mode out of    *)
(* order or none, every kind of provider with good data and with one thing *)
(* wrong, and requests for parameter sets that exist, do not exist, or     *)
(* differ only beyond a uint8_t.                                           *)
(***************************************************************************)
EXTENDS Negotiation

Mode(control, mobility) == [control |-> control, mobility |-> mobility]

AllModes ==
    <<Mode("Dynamic", "ProvidedByEvcc"), Mode("Scheduled", "ProvidedBySecc"),
      Mode("Dynamic", "ProvidedBySecc")>>

Setup(energy, vas, modes, connectors, provider, config) ==
    [energy |-> energy, vas |-> vas, modes |-> modes, connectors |-> connectors,
     provider |-> provider, config |-> config]

-----------------------------------------------------------------------------
(* Snapshots *)

Good == make_ac_der_iec_dynamic_eim_profile_snapshots

\* The checks of a policy are about pairs of its fields.
GridPolicies ==
    LET policy == Good.grid_policy
    IN  {[policy EXCEPT !.u_start = a, !.u_stop = b] : a \in 0..2, b \in 1..2}
        \cup {[policy EXCEPT !.under_start = a, !.under_stop = b] : a \in 0..2, b \in 0..1}
        \cup {[policy EXCEPT !.over_start = a, !.over_stop = b] : a \in 0..2, b \in 1..2}
        \cup {[policy EXCEPT !.maximum_dc_injection = a] : a \in {-1, 0}}

Snapshots ==
    {make_default_ac_der_secc_control_snapshots}
    \cup {[Good EXCEPT !.grid_policy = p] : p \in GridPolicies}
    \cup {[Good EXCEPT !.grid_policy.valid = g, !.dso_control.valid = d,
                       !.evse_capability.valid = e] : g, d, e \in BOOLEAN}
    \cup {[Good EXCEPT !.runtime_state = r] :
            r \in [ac_der_enabled : BOOLEAN, grid_policy_fresh : BOOLEAN,
                   dso_control_fresh : BOOLEAN]}
    \cup {[Good EXCEPT !.dso_control.cos_phi = c] :
            c \in [value : {-1, 500, 1001}, phases : {{}, {0, 1000}, {1001}}, tau : {-1, 0}]}
    \cup {[Good EXCEPT !.dso_control.q.tau = -1]}
    \cup {[Good EXCEPT !.evse_capability.supported = ControlFunctions \ {f}] :
            f \in ControlFunctions}

-----------------------------------------------------------------------------
(* Configurations with one thing wrong *)

Default == make_default_ac_der_control_config

BadConfigs ==
    {[Default EXCEPT ![f] = {}] : f \in CpdFunctions}
    \cup {[Default EXCEPT ![f] = {[x |-> x, tau |-> 0]}] :
            f \in CurveFunctions, x \in {<<0>>, <<0, 0>>, <<0, 2, 1, 3>>}}
    \cup {[Default EXCEPT !["volt_watt"] = {make_volt_watt(253, 230)}],
          [Default EXCEPT !["under_frequency_watt"] = {make_frequency_watt(495, 498)}],
          [Default EXCEPT !["over_frequency_watt"] = {make_frequency_watt(505, 502)}],
          [Default EXCEPT !["zero_current"] = {[make_zero_current EXCEPT !.over = {}]}],
          [Default EXCEPT !["zero_current"] =
              {[make_zero_current EXCEPT !.recovery = {0}]}],
          [Default EXCEPT !["over_voltage_fault_ride_through"] =
              {[make_fault_ride_through EXCEPT !.recovery = {-1}]}],
          [Default EXCEPT !["dc_injection_restriction"] = {-1}],
          [Default EXCEPT !["dso_q_setpoint_provision"] = {[value |-> 0, tau |-> -1]}],
          [Default EXCEPT !["dso_cos_phi_setpoint_provision"] =
              {[value |-> 1001, phases |-> {}, tau |-> 0]}]}

\* A provider of the application: what it returns through the default
\* get_ac_der_control_result, and a result of its own without a reason.
CustomResultSet ==
    {DefaultResult({c}) : c \in BadConfigs \cup {Default}}
    \cup {DefaultResult(None), Rejected("None")}

-----------------------------------------------------------------------------

Der == {"AC_DER"}

VasServiceSet == {"Internet", "ParkingStatus", "Custom"}

SetupSet ==
    {Setup(Der, {}, AllModes, <<"SinglePhase">>,
           {[kind |-> "secc", snapshots |-> s]}, None) : s \in Snapshots}
    \cup {Setup(Der, {}, AllModes, <<"SinglePhase">>, None, {c}) : c \in BadConfigs}
    \cup {Setup({"AC", "AC_BPT", "AC_DER", "DC"}, VasServiceSet, AllModes,
                <<"SinglePhase", "ThreePhase">>, None, None),
          Setup(Der, {"Internet"}, AllModes, <<"SinglePhase">>, {[kind |-> "custom"]}, None),
          Setup({"AC_DER", "MCS_BPT"}, {}, <<>>, <<>>, None, None)}

\* Parameter sets of the application for a value added service.
Sets(pairs) == [n \in DOMAIN pairs |-> [id |-> pairs[n][1], value |-> pairs[n][2]]]

VasReplySet(service) ==
    CASE service = "Internet" -> {None, {Sets(<< <<3, "-">>, <<9, "-">> >>)},
                                  {Sets(<< <<4, "-">> >>)}}
      [] service = "ParkingStatus" -> {{Sets(<< <<5, "p">>, <<6, "q">> >>)},
                                       {Sets(<< <<6, "q">> >>)}}
      [] service = "Custom" -> {None, {Sets(<< <<7, "c">> >>)}}
      [] OTHER -> {None}

Vas(service, id) == [service |-> service, id |-> id]

SelectionSet ==
    [sid : {"own"}, service : {"AC", "AC_BPT", "AC_DER", "DC", "MCS_BPT"},
     id : {0, 1, 2, 5, 256}, vas : {None}]
    \cup [sid : {"own", "other"}, service : Der, id : {0},
          vas : {{<<>>}, {<<Vas("Internet", 0)>>}, {<<Vas("Internet", 3)>>},
                 {<<Vas("ParkingStatus", 0)>>},
                 {<<Vas("Custom", 7), Vas("ParkingStatus", 0)>>},
                 {<<Vas("ParkingStatus", 1), Vas("Internet", 4)>>},
                 {<<Vas("ParkingStatus", 256)>>}, {<<Vas("Unoffered", 0)>>}}]

=============================================================================
