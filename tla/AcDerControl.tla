---------------------------- MODULE AcDerControl ----------------------------
(***************************************************************************)
(* d20/ac_der_control: the control data of the AC_DER service, its         *)
(* validation, and the providers a session asks for it.                    *)
(*                                                                         *)
(* A RationalNumber is an integer, a std::optional the set of its value,   *)
(* empty or a singleton.  DERControlFunctions is the set of the functions  *)
(* whose flag is set.  AcDerControlConfig maps every control function to   *)
(* the data given for it: that is cpd_control for ten of them and the two  *)
(* DSO setpoints, which are always there.  Fields that are always treated  *)
(* alike are one field: tau for the step response times, phases for the    *)
(* values of L2 and L3, recovery for the two recovery limits.  Units,      *)
(* references and PT1 flags are left out: nothing decides on them.         *)
(***************************************************************************)
EXTENDS Integers, Sequences

FrequencyFunctions == {"under_frequency_watt", "over_frequency_watt"}

CurveFunctions == {"volt_var", "watt_var", "watt_cos_phi"}

RideThroughFunctions ==
    {"over_voltage_fault_ride_through", "under_voltage_fault_ride_through"}

SetpointFunctions == {"dso_q_setpoint_provision", "dso_cos_phi_setpoint_provision"}

ControlFunctions ==
    FrequencyFunctions \cup CurveFunctions \cup RideThroughFunctions
        \cup SetpointFunctions \cup {"volt_watt", "zero_current", "dc_injection_restriction"}

\* The functions cpd_control carries.
CpdFunctions == ControlFunctions \ SetpointFunctions

\* All twelve are mandatory.
has_required_ac_der_control_functions(controls) == ControlFunctions \subseteq controls

supports_selected_controls(selected, supported) == selected \subseteq supported

-----------------------------------------------------------------------------
(* The types of the data *)

\* The data of function f: DERControl and the DSO setpoints.
DataType(f) ==
    CASE f \in FrequencyFunctions -> [f_start : Int, f_stop : Int, slope : Int, tau : Int]
      [] f \in CurveFunctions -> [x : Seq(Int), tau : Int]
      [] f \in RideThroughFunctions ->
            [start : Int, stop : SUBSET Int, recovery : SUBSET Int, tau : Int]
      [] f = "volt_watt" -> [u_start : Int, u_stop : Int, tau : Int]
      [] f = "zero_current" ->
            [over : SUBSET Int, under : SUBSET Int, recovery : SUBSET Int, tau : Int]
      [] f = "dc_injection_restriction" -> Int
      [] f = "dso_q_setpoint_provision" -> [value : Int, tau : Int]
      [] f = "dso_cos_phi_setpoint_provision" ->
            [value : Int, phases : SUBSET Int, tau : Int]

\* AcDerControlConfig
IsControlConfig(config) == \A f \in ControlFunctions : config[f] \subseteq DataType(f)

\* AcDerSeccControlSnapshots
ControlSnapshots ==
    [grid_policy : [u_start : Int, u_stop : Int, under_start : Int, under_stop : Int,
                    over_start : Int, over_stop : Int, maximum_dc_injection : Int,
                    valid : BOOLEAN],
     dso_control : [q : DataType("dso_q_setpoint_provision"),
                    cos_phi : DataType("dso_cos_phi_setpoint_provision"),
                    valid : BOOLEAN],
     evse_capability : [supported : SUBSET ControlFunctions, valid : BOOLEAN],
     runtime_state : [ac_der_enabled : BOOLEAN, grid_policy_fresh : BOOLEAN,
                      dso_control_fresh : BOOLEAN]]

-----------------------------------------------------------------------------
(* Validation *)

is_power_factor(v) == 0 <= v /\ v <= 1000        \* cos phi in thousandths

optional_is_positive(o) == \A v \in o : v > 0

optional_is_power_factor(o) == \A v \in o : is_power_factor(v)

validate_frequency_watt(fw, under_frequency_mode) ==
    /\ fw.f_start > 0 /\ fw.f_stop > 0
    /\ IF under_frequency_mode THEN fw.f_start > fw.f_stop ELSE fw.f_start < fw.f_stop
    /\ fw.slope >= 0
    /\ fw.tau >= 0

validate_volt_watt(vw) ==
    vw.u_start > 0 /\ vw.u_stop > 0 /\ vw.u_start < vw.u_stop /\ vw.tau >= 0

\* Only the ends of a curve compared.
validate_der_curve_ends(curve) ==
    /\ Len(curve.x) >= 2 /\ curve.tau >= 0
    /\ curve.x[1] < curve.x[Len(curve.x)]

validate_der_curve(curve) ==
    /\ Len(curve.x) >= 2 /\ curve.tau >= 0
    /\ \A i \in 2..Len(curve.x) : curve.x[i - 1] < curve.x[i]

validate_fault_ride_through(frt) ==
    /\ frt.start > 0
    /\ optional_is_positive(frt.stop) /\ optional_is_positive(frt.recovery)
    /\ frt.tau >= 0

validate_zero_current(zc) ==
    /\ zc.over \cup zc.under # {}
    /\ optional_is_positive(zc.over) /\ optional_is_positive(zc.under)
    /\ optional_is_positive(zc.recovery)
    /\ zc.tau >= 0

validate_dso_q_setpoint(q) == q.tau >= 0

validate_dso_cos_phi_setpoint(c) ==
    is_power_factor(c.value) /\ optional_is_power_factor(c.phases) /\ c.tau >= 0

\* What validate_ac_der_control_config asks of the data of function f.
ValidData(f, d) ==
    CASE f \in FrequencyFunctions -> validate_frequency_watt(d, f = "under_frequency_watt")
      [] f \in CurveFunctions -> validate_der_curve(d)
      [] f \in RideThroughFunctions -> validate_fault_ride_through(d)
      [] f = "volt_watt" -> validate_volt_watt(d)
      [] f = "zero_current" -> validate_zero_current(d)
      [] f = "dc_injection_restriction" -> d >= 0
      [] f = "dso_q_setpoint_provision" -> validate_dso_q_setpoint(d)
      [] f = "dso_cos_phi_setpoint_provision" -> validate_dso_cos_phi_setpoint(d)

validate_ac_der_control_config(config, controls) ==
    \A f \in controls : \E d \in config[f] : ValidData(f, d)

\* The order of the over-frequency limits not looked at.
validate_ac_der_grid_policy_snapshot_unordered(policy) ==
    /\ policy.u_start < policy.u_stop
    /\ policy.u_start > 0 /\ policy.u_stop > 0
    /\ policy.under_start > policy.under_stop
    /\ policy.under_start > 0 /\ policy.under_stop > 0
    /\ policy.over_start > 0 /\ policy.over_stop > 0
    /\ policy.maximum_dc_injection >= 0

validate_ac_der_grid_policy_snapshot(policy) ==
    /\ policy.u_start < policy.u_stop
    /\ policy.u_start > 0 /\ policy.u_stop > 0
    /\ policy.under_start > policy.under_stop
    /\ policy.under_start > 0 /\ policy.under_stop > 0
    /\ policy.over_start < policy.over_stop
    /\ policy.over_start > 0 /\ policy.over_stop > 0
    /\ policy.maximum_dc_injection >= 0

validate_ac_der_dso_control_snapshot(dso) ==
    validate_dso_q_setpoint(dso.q) /\ validate_dso_cos_phi_setpoint(dso.cos_phi)

\* The checks of a handler in their order: what the first one that fails answers,
\* nothing when all hold.  A check is <<what must hold, the answer if it does not>>.
FirstFailure(checks) ==
    LET failed == {i \in DOMAIN checks : ~checks[i][1]}
    IN  {checks[i][2] : i \in {k \in failed : \A j \in failed : k <= j}}

\* The reason a check answers; AcDerControlFailureReason::None when there is none.
ReasonOf(failure) == IF failure = {} THEN "None" ELSE CHOOSE r \in failure : TRUE

\* The preflight an application is told to make, and a part of the checks of the
\* SECC provider.
validate_ac_der_secc_control_snapshots(s) ==
    ReasonOf(FirstFailure(<<
        <<s.runtime_state.ac_der_enabled, "AcDerDisabled">>,
        <<s.runtime_state.grid_policy_fresh, "StaleGridPolicy">>,
        <<s.runtime_state.dso_control_fresh, "StaleDsoControl">>,
        <<s.grid_policy.valid /\ validate_ac_der_grid_policy_snapshot(s.grid_policy),
          "InvalidGridPolicy">>,
        <<s.dso_control.valid /\ validate_ac_der_dso_control_snapshot(s.dso_control),
          "InvalidDsoControl">>,
        <<s.evse_capability.valid, "InvalidEvseCapability">>,
        <<has_required_ac_der_control_functions(s.evse_capability.supported),
          "MissingSupportedMandatoryControlFunctions">> >>))

-----------------------------------------------------------------------------
(* Default data: frequencies and the DC injection in tenths, cos phi in    *)
(* thousandths                                                             *)

make_frequency_watt(start, stop) ==
    [f_start |-> start, f_stop |-> stop, slope |-> 1, tau |-> 0]

make_volt_watt(start, stop) == [u_start |-> start, u_stop |-> stop, tau |-> 0]

make_der_curve == [x |-> <<0, 1>>, tau |-> 0]

make_fault_ride_through == [start |-> 253, stop |-> {}, recovery |-> {}, tau |-> 0]

make_zero_current == [over |-> {253}, under |-> {}, recovery |-> {}, tau |-> 0]

NeutralQ == [value |-> 0, tau |-> 0]

NeutralCosPhi == [value |-> 1000, phases |-> {}, tau |-> 0]

make_default_ac_der_control_config ==
    [f \in ControlFunctions |->
        CASE f = "under_frequency_watt" -> {make_frequency_watt(498, 495)}
          [] f = "over_frequency_watt" -> {make_frequency_watt(502, 505)}
          [] f = "volt_watt" -> {make_volt_watt(230, 253)}
          [] f \in CurveFunctions -> {make_der_curve}
          [] f \in RideThroughFunctions -> {make_fault_ride_through}
          [] f = "zero_current" -> {make_zero_current}
          [] f = "dc_injection_restriction" -> {0}
          [] f = "dso_q_setpoint_provision" -> {NeutralQ}
          [] f = "dso_cos_phi_setpoint_provision" -> {NeutralCosPhi}]

make_default_ac_der_secc_control_snapshots ==
    [grid_policy |->
        [u_start |-> 230, u_stop |-> 253, under_start |-> 498, under_stop |-> 495,
         over_start |-> 502, over_stop |-> 505, maximum_dc_injection |-> 0,
         valid |-> TRUE],
     dso_control |-> [q |-> NeutralQ, cos_phi |-> NeutralCosPhi, valid |-> TRUE],
     evse_capability |-> [supported |-> ControlFunctions, valid |-> TRUE],
     runtime_state |->
        [ac_der_enabled |-> TRUE, grid_policy_fresh |-> TRUE, dso_control_fresh |-> TRUE]]

make_ac_der_iec_dynamic_eim_profile_snapshots ==
    [make_default_ac_der_secc_control_snapshots EXCEPT
        !.grid_policy.u_start = 241, !.grid_policy.maximum_dc_injection = 5,
        !.dso_control.q.value = 700, !.dso_control.cos_phi.value = 950]

-----------------------------------------------------------------------------
(* The providers *)

\* AcDerControlResult: a config and no reason, or a reason and no config.
Accepted(config) == [config |-> {config}, failure_reason |-> "None"]

Rejected(reason) == [config |-> {}, failure_reason |-> reason]

\* StaticAcDerControlProvider
StaticResult(config, context) ==
    IF context.service # "AC_DER" THEN Rejected("NonAcDerServiceSelected")
    ELSE Accepted(config)

\* The configuration the SECC provider builds from its snapshots.
SeccConfig(s) ==
    [make_default_ac_der_control_config EXCEPT
        !["dc_injection_restriction"] = {s.grid_policy.maximum_dc_injection},
        !["dso_q_setpoint_provision"] = {s.dso_control.q},
        !["dso_cos_phi_setpoint_provision"] = {s.dso_control.cos_phi},
        !["volt_watt"] = {make_volt_watt(s.grid_policy.u_start, s.grid_policy.u_stop)},
        !["under_frequency_watt"] =
            {make_frequency_watt(s.grid_policy.under_start, s.grid_policy.under_stop)},
        !["over_frequency_watt"] =
            {make_frequency_watt(s.grid_policy.over_start, s.grid_policy.over_stop)}]

\* SeccAcDerControlProvider
SeccResult(s, context) ==
    LET preflight == validate_ac_der_secc_control_snapshots(s)
        selected == UNION context.functions
        reason == ReasonOf(FirstFailure(<<
            <<context.service = "AC_DER", "NonAcDerServiceSelected">>,
            <<context.control = "Dynamic", "UnsupportedControlMode">>,
            <<context.mobility = "ProvidedByEvcc", "UnsupportedMobilityNeedsMode">>,
            <<context.functions # {}, "MissingSelectedControlFunctions">>,
            <<preflight = "None", preflight>>,
            <<supports_selected_controls(selected, s.evse_capability.supported),
              "UnsupportedSelectedControlFunctions">>,
            <<has_required_ac_der_control_functions(selected),
              "MissingSelectedMandatoryControlFunctions">>,
            <<validate_ac_der_control_config(SeccConfig(s), selected),
              "InvalidGridPolicy">> >>))
    IN  IF reason = "None" THEN Accepted(SeccConfig(s)) ELSE Rejected(reason)

\* IAcDerControlProvider::get_ac_der_control_result, for a provider that only
\* overrides get_ac_der_control_config.
DefaultResult(config) ==
    [config |-> config, failure_reason |-> IF config # {} THEN "None" ELSE "Unknown"]

=============================================================================
