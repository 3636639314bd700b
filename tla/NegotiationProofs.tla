------------------------- MODULE NegotiationProofs -------------------------
(***************************************************************************)
(* Theorems about the parameters of a session and the AC_DER control data, *)
(* for every configuration, provider and sequence of requests.             *)
(***************************************************************************)
EXTENDS Negotiation, WellFoundedInduction, TLAPS

-----------------------------------------------------------------------------
(* Least and greatest numbers *)

LEMMA LeastElement ==
    ASSUME NEW T, T \subseteq Nat, T # {}
    PROVE  \E n \in T : \A m \in T : n <= m
<1>. DEFINE less == OpToRel(<, Nat)
<1>1. \A m, n \in Nat : m < n => <<m, n>> \in less
  BY Zenon DEF OpToRel
<1>2. IsWellFoundedOn(less, Nat)
  BY NatLessThanWellFounded
<1>. HIDE DEF less
<1>3. PICK n \in T : \A m \in T : ~(<<m, n>> \in less)
  BY <1>2, WFMin
<1>4. ASSUME NEW m \in T PROVE n <= m
  <2>1. m \in Nat /\ n \in Nat
    OBVIOUS
  <2>2. ~(m < n)
    BY <1>1, <1>3, <2>1, Zenon
  <2>. QED BY <2>1, <2>2
<1>. QED BY <1>4

LEMMA GreatestElement ==
    ASSUME NEW bound \in Nat, NEW T, T \subseteq 1..bound, T # {}
    PROVE  \E n \in T : \A m \in T : m <= n
<1>. DEFINE U == {bound - n : n \in T}
<1>1. U \subseteq Nat /\ U # {}
  <2>1. \A n \in 1..bound : bound - n \in Nat
    OBVIOUS
  <2>2. \E n \in T : bound - n \in U
    OBVIOUS
  <2>. QED BY <2>1, <2>2
<1>2. PICK u \in U : \A v \in U : u <= v
  BY <1>1, LeastElement
<1>3. PICK n \in T : u = bound - n
  OBVIOUS
<1>4. ASSUME NEW m \in T PROVE m <= n
  <2>1. bound - m \in U
    OBVIOUS
  <2>. QED BY <1>2, <1>3, <2>1
<1>. QED BY <1>4

\* What validate_der_curve compares pairwise increases from end to end.
LEMMA CurveIncreases ==
    ASSUME NEW x \in Seq(Int), \A i \in 2..Len(x) : x[i - 1] < x[i],
           NEW i \in DOMAIN x, NEW j \in DOMAIN x, i < j
    PROVE  x[i] < x[j]
<1>. DEFINE Wrong == {k \in 1..Len(x) : i < k /\ ~(x[i] < x[k])}
<1>1. DOMAIN x = 1..Len(x) /\ Len(x) \in Nat
  OBVIOUS
<1>2. ASSUME Wrong # {} PROVE FALSE
  <2>1. PICK k \in Wrong : \A m \in Wrong : k <= m
    <3>1. Wrong \subseteq Nat
      BY <1>1
    <3>. HIDE DEF Wrong
    <3>. QED BY <1>2, <3>1, LeastElement
  <2>2. k - 1 \in 1..Len(x) /\ k - 1 \notin Wrong /\ k \in 2..Len(x)
    BY <1>1, <2>1
  <2>3. x[i] \in Int /\ x[k] \in Int /\ x[k - 1] \in Int
    BY <1>1, <2>1, <2>2
  <2>4. x[k - 1] < x[k]
    BY <2>2
  <2>5. k - 1 = i \/ x[i] < x[k - 1]
    BY <1>1, <2>1, <2>2
  <2>. QED BY <2>1, <2>3, <2>4, <2>5
<1>. QED BY <1>1, <1>2

-----------------------------------------------------------------------------
(* The checks of a handler *)

LEMMA FailureAt ==
    ASSUME NEW n \in Nat, NEW checks, DOMAIN checks = 1..n,
           NEW i \in 1..n, ~checks[i][1], \A j \in 1..(i - 1) : checks[j][1]
    PROVE  FirstFailure(checks) = {checks[i][2]}
<1>. DEFINE failed == {k \in DOMAIN checks : ~checks[k][1]}
<1>1. i \in failed /\ \A j \in failed : i <= j
  OBVIOUS
<1>2. {k \in failed : \A j \in failed : k <= j} = {i}
  BY <1>1
<1>. QED BY <1>2 DEF FirstFailure

\* Either all checks hold, or the first one that does not is the answer.
LEMMA FailureCases ==
    ASSUME NEW n \in Nat, NEW checks, DOMAIN checks = 1..n
    PROVE  \/ /\ FirstFailure(checks) = {}
              /\ \A i \in 1..n : checks[i][1]
           \/ \E i \in 1..n :
                 /\ FirstFailure(checks) = {checks[i][2]}
                 /\ ~checks[i][1]
                 /\ \A j \in 1..(i - 1) : checks[j][1]
<1>. DEFINE failed == {k \in 1..n : ~checks[k][1]}
<1>1. CASE failed = {}
  BY <1>1 DEF FirstFailure
<1>2. CASE failed # {}
  <2>1. PICK i \in failed : \A j \in failed : i <= j
    <3>1. failed \subseteq Nat
      OBVIOUS
    <3>. HIDE DEF failed
    <3>. QED BY <1>2, <3>1, LeastElement
  <2>2. \A j \in 1..(i - 1) : checks[j][1]
    BY <2>1
  <2>. QED BY <2>1, <2>2, FailureAt
<1>. QED BY <1>1, <1>2

LEMMA ReasonOfOne == ASSUME NEW r PROVE ReasonOf({r}) = r
BY DEF ReasonOf

-----------------------------------------------------------------------------
(* The checks of a DER request *)

\* The control data of the provider is there and valid for all selected functions.
DerAccepts(result) ==
    /\ Sel.set.functions # {}
    /\ has_required_ac_der_control_functions(Controls)
    /\ result.config # {}
    /\ \A config \in result.config : validate_ac_der_control_config(config, Controls)

LEMMA FailureMembers ==
    ASSUME NEW code, NEW reason
    PROVE  Failure(code, reason).code = code /\ Failure(code, reason).reason = reason
BY DEF Failure

LEMMA DerVerdict ==
    ASSUME NEW sid, NEW matches \in BOOLEAN, NEW result, NEW code, code # "OK",
           NEW failure, failure = FirstFailure(DerChecks(sid, matches, result, code))
    PROVE  /\ failure = {} <=> sid = "own" /\ matches /\ DerAccepts(result)
           /\ \A f \in failure : f.code # "OK"
           /\ (/\ sid = "own" /\ matches
               /\ Sel.set.functions # {}
               /\ has_required_ac_der_control_functions(Controls)
               /\ result.config = {})
                 => failure = {Failure(code, result.failure_reason)}
<1>. DEFINE checks == DerChecks(sid, matches, result, code)
            valid == \A config \in result.config :
                        validate_ac_der_control_config(config, Controls)
<1>1. DOMAIN checks = 1..6
  BY DEF DerChecks
<1>2. /\ checks[1][1] <=> sid = "own"
      /\ checks[2][1] <=> matches
      /\ checks[3][1] <=> Sel.set.functions # {}
      /\ checks[4][1] <=> has_required_ac_der_control_functions(Controls)
      /\ checks[5][1] <=> result.config # {}
      /\ checks[6][1] <=> valid
  BY DEF DerChecks
<1>3. /\ checks[1][2] = Failure("FAILED_UnknownSession", "None")
      /\ \A i \in 2..6 : \E reason : checks[i][2] = Failure(code, reason)
      /\ checks[5][2] = Failure(code, result.failure_reason)
  BY DEF DerChecks
<1>. HIDE DEF checks
<1>4. \A i \in 1..6 : checks[i][2].code # "OK"
  BY <1>3, FailureMembers
<1>5. failure = FirstFailure(checks)
  BY DEF checks
<1>6. \/ failure = {} /\ \A i \in 1..6 : checks[i][1]
      \/ \E i \in 1..6 : /\ failure = {checks[i][2]}
                         /\ ~checks[i][1]
  <2>1. \/ FirstFailure(checks) = {} /\ \A i \in 1..6 : checks[i][1]
        \/ \E i \in 1..6 : /\ FirstFailure(checks) = {checks[i][2]}
                           /\ ~checks[i][1]
    BY <1>1, FailureCases
  <2>. QED BY <1>5, <2>1
<1>7. failure = {} <=> \A i \in 1..6 : checks[i][1]
  BY <1>6
<1>8. (\A i \in 1..6 : checks[i][1]) <=> sid = "own" /\ matches /\ DerAccepts(result)
  BY <1>2 DEF DerAccepts
<1>9. \A f \in failure : f.code # "OK"
  BY <1>4, <1>6
<1>10. ASSUME sid = "own", matches, Sel.set.functions # {}, result.config = {},
              has_required_ac_der_control_functions(Controls)
       PROVE  failure = {Failure(code, result.failure_reason)}
  <2>1. PICK i \in 1..6 : i = 5
    OBVIOUS
  <2>2. ~checks[i][1] /\ \A j \in 1..(i - 1) : checks[j][1]
    BY <1>2, <1>10, <2>1
  <2>3. FirstFailure(checks) = {checks[i][2]}
    BY <1>1, <2>2, FailureAt
  <2>. QED BY <1>3, <1>5, <2>1, <2>3
<1>. QED BY <1>7, <1>8, <1>9, <1>10

-----------------------------------------------------------------------------
(* The SECC snapshot provider *)

PreflightChecks(s) ==
    /\ s.runtime_state.ac_der_enabled
    /\ s.runtime_state.grid_policy_fresh
    /\ s.runtime_state.dso_control_fresh
    /\ s.grid_policy.valid
    /\ validate_ac_der_grid_policy_snapshot(s.grid_policy)
    /\ s.dso_control.valid
    /\ validate_ac_der_dso_control_snapshot(s.dso_control)
    /\ s.evse_capability.valid
    /\ has_required_ac_der_control_functions(s.evse_capability.supported)

LEMMA PreflightVerdict ==
    ASSUME NEW s \in ControlSnapshots
    PROVE  validate_ac_der_secc_control_snapshots(s) = "None" <=> PreflightChecks(s)
<1>. DEFINE checks == <<
        <<s.runtime_state.ac_der_enabled, "AcDerDisabled">>,
        <<s.runtime_state.grid_policy_fresh, "StaleGridPolicy">>,
        <<s.runtime_state.dso_control_fresh, "StaleDsoControl">>,
        <<s.grid_policy.valid /\ validate_ac_der_grid_policy_snapshot(s.grid_policy),
          "InvalidGridPolicy">>,
        <<s.dso_control.valid /\ validate_ac_der_dso_control_snapshot(s.dso_control),
          "InvalidDsoControl">>,
        <<s.evse_capability.valid, "InvalidEvseCapability">>,
        <<has_required_ac_der_control_functions(s.evse_capability.supported),
          "MissingSupportedMandatoryControlFunctions">> >>
<1>1. validate_ac_der_secc_control_snapshots(s) = ReasonOf(FirstFailure(checks))
  BY DEF validate_ac_der_secc_control_snapshots
<1>2. DOMAIN checks = 1..7 /\ \A i \in 1..7 : checks[i][2] # "None"
  OBVIOUS
<1>3. (\A i \in 1..7 : checks[i][1]) <=> PreflightChecks(s)
  <2>1. /\ checks[1][1] <=> s.runtime_state.ac_der_enabled
        /\ checks[2][1] <=> s.runtime_state.grid_policy_fresh
        /\ checks[3][1] <=> s.runtime_state.dso_control_fresh
        /\ checks[4][1] <=> /\ s.grid_policy.valid
                            /\ validate_ac_der_grid_policy_snapshot(s.grid_policy)
        /\ checks[5][1] <=> /\ s.dso_control.valid
                            /\ validate_ac_der_dso_control_snapshot(s.dso_control)
        /\ checks[6][1] <=> s.evse_capability.valid
        /\ checks[7][1]
              <=> has_required_ac_der_control_functions(s.evse_capability.supported)
    BY DEF ControlSnapshots
  <2>. HIDE DEF checks
  <2>. QED BY <2>1 DEF PreflightChecks
<1>. HIDE DEF checks
<1>4. CASE FirstFailure(checks) = {} /\ \A i \in 1..7 : checks[i][1]
  BY <1>1, <1>3, <1>4 DEF ReasonOf
<1>5. ASSUME NEW i \in 1..7, FirstFailure(checks) = {checks[i][2]}, ~checks[i][1]
      PROVE  validate_ac_der_secc_control_snapshots(s) # "None" /\ ~PreflightChecks(s)
  BY <1>1, <1>2, <1>3, <1>5, ReasonOfOne
<1>. QED BY <1>2, <1>4, <1>5, FailureCases

\* The configuration of the SECC provider, function by function.
LEMMA SeccConfigIs ==
    ASSUME NEW s
    PROVE  LET config == SeccConfig(s)
               policy == s.grid_policy
           IN  /\ config["dc_injection_restriction"] = {policy.maximum_dc_injection}
               /\ config["dso_q_setpoint_provision"] = {s.dso_control.q}
               /\ config["dso_cos_phi_setpoint_provision"] = {s.dso_control.cos_phi}
               /\ config["volt_watt"] = {make_volt_watt(policy.u_start, policy.u_stop)}
               /\ config["under_frequency_watt"] =
                     {make_frequency_watt(policy.under_start, policy.under_stop)}
               /\ config["over_frequency_watt"] =
                     {make_frequency_watt(policy.over_start, policy.over_stop)}
               /\ \A f \in CurveFunctions : config[f] = {make_der_curve}
               /\ \A f \in RideThroughFunctions : config[f] = {make_fault_ride_through}
               /\ config["zero_current"] = {make_zero_current}
<1>. DEFINE default == make_default_ac_der_control_config
<1>1. /\ \A f \in CurveFunctions : default[f] = {make_der_curve}
      /\ \A f \in RideThroughFunctions : default[f] = {make_fault_ride_through}
      /\ default["zero_current"] = {make_zero_current}
      /\ DOMAIN default = ControlFunctions
  BY DEF make_default_ac_der_control_config, ControlFunctions, FrequencyFunctions,
         CurveFunctions, RideThroughFunctions, SetpointFunctions
<1>. HIDE DEF default
<1>2. SeccConfig(s) =
        [default EXCEPT
            !["dc_injection_restriction"] = {s.grid_policy.maximum_dc_injection},
            !["dso_q_setpoint_provision"] = {s.dso_control.q},
            !["dso_cos_phi_setpoint_provision"] = {s.dso_control.cos_phi},
            !["volt_watt"] = {make_volt_watt(s.grid_policy.u_start, s.grid_policy.u_stop)},
            !["under_frequency_watt"] =
              {make_frequency_watt(s.grid_policy.under_start, s.grid_policy.under_stop)},
            !["over_frequency_watt"] =
              {make_frequency_watt(s.grid_policy.over_start, s.grid_policy.over_stop)}]
  BY DEF SeccConfig, default
<1>. QED
  BY <1>1, <1>2
  DEF ControlFunctions, FrequencyFunctions, CurveFunctions, RideThroughFunctions,
      SetpointFunctions

\* Snapshots that pass the preflight give a configuration that passes the validation.
LEMMA SeccConfigValid ==
    ASSUME NEW s \in ControlSnapshots, PreflightChecks(s)
    PROVE  validate_ac_der_control_config(SeccConfig(s), ControlFunctions)
<1>. DEFINE config == SeccConfig(s)
            policy == s.grid_policy
<1>. SUFFICES ASSUME NEW f \in ControlFunctions
              PROVE  \E d \in config[f] : ValidData(f, d)
  BY DEF validate_ac_der_control_config
<1>1. validate_ac_der_grid_policy_snapshot(policy)
  BY DEF PreflightChecks
<1>2. CASE f \in FrequencyFunctions
  <2>1. CASE f = "under_frequency_watt"
    <3>1. validate_frequency_watt(make_frequency_watt(policy.under_start,
                                                      policy.under_stop), TRUE)
      BY <1>1
      DEF validate_ac_der_grid_policy_snapshot, validate_frequency_watt,
          make_frequency_watt
    <3>2. ASSUME NEW d, validate_frequency_watt(d, TRUE) PROVE ValidData(f, d)
      <4>1. validate_frequency_watt(d, f = "under_frequency_watt")
        BY <2>1, <3>2 DEF validate_frequency_watt
      <4>. QED
        BY <1>2, <4>1, Zenon
        DEF ValidData, FrequencyFunctions, CurveFunctions, RideThroughFunctions
    <3>. QED BY <2>1, <3>1, <3>2, SeccConfigIs
  <2>2. CASE f = "over_frequency_watt"
    <3>1. validate_frequency_watt(make_frequency_watt(policy.over_start,
                                                      policy.over_stop), FALSE)
      BY <1>1
      DEF validate_ac_der_grid_policy_snapshot, validate_frequency_watt,
          make_frequency_watt
    <3>2. ASSUME NEW d, validate_frequency_watt(d, FALSE) PROVE ValidData(f, d)
      <4>1. validate_frequency_watt(d, f = "under_frequency_watt")
        BY <2>2, <3>2 DEF validate_frequency_watt
      <4>. QED
        BY <1>2, <4>1, Zenon
        DEF ValidData, FrequencyFunctions, CurveFunctions, RideThroughFunctions
    <3>. QED BY <2>2, <3>1, <3>2, SeccConfigIs
  <2>. QED BY <1>2, <2>1, <2>2 DEF FrequencyFunctions
<1>3. CASE f \in CurveFunctions
  <2>1. validate_der_curve(make_der_curve)
    BY DEF validate_der_curve, make_der_curve
  <2>2. f \notin FrequencyFunctions
    BY <1>3 DEF CurveFunctions, FrequencyFunctions
  <2>3. ValidData(f, make_der_curve)
    BY <1>3, <2>1, <2>2, Zenon
    DEF ValidData, FrequencyFunctions, CurveFunctions, RideThroughFunctions
  <2>. QED BY <1>3, <2>3, SeccConfigIs
<1>4. CASE f \in RideThroughFunctions
  <2>1. validate_fault_ride_through(make_fault_ride_through)
    BY DEF validate_fault_ride_through, make_fault_ride_through, optional_is_positive
  <2>. QED
    BY <1>4, <2>1, SeccConfigIs
    DEF ValidData, CurveFunctions, FrequencyFunctions, RideThroughFunctions
<1>. USE DEF FrequencyFunctions, CurveFunctions, RideThroughFunctions
<1>5. CASE f = "volt_watt"
  <2>1. validate_volt_watt(make_volt_watt(policy.u_start, policy.u_stop))
    BY <1>1
    DEF validate_ac_der_grid_policy_snapshot, validate_volt_watt, make_volt_watt
  <2>. QED BY <1>5, <2>1, SeccConfigIs DEF ValidData
<1>6. CASE f = "zero_current"
  <2>1. validate_zero_current(make_zero_current)
    BY DEF validate_zero_current, make_zero_current, optional_is_positive
  <2>. QED BY <1>6, <2>1, SeccConfigIs DEF ValidData
<1>7. CASE f = "dc_injection_restriction"
  BY <1>1, <1>7, SeccConfigIs DEF ValidData, validate_ac_der_grid_policy_snapshot
<1>8. CASE f \in SetpointFunctions
  BY <1>8, SeccConfigIs
  DEF ValidData, SetpointFunctions, PreflightChecks,
      validate_ac_der_dso_control_snapshot
<1>. QED BY <1>2, <1>3, <1>4, <1>5, <1>6, <1>7, <1>8 DEF ControlFunctions

\* What the provider answers to a context with all functions selected.
LEMMA SeccVerdict ==
    ASSUME NEW s \in ControlSnapshots, NEW context,
           context.service = "AC_DER", context.functions = {ControlFunctions}
    PROVE  LET result == SeccResult(s, context)
               preflight == validate_ac_der_secc_control_snapshots(s)
           IN  IF context.control # "Dynamic" \/ context.mobility # "ProvidedByEvcc"
               THEN result.config = {}
               ELSE IF preflight = "None" THEN result = Accepted(SeccConfig(s))
               ELSE result = Rejected(preflight)
<1>. DEFINE preflight == validate_ac_der_secc_control_snapshots(s)
            selected_functions == UNION context.functions
            checks == <<
              <<context.service = "AC_DER", "NonAcDerServiceSelected">>,
              <<context.control = "Dynamic", "UnsupportedControlMode">>,
              <<context.mobility = "ProvidedByEvcc", "UnsupportedMobilityNeedsMode">>,
              <<context.functions # {}, "MissingSelectedControlFunctions">>,
              <<preflight = "None", preflight>>,
              <<supports_selected_controls(selected_functions,
                                           s.evse_capability.supported),
                "UnsupportedSelectedControlFunctions">>,
              <<has_required_ac_der_control_functions(selected_functions),
                "MissingSelectedMandatoryControlFunctions">>,
              <<validate_ac_der_control_config(SeccConfig(s), selected_functions),
                "InvalidGridPolicy">> >>
            reason == ReasonOf(FirstFailure(checks))
<1>1. SeccResult(s, context) =
        IF reason = "None" THEN Accepted(SeccConfig(s)) ELSE Rejected(reason)
  BY DEF SeccResult
<1>2. selected_functions = ControlFunctions
  OBVIOUS
<1>3. DOMAIN checks = 1..8
  <2>. HIDE DEF preflight, selected_functions
  <2>. QED OBVIOUS
<1>4. /\ checks[1][1]
      /\ checks[2][1] <=> context.control = "Dynamic"
      /\ checks[3][1] <=> context.mobility = "ProvidedByEvcc"
      /\ checks[4][1]
      /\ checks[5][1] <=> preflight = "None"
      /\ checks[6][1] <=> supports_selected_controls(selected_functions,
                                                    s.evse_capability.supported)
      /\ checks[7][1] <=> has_required_ac_der_control_functions(selected_functions)
      /\ checks[8][1] <=> validate_ac_der_control_config(SeccConfig(s),
                                                        selected_functions)
  <2>. HIDE DEF preflight, selected_functions
  <2>. QED OBVIOUS
<1>5. checks[5][2] = preflight /\ checks[2][2] # "None" /\ checks[3][2] # "None"
  <2>. HIDE DEF preflight, selected_functions
  <2>. QED OBVIOUS
<1>6. checks[5][1] => checks[6][1] /\ checks[7][1] /\ checks[8][1]
  <2>. SUFFICES ASSUME preflight = "None"
                PROVE  checks[6][1] /\ checks[7][1] /\ checks[8][1]
    BY <1>4
  <2>1. PreflightChecks(s)
    BY PreflightVerdict
  <2>2. supports_selected_controls(ControlFunctions, s.evse_capability.supported)
    BY <2>1
    DEF PreflightChecks, supports_selected_controls,
        has_required_ac_der_control_functions
  <2>3. has_required_ac_der_control_functions(ControlFunctions)
    BY DEF has_required_ac_der_control_functions
  <2>4. validate_ac_der_control_config(SeccConfig(s), ControlFunctions)
    BY <2>1, SeccConfigValid
  <2>. HIDE DEF checks
  <2>. QED BY <1>2, <1>4, <2>2, <2>3, <2>4
<1>. HIDE DEF checks
<1>7. CASE FirstFailure(checks) = {} /\ \A i \in 1..8 : checks[i][1]
  <2>1. reason = "None" /\ preflight = "None"
    BY <1>4, <1>7 DEF ReasonOf
  <2>. QED BY <1>1, <1>4, <1>7, <2>1
<1>8. ASSUME NEW i \in 1..8, FirstFailure(checks) = {checks[i][2]}, ~checks[i][1],
             \A j \in 1..(i - 1) : checks[j][1]
      PROVE  IF context.control # "Dynamic" \/ context.mobility # "ProvidedByEvcc"
             THEN SeccResult(s, context).config = {}
             ELSE /\ preflight # "None"
                  /\ SeccResult(s, context) = Rejected(preflight)
  <2>1. reason = checks[i][2]
    BY <1>8, ReasonOfOne
  <2>2. i \in {2, 3, 5}
    BY <1>4, <1>6, <1>8
  <2>3. reason # "None"
    BY <1>4, <1>8, <1>5, <2>1, <2>2
  <2>4. SeccResult(s, context) = Rejected(reason)
    BY <1>1, <2>3
  <2>5. SeccResult(s, context).config = {}
    BY <2>4 DEF Rejected
  <2>6. CASE i = 5
    BY <1>4, <1>8, <1>5, <2>1, <2>4, <2>5, <2>6
  <2>7. CASE i \in {2, 3}
    BY <1>4, <1>8, <2>5, <2>7
  <2>. QED BY <2>2, <2>6, <2>7
<1>9. \/ FirstFailure(checks) = {} /\ \A i \in 1..8 : checks[i][1]
      \/ \E i \in 1..8 : /\ FirstFailure(checks) = {checks[i][2]}
                         /\ ~checks[i][1]
                         /\ \A j \in 1..(i - 1) : checks[j][1]
  BY <1>3, FailureCases
<1>. QED BY <1>7, <1>8, <1>9

-----------------------------------------------------------------------------
(* The inductive invariant *)

NegotiationStates ==
    {"ServiceDetail", "ServiceSelection", "AC_ChargeParameterDiscovery",
     "DC_ChargeParameterDiscovery", "ScheduleExchange", "AC_ChargeLoop"}

TypeInv ==
    /\ setup \in Setups
    /\ state \in NegotiationStates
    /\ stopped \in BOOLEAN
    /\ offered = [s \in Services |-> offered[s]]
    /\ told = [s \in Services |-> told[s]]

\* The services whose list a selection copies.
StoredServices == EnergyServices \cup (KnownVas \cap VasServices)

\* The EV knows the lists a selection copies from.
ToldInv == \A s \in StoredServices : offered[s] = told[s]

\* An energy service is offered from the configuration, always the same.
EnergyToldInv ==
    /\ \A s \in EnergyServices : told[s] \in {Empty, Offer(s, ParameterList(setup, s))}
    /\ \A s \in selected : s.service \in EnergyServices

\* Nothing is offered any more once something is selected, as long as the session runs.
SelectionInv ==
    selected # None \/ (\E v \in KnownVas : selected_vas[v] # None) =>
        stopped \/ state \notin {"ServiceDetail", "ServiceSelection"}

\* Every set of AC_DER has all control functions, and so has the one selected.
OfferedInv ==
    \A k \in DOMAIN offered["AC_DER"] :
        offered["AC_DER"][k].functions = {ControlFunctions}

SelInv ==
    state \in {"AC_ChargeParameterDiscovery", "ScheduleExchange", "AC_ChargeLoop"} =>
        \E s \in selected :
            /\ selected = {s}
            /\ s.service = "AC_DER" => s.set.functions = {ControlFunctions}

\* What AC_ChargeParameterDiscovery accepted, the charge loop accepts again.
LoopReadyInv ==
    /\ state \in {"ScheduleExchange", "AC_ChargeLoop"}
    /\ Sel.service = "AC_DER"
    /\ Provider.kind # "custom"
    => \A result \in ProviderResults : DerAccepts(result)

NegotiationInv ==
    /\ TypeInv /\ ToldInv /\ EnergyToldInv /\ SelectionInv /\ OfferedInv /\ SelInv
    /\ LoopReadyInv

\* A session that is stopped stays so.
StopKept == stopped' \in BOOLEAN /\ (stopped => stopped')

LEMMA FeedStops ==
    ASSUME NEW next, FeedResult(next)
    PROVE  state' = next /\ StopKept
BY Zenon DEF FeedResult, StopKept

-----------------------------------------------------------------------------
(* Types of the control data *)

LEMMA DataTypes ==
    /\ \A f \in FrequencyFunctions :
          DataType(f) = [f_start : Int, f_stop : Int, slope : Int, tau : Int]
    /\ \A f \in CurveFunctions : DataType(f) = [x : Seq(Int), tau : Int]
    /\ \A f \in RideThroughFunctions :
          DataType(f) = [start : Int, stop : SUBSET Int, recovery : SUBSET Int, tau : Int]
    /\ DataType("volt_watt") = [u_start : Int, u_stop : Int, tau : Int]
    /\ DataType("zero_current") =
          [over : SUBSET Int, under : SUBSET Int, recovery : SUBSET Int, tau : Int]
    /\ DataType("dc_injection_restriction") = Int
    /\ DataType("dso_q_setpoint_provision") = [value : Int, tau : Int]
    /\ DataType("dso_cos_phi_setpoint_provision") =
          [value : Int, phases : SUBSET Int, tau : Int]
BY DEF DataType, FrequencyFunctions, CurveFunctions, RideThroughFunctions

LEMMA ValidDataIs ==
    ASSUME NEW d
    PROVE  /\ ValidData("under_frequency_watt", d) => validate_frequency_watt(d, TRUE)
           /\ ValidData("over_frequency_watt", d) => validate_frequency_watt(d, FALSE)
           /\ \A f \in CurveFunctions : ValidData(f, d) => validate_der_curve(d)
           /\ ValidData("volt_watt", d) => validate_volt_watt(d)
           /\ ValidData("zero_current", d) => validate_zero_current(d)
           /\ ValidData("dso_cos_phi_setpoint_provision", d)
                 => validate_dso_cos_phi_setpoint(d)
<1>. USE DEF ValidData, FrequencyFunctions, CurveFunctions, RideThroughFunctions
<1>1. ValidData("under_frequency_watt", d) => validate_frequency_watt(d, TRUE)
  BY DEF validate_frequency_watt
<1>2. ValidData("over_frequency_watt", d) => validate_frequency_watt(d, FALSE)
  BY DEF validate_frequency_watt
<1>3. \A f \in CurveFunctions : ValidData(f, d) => validate_der_curve(d)
  BY Zenon
<1>4. ValidData("volt_watt", d) => validate_volt_watt(d)
  BY Zenon
<1>5. ValidData("zero_current", d) => validate_zero_current(d)
  BY Zenon
<1>6. ValidData("dso_cos_phi_setpoint_provision", d) => validate_dso_cos_phi_setpoint(d)
  BY Zenon
<1>. QED BY <1>1, <1>2, <1>3, <1>4, <1>5, <1>6, Zenon

\* The data the library makes has its type.
LEMMA MadeTyped ==
    /\ \A start, stop \in Int : \A f \in FrequencyFunctions :
          make_frequency_watt(start, stop) \in DataType(f)
    /\ \A start, stop \in Int : make_volt_watt(start, stop) \in DataType("volt_watt")
    /\ \A f \in CurveFunctions : make_der_curve \in DataType(f)
    /\ \A f \in RideThroughFunctions : make_fault_ride_through \in DataType(f)
    /\ make_zero_current \in DataType("zero_current")
    /\ NeutralQ \in DataType("dso_q_setpoint_provision")
    /\ NeutralCosPhi \in DataType("dso_cos_phi_setpoint_provision")
<1>1. ASSUME NEW start \in Int, NEW stop \in Int
      PROVE  /\ make_frequency_watt(start, stop)
                  \in [f_start : Int, f_stop : Int, slope : Int, tau : Int]
             /\ make_volt_watt(start, stop) \in [u_start : Int, u_stop : Int, tau : Int]
  BY DEF make_frequency_watt, make_volt_watt
<1>2. make_der_curve \in [x : Seq(Int), tau : Int]
  BY DEF make_der_curve
<1>3. make_fault_ride_through
        \in [start : Int, stop : SUBSET Int, recovery : SUBSET Int, tau : Int]
  BY DEF make_fault_ride_through
<1>4. make_zero_current
        \in [over : SUBSET Int, under : SUBSET Int, recovery : SUBSET Int, tau : Int]
  BY DEF make_zero_current
<1>5. /\ NeutralQ \in [value : Int, tau : Int]
      /\ NeutralCosPhi \in [value : Int, phases : SUBSET Int, tau : Int]
  BY DEF NeutralQ, NeutralCosPhi
<1>. QED BY <1>1, <1>2, <1>3, <1>4, <1>5, DataTypes, Zenon

LEMMA DefaultConfigTyped == IsControlConfig(make_default_ac_der_control_config)
<1>. SUFFICES ASSUME NEW f \in ControlFunctions
              PROVE  make_default_ac_der_control_config[f] \subseteq DataType(f)
  BY DEF IsControlConfig
<1>. DEFINE default == make_default_ac_der_control_config[f]
<1>1. /\ f = "under_frequency_watt" => default = {make_frequency_watt(498, 495)}
      /\ f = "over_frequency_watt" => default = {make_frequency_watt(502, 505)}
      /\ f \in CurveFunctions => default = {make_der_curve}
      /\ f \in RideThroughFunctions => default = {make_fault_ride_through}
      /\ f = "volt_watt" => default = {make_volt_watt(230, 253)}
      /\ f = "zero_current" => default = {make_zero_current}
      /\ f = "dc_injection_restriction" => default = {0}
      /\ f = "dso_q_setpoint_provision" => default = {NeutralQ}
      /\ f = "dso_cos_phi_setpoint_provision" => default = {NeutralCosPhi}
  BY DEF make_default_ac_der_control_config, CurveFunctions, RideThroughFunctions
<1>2. \E d \in DataType(f) : default = {d}
  <2>. HIDE DEF default
  <2>1. CASE f \in FrequencyFunctions
    BY <1>1, <2>1, MadeTyped DEF FrequencyFunctions
  <2>2. CASE f \in CurveFunctions
    BY <1>1, <2>2, MadeTyped
  <2>3. CASE f \in RideThroughFunctions
    BY <1>1, <2>3, MadeTyped
  <2>4. CASE f \in SetpointFunctions
    BY <1>1, <2>4, MadeTyped DEF SetpointFunctions
  <2>5. CASE f = "volt_watt"
    BY <1>1, <2>5, MadeTyped
  <2>6. CASE f = "zero_current"
    BY <1>1, <2>6, MadeTyped
  <2>7. CASE f = "dc_injection_restriction"
    BY <1>1, <2>7, DataTypes
  <2>. QED BY <2>1, <2>2, <2>3, <2>4, <2>5, <2>6, <2>7 DEF ControlFunctions
<1>. QED BY <1>2

LEMMA SeccConfigTyped ==
    ASSUME NEW s \in ControlSnapshots
    PROVE  IsControlConfig(SeccConfig(s))
<1>. SUFFICES ASSUME NEW f \in ControlFunctions
              PROVE  SeccConfig(s)[f] \subseteq DataType(f)
  BY DEF IsControlConfig
<1>. DEFINE policy == s.grid_policy
<1>1. /\ s.dso_control.q \in DataType("dso_q_setpoint_provision")
      /\ s.dso_control.cos_phi \in DataType("dso_cos_phi_setpoint_provision")
      /\ policy.u_start \in Int /\ policy.u_stop \in Int
      /\ policy.under_start \in Int /\ policy.under_stop \in Int
      /\ policy.over_start \in Int /\ policy.over_stop \in Int
      /\ policy.maximum_dc_injection \in Int
  BY DEF ControlSnapshots
<1>. HIDE DEF policy
<1>2. \E d \in DataType(f) : SeccConfig(s)[f] = {d}
  <2>1. CASE f \in FrequencyFunctions
    BY <1>1, <2>1, MadeTyped, SeccConfigIs DEF FrequencyFunctions, policy
  <2>2. CASE f \in CurveFunctions
    BY <2>2, MadeTyped, SeccConfigIs
  <2>3. CASE f \in RideThroughFunctions
    BY <2>3, MadeTyped, SeccConfigIs
  <2>4. CASE f \in SetpointFunctions
    BY <1>1, <2>4, SeccConfigIs DEF SetpointFunctions
  <2>5. CASE f = "volt_watt"
    BY <1>1, <2>5, MadeTyped, SeccConfigIs DEF policy
  <2>6. CASE f = "zero_current"
    BY <2>6, MadeTyped, SeccConfigIs
  <2>7. CASE f = "dc_injection_restriction"
    BY <1>1, <2>7, DataTypes, SeccConfigIs DEF policy
  <2>. QED BY <2>1, <2>2, <2>3, <2>4, <2>5, <2>6, <2>7 DEF ControlFunctions
<1>. QED BY <1>2

-----------------------------------------------------------------------------
(* The results of the providers *)

LEMMA ProviderTyped ==
    ASSUME TypeInv
    PROVE  \/ Provider.kind = "static" /\ IsControlConfig(Provider.config)
           \/ Provider.kind = "secc" /\ Provider.snapshots \in ControlSnapshots
           \/ Provider.kind = "custom"
<1>1. CASE setup.provider # {}
  <2>1. Provider \in setup.provider
    BY <1>1 DEF Provider, SessionProvider
  <2>. QED BY <2>1, NegotiationAssumption, Zenon DEF TypeInv
<1>2. CASE setup.provider = {}
  <2>. DEFINE config == IF setup.config # {} THEN CHOOSE c \in setup.config : TRUE
                        ELSE make_default_ac_der_control_config
  <2>1. IsControlConfig(config)
    <3>1. CASE setup.config # {}
      <4>1. config \in setup.config
        BY <3>1
      <4>. QED BY <4>1, NegotiationAssumption, Zenon DEF TypeInv
    <3>2. CASE setup.config = {}
      BY <3>2, DefaultConfigTyped
    <3>. QED BY <3>1, <3>2
  <2>2. Provider = [kind |-> "static", config |-> config]
    BY <1>2 DEF Provider, SessionProvider
  <2>. HIDE DEF config
  <2>. QED BY <2>1, <2>2
<1>. QED BY <1>1, <1>2

LEMMA ResultsTyped ==
    ASSUME TypeInv, NEW result \in ProviderResults, NEW config \in result.config
    PROVE  IsControlConfig(config)
<1>. DEFINE context == [service |-> Sel.service, control |-> Sel.set.control,
                        mobility |-> Sel.set.mobility, functions |-> Sel.set.functions]
<1>1. CASE Provider.kind = "static"
  <2>1. result = StaticResult(Provider.config, context)
    BY <1>1 DEF ProviderResults
  <2>2. config = Provider.config
    BY <2>1 DEF StaticResult, Accepted, Rejected
  <2>. QED BY <1>1, <2>2, ProviderTyped
<1>2. CASE Provider.kind = "secc"
  <2>1. result = SeccResult(Provider.snapshots, context)
    BY <1>2 DEF ProviderResults
  <2>2. result.config = {} \/ result.config = {SeccConfig(Provider.snapshots)}
    <3>. HIDE DEF context
    <3>. QED BY <2>1 DEF SeccResult, Accepted, Rejected
  <2>. QED BY <1>2, <2>2, ProviderTyped, SeccConfigTyped
<1>3. CASE Provider.kind = "custom"
  <2>1. result \in CustomResults
    BY <1>3 DEF ProviderResults
  <2>. QED BY <2>1, NegotiationAssumption, Zenon
<1>. QED BY <1>1, <1>2, <1>3, ProviderTyped

\* The providers of the library have one answer to one selection.
LEMMA OneResult ==
    ASSUME TypeInv, Provider.kind # "custom"
    PROVE  \E result : ProviderResults = {result}
BY ProviderTyped DEF ProviderResults

-----------------------------------------------------------------------------
(* ServiceDetail *)

LEMMA ModesAreMany ==
    ASSUME NEW s \in Setups
    PROVE  Len(SupportedModes(s)) \in Nat /\ Len(s.connectors) \in Nat
<1>1. /\ s.modes \in Seq([control : ControlModes, mobility : MobilityNeedsModes])
      /\ s.connectors \in Seq(STRING)
  BY NegotiationAssumption, Zenon
<1>. QED BY <1>1 DEF SupportedModes

\* Every set of AC_DER that is offered has all control functions.
LEMMA OfferHasFunctions ==
    ASSUME NEW s \in Setups
    PROVE  LET offer == Offer("AC_DER", ParameterList(s, "AC_DER"))
           IN  \A id \in DOMAIN offer : offer[id].functions = {ControlFunctions}
<1>. DEFINE list == ParameterList(s, "AC_DER")
            bound == Len(SupportedModes(s)) * Len(s.connectors)
            ns == Offerable("AC_DER", list)
            Id(n) == OfferedId("AC_DER", list, n)
            Last(id, n) == Id(n) = id /\ \A m \in ns : Id(m) = id => m <= n
<1>1. bound \in Nat
  BY ModesAreMany
<1>2. DOMAIN list = 1..bound
  BY DEF ParameterList, AcServices
<1>3. \A n \in 1..bound : list[n].functions = {ControlFunctions}
  BY DEF ParameterList, AcServices
<1>. HIDE DEF list, bound
<1>4. ns \subseteq 1..bound
  BY <1>2 DEF Offerable
<1>. HIDE DEF ns, Id
<1>5. Offer("AC_DER", list) =
        [id \in {Id(n) : n \in ns} |-> list[CHOOSE n \in ns : Last(id, n)]]
  BY DEF Offer, ns, Id
<1>. SUFFICES ASSUME NEW id \in {Id(n) : n \in ns}
              PROVE  list[CHOOSE n \in ns : Last(id, n)].functions = {ControlFunctions}
  BY <1>5 DEF list
<1>6. \E n \in ns : Last(id, n)
  <2>. DEFINE T == {n \in ns : Id(n) = id}
  <2>1. T \subseteq 1..bound /\ T # {}
    BY <1>4
  <2>. HIDE DEF T
  <2>2. PICK n \in T : \A m \in T : m <= n
    BY <1>1, <2>1, GreatestElement
  <2>. QED BY <2>2 DEF T
<1>7. (CHOOSE n \in ns : Last(id, n)) \in 1..bound
  BY <1>4, <1>6
<1>. QED BY <1>3, <1>7

\* Offering an energy service again changes nothing.
LEMMA OfferAgain ==
    ASSUME NEW service, NEW params
    PROVE  /\ Over(Offer(service, params), Offer(service, params)) = Offer(service, params)
           /\ Over(Offer(service, params), Empty) = Offer(service, params)
<1>. DEFINE offer == Offer(service, params)
<1>1. offer = [id \in DOMAIN offer |-> offer[id]]
  <2>. DEFINE ns == Offerable(service, params)
              ids == {OfferedId(service, params, n) : n \in ns}
              set(id) == params[CHOOSE n \in ns :
                                  /\ OfferedId(service, params, n) = id
                                  /\ \A m \in ns :
                                        OfferedId(service, params, m) = id => m <= n]
  <2>1. offer = [id \in ids |-> set(id)]
    BY DEF Offer
  <2>. HIDE DEF offer, ids, set
  <2>. QED BY <2>1
<1>2. DOMAIN Empty = {}
  BY DEF Empty
<1>. HIDE DEF offer
<1>3. Over(offer, offer) = [id \in DOMAIN offer |-> offer[id]]
  BY DEF Over
<1>4. Over(offer, Empty) = [id \in DOMAIN offer |-> offer[id]]
  BY <1>2 DEF Over
<1>. QED BY <1>1, <1>3, <1>4 DEF offer

\* What a ServiceDetailReq does to what the EV was told.
LEMMA DetailTold ==
    ASSUME NegotiationInv, NEW sid, NEW service \in Services, NEW reply,
           DetailRequest(sid, service, reply), NEW s \in EnergyServices
    PROVE  told'[s] = told[s] \/ told'[s] = Offer(s, ParameterList(setup, s))
<1>. DEFINE offer == Offer(s, ParameterList(setup, s))
<1>1. s \in Services /\ told = [x \in Services |-> told[x]]
  BY DEF NegotiationInv, TypeInv, Services
<1>2. CASE told' = told
  BY <1>2
<1>3. CASE told' # told /\ service # s
  <2>1. \E o : told' = [told EXCEPT ![service] = o]
    BY <1>3, Zenon DEF DetailRequest
  <2>. QED BY <1>1, <1>3, <2>1
<1>4. CASE told' # told /\ service = s
  <2>0. told' = [told EXCEPT ![s] = Over(Offer(s, ConfiguredList(s)), @)]
    BY <1>4, Zenon DEF DetailRequest
  <2>1. ConfiguredList(s) = ParameterList(setup, s)
    BY DEF ConfiguredList, EnergyServices, AcServices, DcServices
  <2>2. told'[s] = Over(offer, told[s])
    BY <1>1, <2>0, <2>1
  <2>3. told[s] \in {Empty, offer}
    BY DEF NegotiationInv, EnergyToldInv
  <2>. HIDE DEF offer
  <2>4. Over(offer, offer) = offer /\ Over(offer, Empty) = offer
    BY OfferAgain DEF offer
  <2>. QED BY <2>2, <2>3, <2>4 DEF offer
<1>. QED BY <1>2, <1>3, <1>4

LEMMA DetailStep ==
    ASSUME NegotiationInv, NEW sid, NEW service \in Services, NEW reply,
           DetailRequest(sid, service, reply),
           state \in {"ServiceDetail", "ServiceSelection"}
    PROVE  NegotiationInv' /\ StopKept
<1>. DEFINE custom == service \notin EnergyServices \cup KnownVas /\ reply # None
            offer == IF custom THEN CustomOffer(CHOOSE r \in reply : TRUE)
                     ELSE Offer(service, ConfiguredList(service))
            Detailed == /\ offered' = [offered EXCEPT ![service] =
                                         IF custom THEN offer ELSE AfterDetail(@, offer)]
                        /\ told' = [told EXCEPT ![service] = Over(offer, @)]
<1>. USE DEF NegotiationInv, TypeInv, None
<1>1. /\ state' \in {"ServiceDetail", "ServiceSelection"}
      /\ StopKept
      /\ setup' = setup /\ selected' = selected /\ selected_vas' = selected_vas
  <2>1. \/ Accept("ServiceDetailReq", None, None, "ServiceSelection")
        \/ \E code : Refuse("ServiceDetailReq", None, code)
    BY Zenon DEF DetailRequest
  <2>2. setup' = setup /\ selected' = selected /\ selected_vas' = selected_vas
    BY DEF DetailRequest
  <2>. QED BY <2>1, <2>2, FeedStops DEF Accept, Refuse, StopKept
<1>2. Detailed \/ (offered' = offered /\ told' = told)
  BY DEF DetailRequest
<1>. HIDE DEF offer
<1>3. TypeInv'
  BY <1>1, <1>2, Zenon DEF NegotiationStates, StopKept
<1>4. ToldInv'
  <2>. SUFFICES ASSUME NEW s \in StoredServices PROVE offered'[s] = told'[s]
    BY DEF ToldInv
  <2>1. s \in Services /\ offered[s] = told[s]
    BY DEF ToldInv, StoredServices, Services
  <2>2. CASE Detailed /\ s = service
    <3>1. ~custom
      BY <2>2 DEF StoredServices
    <3>2. /\ offered'[s] = AfterDetail(offered[s], offer)
          /\ told'[s] = Over(offer, told[s])
      BY <2>1, <2>2, <3>1
    <3>. QED BY <2>1, <3>2 DEF AfterDetail
  <2>3. CASE Detailed /\ s # service
    BY <2>1, <2>3
  <2>. QED BY <1>2, <2>1, <2>2, <2>3
<1>5. SelectionInv'
  BY <1>1 DEF SelectionInv, StopKept
<1>6. OfferedInv'
  <2>. DEFINE der == "AC_DER"
  <2>1. der \in Services /\ der \in EnergyServices
    BY DEF Services, EnergyServices, AcServices
  <2>2. CASE Detailed /\ service = der
    <3>1. ~custom
      BY <2>1, <2>2
    <3>2. offer = Offer(der, ParameterList(setup, der))
      BY <2>1, <2>2, <3>1 DEF offer, ConfiguredList
    <3>3. \A id \in DOMAIN offer : offer[id].functions = {ControlFunctions}
      BY <3>2, OfferHasFunctions
    <3>4. offered'[der] = Over(offer, offered[der])
      BY <2>1, <2>2, <3>1 DEF AfterDetail
    <3>. DEFINE after == offered'[der]
    <3>5. after = [id \in DOMAIN offer \cup DOMAIN offered[der] |->
                     IF id \in DOMAIN offer THEN offer[id] ELSE offered[der][id]]
      BY <3>4 DEF Over
    <3>. HIDE DEF after
    <3>6. \A id \in DOMAIN after : after[id].functions = {ControlFunctions}
      BY <3>3, <3>5 DEF OfferedInv
    <3>. QED BY <3>6 DEF OfferedInv, after
  <2>3. CASE offered'[der] = offered[der]
    BY <2>3 DEF OfferedInv
  <2>4. CASE Detailed /\ service # der
    BY <2>1, <2>3, <2>4
  <2>. QED BY <1>2, <2>2, <2>3, <2>4
<1>7. SelInv' /\ LoopReadyInv'
  BY <1>1 DEF SelInv, LoopReadyInv
<1>8. EnergyToldInv'
  <2>. SUFFICES ASSUME NEW s \in EnergyServices
                PROVE  told'[s] \in {Empty, Offer(s, ParameterList(setup, s))}
    BY <1>1 DEF EnergyToldInv
  <2>1. told[s] \in {Empty, Offer(s, ParameterList(setup, s))}
    BY DEF EnergyToldInv
  <2>. QED BY <2>1, DetailTold
<1>. QED BY <1>1, <1>3, <1>4, <1>5, <1>6, <1>7, <1>8

-----------------------------------------------------------------------------
(* ServiceSelection *)

\* The value added services of a request, and those whose parameter set is found.
VasList(req) == IF req.vas = None THEN <<>> ELSE CHOOSE l \in req.vas : TRUE

VasFound(req) ==
    {n \in DOMAIN VasList(req) :
        find_vas_parameter_set_id(offered, VasList(req)[n].service, VasList(req)[n].id)}

\* A refusal stops the session.
Refused == state' = state /\ stopped' = TRUE /\ answer'.code # "OK"

\* What an accepted selection has passed: the parts a selection copies from.
LEMMA SelectionChecks ==
    ASSUME NegotiationInv, NEW req \in SelectionRequests, ServiceSelection(req)
    PROVE  \/ /\ selected' = selected /\ selected_vas' = selected_vas
              /\ Refused
           \/ /\ SelectEnergy(req.service, req.id)
              /\ SelectVas(VasList(req), VasFound(req))
              /\ req.service \in EnergyServices
              /\ Key(req.id) \in DOMAIN offered[req.service]
              /\ \A n \in DOMAIN VasList(req) : VasList(req)[n].service \in VasServices
              /\ \/ /\ state' = NextState(req.service) /\ StopKept
                    /\ VasFound(req) = DOMAIN VasList(req)
                    /\ answer'.req = req.vas
                 \/ Refused
<1>. DEFINE list == IF req.vas = None THEN <<>> ELSE CHOOSE l \in req.vas : TRUE
            found == {n \in DOMAIN list :
                        find_vas_parameter_set_id(offered, list[n].service, list[n].id)}
            known == find_energy_parameter_set_id(offered, req.service, req.id)
            listed == req.vas # None =>
                        /\ list # <<>>
                        /\ \A n \in DOMAIN list : list[n].service \in setup.vas
            complete == known /\ req.service = "AC_DER" =>
                          \A controls \in offered[req.service][Key(req.id)].functions :
                              has_required_ac_der_control_functions(controls)
            checks == <<
              <<req.sid = "own", "FAILED_UnknownSession">>,
              <<req.service \in setup.energy, "FAILED_NoEnergyTransferServiceSelected">>,
              <<listed, "FAILED_ServiceSelectionInvalid">>,
              <<known, "FAILED_ServiceSelectionInvalid">>,
              <<complete, "FAILED_ServiceSelectionInvalid">> >>
            failure == FirstFailure(checks)
<1>1. \/ /\ failure = {}
         /\ SelectEnergy(req.service, req.id)
         /\ SelectVas(list, found)
         /\ IF found = DOMAIN list
            THEN Accept("ServiceSelectionReq", req.vas, None, NextState(req.service))
            ELSE Refuse("ServiceSelectionReq", req.vas, "FAILED_ServiceSelectionInvalid")
      \/ /\ \E code \in failure : Refuse("ServiceSelectionReq", req.vas, code)
         /\ UNCHANGED <<selected, selected_vas>>
  BY DEF ServiceSelection
<1>2. CASE \E code \in failure : Refuse("ServiceSelectionReq", req.vas, code)
           /\ UNCHANGED <<selected, selected_vas>>
  <2>1. DOMAIN checks = 1..5 /\ \A i \in 1..5 : checks[i][2] # "OK"
    <3>. HIDE DEF listed, known, complete
    <3>. QED OBVIOUS
  <2>2. \A code \in failure : code # "OK"
    <3>. HIDE DEF checks
    <3>1. \/ failure = {}
          \/ \E i \in 1..5 : failure = {checks[i][2]}
      BY <2>1, FailureCases
    <3>. QED BY <2>1, <3>1
  <2>. HIDE DEF failure
  <2>. QED BY <1>2, <2>2 DEF Refuse, Respond, Refused
<1>3. CASE /\ failure = {}
           /\ SelectEnergy(req.service, req.id)
           /\ SelectVas(list, found)
           /\ IF found = DOMAIN list
              THEN Accept("ServiceSelectionReq", req.vas, None, NextState(req.service))
              ELSE Refuse("ServiceSelectionReq", req.vas, "FAILED_ServiceSelectionInvalid")
  <2>1. DOMAIN checks = 1..5
    <3>. HIDE DEF listed, known, complete
    <3>. QED OBVIOUS
  <2>2. (checks[3][1] <=> listed) /\ (checks[4][1] <=> known)
    <3>. HIDE DEF listed, known, complete
    <3>. QED OBVIOUS
  <2>. HIDE DEF checks
  <2>3. \A i \in 1..5 : checks[i][1]
    BY <1>3, <2>1, FailureCases
  <2>4. listed /\ known
    BY <2>2, <2>3
  <2>5. req.service \in EnergyServices /\ Key(req.id) \in DOMAIN offered[req.service]
    BY <2>4 DEF find_energy_parameter_set_id
  <2>6. setup.vas \subseteq VasServices
    BY NegotiationAssumption, Zenon DEF NegotiationInv, TypeInv
  <2>7. \A n \in DOMAIN list : list[n].service \in VasServices
    <3>1. CASE req.vas = None
      BY <3>1
    <3>2. CASE req.vas # None
      <4>. HIDE DEF list
      <4>. QED BY <2>4, <2>6, <3>2
    <3>. QED BY <3>1, <3>2
  <2>8. \/ /\ state' = NextState(req.service) /\ StopKept
           /\ found = DOMAIN list
           /\ answer'.req = req.vas
        \/ Refused
    <3>. HIDE DEF found, list
    <3>. QED BY <1>3, FeedStops DEF Accept, Refuse, Respond, Refused
  <2>. QED BY <1>3, <2>5, <2>7, <2>8 DEF VasList, VasFound
<1>. QED BY <1>1, <1>2, <1>3

LEMMA ElementTyped ==
    ASSUME NEW T, NEW q \in Seq(T), NEW n \in 1..Len(q)
    PROVE  q[n] \in T
OBVIOUS

LEMMA VasListTyped ==
    ASSUME NEW req \in SelectionRequests
    PROVE  /\ VasList(req) \in Seq([service : STRING, id : Nat])
           /\ \A list \in req.vas : list = VasList(req)
<1>1. CASE req.vas = {}
  BY <1>1 DEF VasList, None
<1>2. CASE req.vas # {}
  <2>1. PICK list : list \in Seq([service : STRING, id : Nat]) /\ req.vas = {list}
    BY <1>2, NegotiationAssumption
  <2>2. VasList(req) = list
    BY <2>1 DEF VasList, None
  <2>. QED BY <2>1, <2>2
<1>. QED BY <1>1, <1>2

\* Session::selected_vas_services holds what the offered lists hold, for each service
\* that is named when all are found.
LEMMA VasSelected ==
    ASSUME NEW req \in SelectionRequests,
           \A n \in DOMAIN VasList(req) : VasList(req)[n].service \in VasServices,
           SelectVas(VasList(req), VasFound(req)),
           NEW v \in KnownVas
    PROVE  \/ /\ selected_vas'[v] = selected_vas[v]
              /\ VasFound(req) = DOMAIN VasList(req) =>
                    \A n \in DOMAIN VasList(req) : VasList(req)[n].service # v
           \/ \E s : /\ selected_vas'[v] = {s}
                     /\ v \in StoredServices
                     /\ s.id \in Nat
                     /\ Key(s.id) \in DOMAIN offered[v]
                     /\ s.set = offered[v][Key(s.id)]
                     /\ \E n \in DOMAIN VasList(req) :
                           /\ VasList(req)[n].service = v
                           /\ VasList(req)[n].id = s.id
<1>. DEFINE list == VasList(req)
            found == VasFound(req)
            stored == {n \in found : list[n].service = v /\ \A m \in 1..n : m \in found}
<1>1. selected_vas'[v] = IF stored = {} THEN selected_vas[v]
                         ELSE {[id |-> list[Max(stored)].id,
                                set |-> offered[v][Key(list[Max(stored)].id)]]}
  BY DEF SelectVas
<1>2. list \in Seq([service : STRING, id : Nat])
  BY VasListTyped
<1>3. Len(list) \in Nat /\ stored \subseteq 1..Len(list)
  BY <1>2 DEF VasFound
<1>4. CASE stored # {}
  <2>1. Max(stored) \in stored
    <3>. HIDE DEF stored
    <3>1. \E n \in stored : \A m \in stored : m <= n
      BY <1>3, <1>4, GreatestElement
    <3>2. \E n \in stored : \A m \in stored : n >= m
      BY <1>3, <3>1
    <3>. QED BY <3>2 DEF Max
  <2>2. PICK n \in stored : n = Max(stored)
    BY <2>1
  <2>3. n \in DOMAIN list /\ list[n].service = v
    BY DEF VasFound
  <2>4. find_vas_parameter_set_id(offered, v, list[n].id)
    BY <2>3 DEF VasFound
  <2>5. PICK s : s = [id |-> list[n].id, set |-> offered[v][Key(list[n].id)]]
    OBVIOUS
  <2>6. selected_vas'[v] = {s}
    BY <1>1, <1>4, <2>2, <2>5
  <2>7. v \in VasServices /\ Key(list[n].id) \in DOMAIN offered[v]
    BY <2>3, <2>4 DEF find_vas_parameter_set_id
  <2>8. s.id = list[n].id /\ s.set = offered[v][Key(s.id)] /\ list[n].id \in Nat
    <3>. HIDE DEF list
    <3>. HIDE DEF stored
    <3>1. n \in 1..Len(list)
      BY <1>2, <2>3
    <3>2. list[n] \in [service : STRING, id : Nat]
      BY <1>2, <3>1, ElementTyped
    <3>. QED BY <2>5, <3>2
  <2>. HIDE DEF list
  <2>. QED BY <2>3, <2>6, <2>7, <2>8 DEF StoredServices, list
<1>5. CASE stored = {}
  <2>1. selected_vas'[v] = selected_vas[v]
    BY <1>1, <1>5
  <2>2. ASSUME found = DOMAIN list, NEW n \in DOMAIN list, list[n].service = v
        PROVE  FALSE
    <3>1. n \in 1..Len(list) /\ DOMAIN list = 1..Len(list)
      BY <1>2
    <3>2. \A m \in 1..n : m \in DOMAIN list
      BY <1>3, <3>1
    <3>3. n \in stored
      BY <2>2, <3>2
    <3>. QED BY <1>5, <3>3
  <2>. QED BY <2>1, <2>2
<1>. QED BY <1>4, <1>5

LEMMA SelectionStep ==
    ASSUME NegotiationInv, NEW req \in SelectionRequests, ServiceSelection(req)
    PROVE  NegotiationInv' /\ StopKept
<1>. USE DEF NegotiationInv, TypeInv, None
<1>1. /\ setup' = setup /\ offered' = offered /\ told' = told
      /\ state = "ServiceSelection"
  BY DEF ServiceSelection
<1>2. CASE selected' = selected /\ selected_vas' = selected_vas /\ Refused
  BY <1>1, <1>2
  DEF ToldInv, EnergyToldInv, SelectionInv, OfferedInv, SelInv, LoopReadyInv, Refused,
      StopKept
<1>3. CASE /\ SelectEnergy(req.service, req.id)
           /\ req.service \in EnergyServices
           /\ Key(req.id) \in DOMAIN offered[req.service]
           /\ (state' = NextState(req.service) /\ StopKept) \/ Refused
  <2>. DEFINE s == [service |-> req.service, id |-> req.id,
                    set |-> offered[req.service][Key(req.id)]]
  <2>1. selected' = {s}
    BY <1>3 DEF SelectEnergy
  <2>2. TypeInv'
    BY <1>1, <1>3 DEF NextState, NegotiationStates, StopKept, Refused
  <2>3. ToldInv' /\ EnergyToldInv' /\ OfferedInv'
    BY <1>1, <1>3, <2>1 DEF ToldInv, EnergyToldInv, OfferedInv
  <2>4. SelectionInv'
    BY <1>1, <1>3 DEF SelectionInv, NextState, Refused
  <2>5. SelInv'
    <3>1. s.service = "AC_DER" => s.set.functions = {ControlFunctions}
      BY <1>3 DEF OfferedInv
    <3>. HIDE DEF s
    <3>. QED BY <2>1, <3>1 DEF SelInv
  <2>6. LoopReadyInv'
    BY <1>1, <1>3 DEF LoopReadyInv, NextState, Refused
  <2>7. StopKept
    BY <1>3 DEF StopKept, Refused
  <2>. QED BY <2>2, <2>3, <2>4, <2>5, <2>6, <2>7
<1>. QED BY <1>2, <1>3, SelectionChecks, Zenon

-----------------------------------------------------------------------------
(* AC_ChargeParameterDiscovery and AC_ChargeLoop *)

\* The checks of a request that is not one for DER.
LEMMA PlainVerdict ==
    ASSUME NEW sid, NEW matches \in BOOLEAN, NEW code, code # "OK", NEW failure,
           failure = FirstFailure(<<
             <<sid = "own", Failure("FAILED_UnknownSession", "None")>>,
             <<matches, Failure(code, "None")>> >>)
    PROVE  /\ failure = {} => sid = "own" /\ matches
           /\ \A f \in failure : f.code # "OK"
<1>. DEFINE checks == << <<sid = "own", Failure("FAILED_UnknownSession", "None")>>,
                         <<matches, Failure(code, "None")>> >>
<1>1. DOMAIN checks = 1..2
  OBVIOUS
<1>2. (checks[1][1] <=> sid = "own") /\ (checks[2][1] <=> matches)
  OBVIOUS
<1>3. /\ checks[1][2] = Failure("FAILED_UnknownSession", "None")
      /\ checks[2][2] = Failure(code, "None")
  OBVIOUS
<1>. HIDE DEF checks
<1>4. \/ FirstFailure(checks) = {} /\ \A i \in 1..2 : checks[i][1]
      \/ \E i \in 1..2 : FirstFailure(checks) = {checks[i][2]} /\ ~checks[i][1]
  BY <1>1, FailureCases
<1>5. \A i \in 1..2 : checks[i][2].code # "OK"
  BY <1>3, FailureMembers
<1>6. failure = FirstFailure(checks)
  BY DEF checks
<1>7. \A f \in failure : f.code # "OK"
  BY <1>4, <1>5, <1>6
<1>8. failure = {} => sid = "own" /\ matches
  BY <1>4, <1>6, <1>2
<1>. QED BY <1>7, <1>8

LEMMA AnswerCases ==
    ASSUME NEW to, NEW req, NEW failure, NEW data, NEW next,
           Answer(to, req, failure, data, next), \A f \in failure : f.code # "OK"
    PROVE  /\ answer'.to = to /\ answer'.req = req /\ StopKept
           /\ \/ /\ failure = {} /\ answer'.code = "OK" /\ answer'.data = data
                 /\ state' = next
              \/ /\ failure # {} /\ answer'.code # "OK"
                 /\ state' = state
                 /\ \E f \in failure :
                       diagnostic' = IF f.reason = "None" THEN diagnostic
                                     ELSE {[to |-> to, code |-> f.code,
                                            reason |-> f.reason]}
<1>1. CASE failure = {}
  BY <1>1, FeedStops DEF Answer, Accept, Respond
<1>2. CASE failure # {}
  <2>1. PICK f \in failure :
          /\ Refuse(to, req, f.code)
          /\ diagnostic' = IF f.reason = "None" THEN diagnostic
                           ELSE {[to |-> to, code |-> f.code, reason |-> f.reason]}
    BY <1>2 DEF Answer
  <2>. QED BY <1>2, <2>1 DEF Refuse, Respond, StopKept
<1>. QED BY <1>1, <1>2

\* A DER request that is answered: the result it is answered with.
DerAnswered(to, matches, code, functions, next) ==
    \E result \in ProviderResults :
        Answer(to, answer'.req,
               FirstFailure(DerChecks(answer'.req.sid, matches, result, code)),
               DerData(result, functions), next)

LoopFunctions == SetpointFunctions \cap Controls

LEMMA CpdAnswer ==
    ASSUME NEW sid, NEW mode \in AcServices, AC_ChargeParameterDiscovery(sid, mode)
    PROVE  /\ state = "AC_ChargeParameterDiscovery" /\ StopKept
           /\ UNCHANGED <<setup, offered, told, selected, selected_vas>>
           /\ answer'.to = "AC_ChargeParameterDiscoveryReq"
           /\ answer'.req = [sid |-> sid, mode |-> mode]
           /\ state' \in {state, "ScheduleExchange"}
           /\ mode # "AC_DER" /\ state' = "ScheduleExchange" => Sel.service = mode
           /\ mode = "AC_DER" =>
                DerAnswered("AC_ChargeParameterDiscoveryReq", Sel.service = "AC_DER",
                            "FAILED_WrongChargeParameter", CpdFunctions,
                            "ScheduleExchange")
<1>. DEFINE to == "AC_ChargeParameterDiscoveryReq"
            req == [sid |-> sid, mode |-> mode]
            wrong == "FAILED_WrongChargeParameter"
            der == Sel.service = "AC_DER"
            plain == mode = Sel.service
<1>1. /\ state = "AC_ChargeParameterDiscovery"
      /\ UNCHANGED <<setup, offered, told, selected, selected_vas>>
  BY DEF AC_ChargeParameterDiscovery
<1>2. CASE mode = "AC_DER"
  <2>1. PICK result \in ProviderResults :
          Answer(to, req,
                 FirstFailure(DerChecks(sid, der, result, wrong)),
                 DerData(result, CpdFunctions), "ScheduleExchange")
    BY <1>2 DEF AC_ChargeParameterDiscovery
  <2>2. PICK failure : failure = FirstFailure(DerChecks(sid, der, result, wrong))
    OBVIOUS
  <2>. HIDE DEF der
  <2>3. der \in BOOLEAN
    BY DEF der
  <2>4. \A f \in failure : f.code # "OK"
    BY <2>2, <2>3, DerVerdict
  <2>5. /\ answer'.to = to /\ answer'.req = req /\ StopKept
        /\ state' \in {state, "ScheduleExchange"}
    BY <2>1, <2>2, <2>4, AnswerCases
  <2>6. DerAnswered(to, der, wrong, CpdFunctions, "ScheduleExchange")
    BY <2>1, <2>5 DEF DerAnswered
  <2>. QED BY <1>1, <1>2, <2>5, <2>6 DEF der
<1>3. CASE mode # "AC_DER"
  <2>1. PICK failure :
          /\ failure = FirstFailure(<<
               <<sid = "own", Failure("FAILED_UnknownSession", "None")>>,
               <<plain, Failure(wrong, "None")>> >>)
          /\ Answer(to, req, failure, None, "ScheduleExchange")
    BY <1>3 DEF AC_ChargeParameterDiscovery
  <2>. HIDE DEF plain
  <2>2. plain \in BOOLEAN
    BY DEF plain
  <2>3. (failure = {} => plain) /\ \A f \in failure : f.code # "OK"
    BY <2>1, <2>2, PlainVerdict
  <2>4. Answer(to, req, failure, None, "ScheduleExchange")
    BY <2>1
  <2>5. /\ answer'.to = to /\ answer'.req = req /\ StopKept
        /\ \/ failure = {} /\ state' = "ScheduleExchange"
           \/ failure # {} /\ state' = state
    BY <2>3, <2>4, AnswerCases
  <2>. QED BY <1>1, <1>3, <2>3, <2>5 DEF plain
<1>. QED BY <1>2, <1>3

LEMMA LoopAnswer ==
    ASSUME NEW sid, NEW control, NEW mode \in AcServices,
           AC_ChargeLoop(sid, control, mode)
    PROVE  /\ state = "AC_ChargeLoop" /\ StopKept
           /\ UNCHANGED <<setup, offered, told, selected, selected_vas>>
           /\ answer'.to = "AC_ChargeLoopReq"
           /\ answer'.req = [sid |-> sid, control |-> control, mode |-> mode]
           /\ state' = state
           /\ mode = "AC_DER" =>
                DerAnswered("AC_ChargeLoopReq",
                            control = Sel.set.control /\ mode = Sel.service, "FAILED",
                            LoopFunctions, "AC_ChargeLoop")
<1>. DEFINE to == "AC_ChargeLoopReq"
            req == [sid |-> sid, control |-> control, mode |-> mode]
            matches == control = Sel.set.control /\ mode = Sel.service
<1>1. /\ state = "AC_ChargeLoop"
      /\ UNCHANGED <<setup, offered, told, selected, selected_vas>>
  BY DEF AC_ChargeLoop
<1>2. CASE mode = "AC_DER"
  <2>1. PICK result \in ProviderResults :
          Answer(to, req, FirstFailure(DerChecks(sid, matches, result, "FAILED")),
                 DerData(result, SetpointFunctions \cap Controls), "AC_ChargeLoop")
    BY <1>2 DEF AC_ChargeLoop
  <2>2. PICK failure : failure = FirstFailure(DerChecks(sid, matches, result, "FAILED"))
    OBVIOUS
  <2>. HIDE DEF matches
  <2>3. matches \in BOOLEAN
    BY DEF matches
  <2>4. \A f \in failure : f.code # "OK"
    BY <2>2, <2>3, DerVerdict
  <2>5. /\ answer'.to = to /\ answer'.req = req /\ StopKept
        /\ state' \in {state, "AC_ChargeLoop"}
    BY <2>1, <2>2, <2>4, AnswerCases
  <2>6. DerAnswered(to, matches, "FAILED", LoopFunctions, "AC_ChargeLoop")
    BY <2>1, <2>5 DEF DerAnswered, LoopFunctions
  <2>. QED BY <1>1, <1>2, <2>5, <2>6 DEF matches
<1>3. CASE mode # "AC_DER"
  <2>1. PICK failure :
          /\ failure = FirstFailure(<<
               <<sid = "own", Failure("FAILED_UnknownSession", "None")>>,
               <<matches, Failure("FAILED", "None")>> >>)
          /\ Answer(to, req, failure, None, "AC_ChargeLoop")
    BY <1>3 DEF AC_ChargeLoop
  <2>. HIDE DEF matches
  <2>2. matches \in BOOLEAN
    BY DEF matches
  <2>3. \A f \in failure : f.code # "OK"
    BY <2>1, <2>2, PlainVerdict
  <2>4. Answer(to, req, failure, None, "AC_ChargeLoop")
    BY <2>1
  <2>5. /\ answer'.to = to /\ answer'.req = req /\ StopKept
        /\ state' \in {state, "AC_ChargeLoop"}
    BY <2>3, <2>4, AnswerCases
  <2>. QED BY <1>1, <1>3, <2>5
<1>. QED BY <1>2, <1>3

\* What the answer to a DER request says of the result of the provider.
DerOutcome(to, matches, code, functions, next, result) ==
    \/ /\ answer'.code = "OK" /\ answer'.data = DerData(result, functions)
       /\ state' = next
       /\ answer'.req.sid = "own" /\ matches /\ DerAccepts(result)
    \/ /\ answer'.code # "OK" /\ state' = state
       /\ ~(answer'.req.sid = "own" /\ matches /\ DerAccepts(result))
       /\ (/\ answer'.req.sid = "own" /\ matches
           /\ Sel.set.functions # {}
           /\ has_required_ac_der_control_functions(Controls)
           /\ result.config = {}
           /\ result.failure_reason # "None")
             => diagnostic' = {[to |-> to, code |-> code,
                                reason |-> result.failure_reason]}

LEMMA DerAnsweredCases ==
    ASSUME NEW to, NEW matches \in BOOLEAN, NEW code, code # "OK", NEW functions, NEW next,
           DerAnswered(to, matches, code, functions, next)
    PROVE  \E result \in ProviderResults :
              DerOutcome(to, matches, code, functions, next, result)
<1>. DEFINE sid == answer'.req.sid
<1>1. PICK result \in ProviderResults :
        Answer(to, answer'.req, FirstFailure(DerChecks(sid, matches, result, code)),
               DerData(result, functions), next)
  BY DEF DerAnswered
<1>. HIDE DEF sid
<1>2. PICK failure : failure = FirstFailure(DerChecks(sid, matches, result, code))
  OBVIOUS
<1>3. /\ failure = {} <=> sid = "own" /\ matches /\ DerAccepts(result)
      /\ \A f \in failure : f.code # "OK"
  BY <1>2, DerVerdict
<1>4. Answer(to, answer'.req, failure, DerData(result, functions), next)
  BY <1>1, <1>2
<1>5. \/ /\ failure = {} /\ answer'.code = "OK" /\ answer'.data = DerData(result, functions)
         /\ state' = next
      \/ /\ failure # {} /\ answer'.code # "OK"
         /\ state' = state
         /\ \E f \in failure :
               diagnostic' = IF f.reason = "None" THEN diagnostic
                             ELSE {[to |-> to, code |-> f.code, reason |-> f.reason]}
  BY <1>3, <1>4, AnswerCases
<1>6. ASSUME sid = "own", matches, Sel.set.functions # {}, result.config = {},
             has_required_ac_der_control_functions(Controls),
             result.failure_reason # "None"
      PROVE  diagnostic' = {[to |-> to, code |-> code, reason |-> result.failure_reason]}
  <2>1. failure = {Failure(code, result.failure_reason)}
    BY <1>2, <1>6, DerVerdict
  <2>2. \E f \in failure :
           diagnostic' = IF f.reason = "None" THEN diagnostic
                         ELSE {[to |-> to, code |-> f.code, reason |-> f.reason]}
    BY <1>5, <2>1
  <2>. QED BY <1>6, <2>1, <2>2, FailureMembers
<1>. QED BY <1>3, <1>5, <1>6 DEF sid, DerOutcome

LEMMA AcFrame ==
    ASSUME UNCHANGED <<setup, selected>>
    PROVE  /\ Provider' = Provider /\ Sel' = Sel /\ Controls' = Controls
           /\ ProviderResults' = ProviderResults
           /\ \A result : DerAccepts(result)' <=> DerAccepts(result)
<1>1. Provider' = Provider /\ Sel' = Sel
  BY DEF Provider, Sel
<1>2. Controls' = Controls
  BY <1>1 DEF Controls
<1>3. ProviderResults' = ProviderResults
  BY <1>1 DEF ProviderResults
<1>4. ASSUME NEW result PROVE DerAccepts(result)' <=> DerAccepts(result)
  BY <1>1, <1>2, Zenon DEF DerAccepts
<1>. QED BY <1>1, <1>2, <1>3, <1>4

LEMMA CpdStep ==
    ASSUME NegotiationInv, NEW sid, NEW mode \in AcServices,
           AC_ChargeParameterDiscovery(sid, mode)
    PROVE  NegotiationInv'
<1>. USE DEF NegotiationInv, TypeInv
<1>1. /\ state = "AC_ChargeParameterDiscovery" /\ StopKept
      /\ UNCHANGED <<setup, offered, told, selected, selected_vas>>
      /\ state' \in {state, "ScheduleExchange"}
      /\ mode # "AC_DER" /\ state' = "ScheduleExchange" => Sel.service = mode
  BY CpdAnswer
<1>2. TypeInv' /\ ToldInv' /\ EnergyToldInv' /\ SelectionInv' /\ OfferedInv' /\ SelInv'
  BY <1>1
  DEF NegotiationStates, ToldInv, EnergyToldInv, SelectionInv, OfferedInv, SelInv, StopKept
<1>3. LoopReadyInv'
  <2>. SUFFICES ASSUME state' = "ScheduleExchange", Sel.service = "AC_DER",
                       Provider.kind # "custom"
                PROVE  \A result \in ProviderResults : DerAccepts(result)
    BY <1>1, AcFrame DEF LoopReadyInv
  <2>. DEFINE der == Sel.service = "AC_DER"
  <2>1. DerAnswered("AC_ChargeParameterDiscoveryReq", der,
                    "FAILED_WrongChargeParameter", CpdFunctions, "ScheduleExchange")
    BY <1>1, CpdAnswer
  <2>. HIDE DEF der
  <2>2. der \in BOOLEAN
    BY DEF der
  <2>3. PICK result \in ProviderResults :
          DerOutcome("AC_ChargeParameterDiscoveryReq", der,
                     "FAILED_WrongChargeParameter", CpdFunctions, "ScheduleExchange",
                     result)
    BY <2>1, <2>2, DerAnsweredCases
  <2>4. DerAccepts(result)
    BY <1>1, <2>3 DEF DerOutcome
  <2>. QED BY <2>4, OneResult
<1>. QED BY <1>2, <1>3

LEMMA LoopStep ==
    ASSUME NegotiationInv, NEW sid, NEW control, NEW mode \in AcServices,
           AC_ChargeLoop(sid, control, mode)
    PROVE  NegotiationInv'
<1>1. /\ UNCHANGED <<setup, offered, told, selected, selected_vas, state>>
      /\ StopKept
  BY LoopAnswer
<1>2. LoopReadyInv'
  BY <1>1, AcFrame DEF NegotiationInv, LoopReadyInv
<1>. QED
  BY <1>1, <1>2
  DEF NegotiationInv, TypeInv, ToldInv, EnergyToldInv, SelectionInv, OfferedInv, SelInv,
      StopKept

LEMMA PowerStep ==
    ASSUME NegotiationInv, PowerDelivered
    PROVE  NegotiationInv' /\ StopKept
<1>1. /\ UNCHANGED <<setup, offered, told, selected, selected_vas>> /\ StopKept
      /\ state = "ScheduleExchange" /\ state' = "AC_ChargeLoop"
  BY DEF PowerDelivered, StopKept, NegotiationInv, TypeInv
<1>2. LoopReadyInv'
  BY <1>1, AcFrame DEF NegotiationInv, LoopReadyInv
<1>. QED
  BY <1>1, <1>2
  DEF NegotiationInv, TypeInv, NegotiationStates, ToldInv, EnergyToldInv, SelectionInv,
      OfferedInv, SelInv, StopKept

LEMMA NegotiationInvInit ==
    ASSUME Init
    PROVE  NegotiationInv
<1>. USE DEF Init
<1>1. TypeInv
  BY DEF TypeInv, NegotiationStates
<1>2. ToldInv /\ EnergyToldInv /\ OfferedInv
  <2>1. "AC_DER" \in Services /\ StoredServices \subseteq Services
    BY DEF StoredServices, Services, EnergyServices, AcServices
  <2>2. DOMAIN Empty = {}
    BY DEF Empty
  <2>. QED BY <2>1, <2>2 DEF ToldInv, EnergyToldInv, OfferedInv, Services, None
<1>3. SelectionInv /\ SelInv /\ LoopReadyInv
  BY DEF SelectionInv, SelInv, LoopReadyInv, None
<1>. QED BY <1>1, <1>2, <1>3 DEF NegotiationInv

LEMMA NegotiationInvStep ==
    ASSUME NegotiationInv, [Next]_vars
    PROVE  NegotiationInv'
<1>1. CASE UNCHANGED vars
  <2>1. /\ UNCHANGED <<setup, offered, told, selected, selected_vas, stopped, state>>
    BY <1>1 DEF vars
  <2>2. LoopReadyInv'
    BY <2>1, AcFrame DEF NegotiationInv, LoopReadyInv
  <2>. QED
    BY <2>1, <2>2
    DEF NegotiationInv, TypeInv, ToldInv, EnergyToldInv, SelectionInv, OfferedInv, SelInv
<1>2. CASE Next
  BY <1>2, DetailStep, SelectionStep, CpdStep, LoopStep, PowerStep
  DEF Next, ServiceDetail, ServiceSelection_detail
<1>. QED BY <1>1, <1>2

-----------------------------------------------------------------------------
(* The selection *)

LEMMA AsToldFrame ==
    ASSUME NEW service, NEW s, told'[service] = told[service]
    PROVE  AsTold(service, s) => AsTold(service, s)'
BY DEF AsTold

\* A set that is in the list the EV knows, under its id as a uint8_t.
LEMMA AsToldKey ==
    ASSUME NEW service, NEW s, s.id \in Nat, Key(s.id) \in DOMAIN told'[service],
           s.set = told'[service][Key(s.id)]
    PROVE  AsTold(service, s)'
<1>1. s.id < 256 => Key(s.id) = s.id
  BY DEF Key
<1>. QED BY <1>1 DEF AsTold

\* The parts of SelectedAsTold.
EnergyAsTold == \A s \in selected : AsTold(s.service, s)

VasAsTold == ~stopped => \A v \in KnownVas : \A s \in selected_vas[v] : AsTold(v, s)

NamedAsTold ==
    answer.to = "ServiceSelectionReq" /\ answer.code = "OK" =>
        \A list \in answer.req : \A n \in DOMAIN list :
            list[n].service \in KnownVas =>
                \E s \in selected_vas[list[n].service] :
                    /\ \E m \in DOMAIN list : /\ list[m].service = list[n].service
                                             /\ list[m].id = s.id
                    /\ AsTold(list[n].service, s)

LEMMA SelectedParts == SelectedAsTold <=> EnergyAsTold /\ VasAsTold /\ NamedAsTold
BY Zenon DEF SelectedAsTold, EnergyAsTold, VasAsTold, NamedAsTold

\* Neither the selection nor what the EV was told changes.
LEMMA SelectionKept ==
    ASSUME SelectedAsTold, UNCHANGED <<told, selected, selected_vas>>, StopKept,
           answer' = answer \/ answer'.to # "ServiceSelectionReq" \/ answer'.code # "OK"
    PROVE  SelectedAsTold'
<1>1. \A service, s : AsTold(service, s) => AsTold(service, s)'
  BY AsToldFrame
<1>2. EnergyAsTold /\ VasAsTold /\ NamedAsTold
  BY SelectedParts
<1>3. EnergyAsTold'
  BY <1>1, <1>2 DEF EnergyAsTold
<1>4. VasAsTold'
  BY <1>1, <1>2 DEF VasAsTold, StopKept
<1>5. NamedAsTold'
  BY <1>1, <1>2 DEF NamedAsTold
<1>. QED BY <1>3, <1>4, <1>5 DEF SelectedAsTold, EnergyAsTold, VasAsTold, NamedAsTold

\* The EV is told of a service again.
LEMMA DetailKeepsSelected ==
    ASSUME NegotiationInv, SelectedAsTold, NEW sid, NEW service \in Services, NEW reply,
           DetailRequest(sid, service, reply),
           state \in {"ServiceDetail", "ServiceSelection"}
    PROVE  SelectedAsTold'
<1>1. /\ selected' = selected /\ selected_vas' = selected_vas
      /\ answer'.to = "ServiceDetailReq" /\ StopKept
  <2>1. \/ Accept("ServiceDetailReq", None, None, "ServiceSelection")
        \/ \E code : Refuse("ServiceDetailReq", None, code)
    BY Zenon DEF DetailRequest
  <2>2. answer'.to = "ServiceDetailReq"
    BY <2>1 DEF Accept, Refuse, Respond
  <2>. QED BY <2>2, DetailStep DEF DetailRequest
<1>2. EnergyAsTold'
  <2>. SUFFICES ASSUME NEW s \in selected, s.id < 256
                PROVE  /\ s.id \in DOMAIN told'[s.service]
                       /\ s.set = told'[s.service][s.id]
    BY <1>1 DEF EnergyAsTold, AsTold
  <2>1. s.id \in DOMAIN told[s.service] /\ s.set = told[s.service][s.id]
    BY SelectedParts DEF EnergyAsTold, AsTold
  <2>2. /\ s.service \in EnergyServices
        /\ told[s.service] \in {Empty, Offer(s.service, ParameterList(setup, s.service))}
    BY DEF NegotiationInv, EnergyToldInv
  <2>3. told[s.service] = Offer(s.service, ParameterList(setup, s.service))
    <3>1. DOMAIN Empty = {}
      BY DEF Empty
    <3>. QED BY <2>1, <2>2, <3>1
  <2>4. told'[s.service] = told[s.service]
    BY <2>2, <2>3, DetailTold
  <2>. QED BY <2>1, <2>4
<1>3. VasAsTold'
  <2>1. ~stopped' => \A v \in KnownVas : selected_vas[v] = {}
    BY <1>1 DEF StopKept, NegotiationInv, SelectionInv, None
  <2>. QED BY <1>1, <2>1 DEF VasAsTold
<1>4. NamedAsTold'
  BY <1>1 DEF NamedAsTold
<1>. QED BY <1>2, <1>3, <1>4 DEF SelectedAsTold, EnergyAsTold, VasAsTold, NamedAsTold

LEMMA SelectsAsTold ==
    ASSUME NegotiationInv, SelectedAsTold, NEW req \in SelectionRequests,
           ServiceSelection(req)
    PROVE  SelectedAsTold'
<1>. DEFINE list == VasList(req)
            found == VasFound(req)
<1>1. told' = told /\ state = "ServiceSelection" /\ StopKept
  BY SelectionStep DEF ServiceSelection
<1>2. CASE selected' = selected /\ selected_vas' = selected_vas /\ Refused
  BY <1>1, <1>2, SelectionKept DEF Refused
<1>3. CASE /\ SelectEnergy(req.service, req.id)
           /\ SelectVas(list, found)
           /\ req.service \in EnergyServices
           /\ Key(req.id) \in DOMAIN offered[req.service]
           /\ \A n \in DOMAIN list : list[n].service \in VasServices
           /\ \/ found = DOMAIN list /\ answer'.req = req.vas
              \/ Refused
  <2>1. \A s \in StoredServices : offered[s] = told'[s]
    BY <1>1 DEF NegotiationInv, ToldInv
  <2>2. EnergyAsTold'
    <3>1. PICK s : s = [service |-> req.service, id |-> req.id,
                        set |-> offered[req.service][Key(req.id)]]
      OBVIOUS
    <3>2. selected' = {s}
      BY <1>3, <3>1 DEF SelectEnergy
    <3>3. offered[req.service] = told'[req.service]
      BY <1>3, <2>1 DEF StoredServices
    <3>4. req.id \in Nat
      BY NegotiationAssumption
    <3>5. AsTold(s.service, s)'
      BY <1>3, <3>1, <3>3, <3>4, AsToldKey
    <3>. QED BY <3>2, <3>5 DEF EnergyAsTold
  <2>3. ASSUME NEW v \in KnownVas
        PROVE  \/ /\ selected_vas'[v] = selected_vas[v]
                  /\ found = DOMAIN list => \A n \in DOMAIN list : list[n].service # v
               \/ \E s : /\ selected_vas'[v] = {s}
                         /\ AsTold(v, s)'
                         /\ \E n \in DOMAIN list : /\ list[n].service = v
                                                  /\ list[n].id = s.id
    <3>1. CASE \E s : /\ selected_vas'[v] = {s}
                      /\ v \in StoredServices
                      /\ s.id \in Nat
                      /\ Key(s.id) \in DOMAIN offered[v]
                      /\ s.set = offered[v][Key(s.id)]
                      /\ \E n \in DOMAIN list : /\ list[n].service = v
                                               /\ list[n].id = s.id
      <4>1. PICK s : /\ selected_vas'[v] = {s}
                     /\ v \in StoredServices
                     /\ s.id \in Nat
                     /\ Key(s.id) \in DOMAIN offered[v]
                     /\ s.set = offered[v][Key(s.id)]
                     /\ \E n \in DOMAIN list : /\ list[n].service = v
                                              /\ list[n].id = s.id
        BY <3>1
      <4>2. AsTold(v, s)'
        BY <2>1, <4>1, AsToldKey
      <4>. QED BY <4>1, <4>2
    <3>. QED BY <1>3, <3>1, VasSelected
  <2>4. VasAsTold'
    <3>. SUFFICES ASSUME ~stopped', NEW v \in KnownVas, NEW s \in selected_vas'[v]
                  PROVE  AsTold(v, s)'
      BY DEF VasAsTold
    <3>1. selected_vas[v] = {}
      BY <1>1 DEF StopKept, NegotiationInv, SelectionInv, None
    <3>. QED BY <2>3, <3>1
  <2>5. NamedAsTold'
    <3>1. CASE answer'.code # "OK"
      BY <3>1 DEF NamedAsTold
    <3>2. CASE answer'.code = "OK"
      <4>1. found = DOMAIN list /\ answer'.req = req.vas
        BY <1>3, <3>2 DEF Refused
      <4>2. \A l \in answer'.req : l = list
        BY <4>1, VasListTyped
      <4>. HIDE DEF list, found
      <4>3. ASSUME NEW n \in DOMAIN list, list[n].service \in KnownVas
            PROVE  \E s \in selected_vas'[list[n].service] :
                      /\ \E m \in DOMAIN list : /\ list[m].service = list[n].service
                                               /\ list[m].id = s.id
                      /\ AsTold(list[n].service, s)'
        BY <2>3, <4>1, <4>3
      <4>. QED BY <4>2, <4>3 DEF NamedAsTold
    <3>. QED BY <3>1, <3>2
  <2>. QED BY <2>2, <2>4, <2>5 DEF SelectedAsTold, EnergyAsTold, VasAsTold, NamedAsTold
<1>. QED BY <1>2, <1>3, SelectionChecks, Zenon

LEMMA SelectedStep ==
    ASSUME NegotiationInv, SelectedAsTold, [Next]_vars
    PROVE  SelectedAsTold'
<1>1. ASSUME NEW sid, NEW service \in Services, NEW reply,
             \/ ServiceDetail(sid, service, reply)
             \/ ServiceSelection_detail(sid, service, reply)
      PROVE  SelectedAsTold'
  BY <1>1, DetailKeepsSelected DEF ServiceDetail, ServiceSelection_detail
<1>2. ASSUME NEW req \in SelectionRequests, ServiceSelection(req)
      PROVE  SelectedAsTold'
  BY <1>2, SelectsAsTold
<1>3. ASSUME NEW sid, NEW mode \in AcServices, AC_ChargeParameterDiscovery(sid, mode)
      PROVE  SelectedAsTold'
  BY <1>3, CpdAnswer, SelectionKept
<1>4. ASSUME NEW sid, NEW control, NEW mode \in AcServices,
             AC_ChargeLoop(sid, control, mode)
      PROVE  SelectedAsTold'
  BY <1>4, LoopAnswer, SelectionKept
<1>5. CASE PowerDelivered
  <2>1. UNCHANGED <<told, selected, selected_vas, answer>>
    BY <1>5 DEF PowerDelivered
  <2>. QED BY <1>5, <2>1, PowerStep, SelectionKept
<1>6. CASE UNCHANGED vars
  <2>1. UNCHANGED <<told, selected, selected_vas, answer>> /\ StopKept
    BY <1>6 DEF vars, StopKept, NegotiationInv, TypeInv
  <2>. QED BY <2>1, SelectionKept
<1>. QED BY <1>1, <1>2, <1>3, <1>4, <1>5, <1>6 DEF Next

\* What the session works with is what the EV was told last under the very id it asked
\* for, if that fits a uint8_t: Session::selected_service_parameters, after any sequence
\* of ServiceDetailReqs and changes of the application, the grace period included.
THEOREM SelectionIsAsTold == Spec => []SelectedAsTold
<1>1. Init => NegotiationInv /\ SelectedAsTold
  <2>1. Init => SelectedAsTold
    BY DEF Init, SelectedAsTold, None, NoAnswer
  <2>. QED BY <2>1, NegotiationInvInit
<1>2. NegotiationInv /\ SelectedAsTold /\ [Next]_vars
        => (NegotiationInv /\ SelectedAsTold)'
  BY NegotiationInvStep, SelectedStep
<1>. QED BY <1>1, <1>2, PTL DEF Spec

-----------------------------------------------------------------------------
(* The answers to DER requests *)

\* A step either leaves what the properties of an answer speak of, or it answers a
\* request that is none for DER, or a DER request in one of the two states.
DerAnswerStep(to, functions) ==
    /\ UNCHANGED <<setup, selected>>
    /\ answer'.to = to
    /\ \E result \in ProviderResults :
          \/ /\ answer'.code = "OK" /\ answer'.data = DerData(result, functions)
             /\ DerAccepts(result)
          \/ /\ answer'.code # "OK"
             /\ ~DerAccepts(result)
             /\ (/\ Sel.set.functions # {}
                 /\ has_required_ac_der_control_functions(Controls)
                 /\ result.config = {}
                 /\ result.failure_reason # "None")
                   => \E d \in diagnostic' :
                         d.reason = result.failure_reason /\ d.to = to

LEMMA DerAnswerSteps ==
    ASSUME NEW to, NEW matches \in BOOLEAN, NEW code, code # "OK", NEW functions, NEW next,
           DerAnswered(to, matches, code, functions, next), matches,
           answer'.req.sid = "own", answer'.to = to, UNCHANGED <<setup, selected>>
    PROVE  DerAnswerStep(to, functions)
<1>. DEFINE Silent(result) == /\ Sel.set.functions # {}
                              /\ has_required_ac_der_control_functions(Controls)
                              /\ result.config = {}
                              /\ result.failure_reason # "None"
<1>1. PICK result \in ProviderResults :
         \/ /\ answer'.code = "OK" /\ answer'.data = DerData(result, functions)
            /\ DerAccepts(result)
         \/ /\ answer'.code # "OK"
            /\ ~DerAccepts(result)
            /\ Silent(result)
                 => diagnostic' = {[to |-> to, code |-> code,
                                    reason |-> result.failure_reason]}
  <2>1. PICK result \in ProviderResults :
          DerOutcome(to, matches, code, functions, next, result)
    BY DerAnsweredCases
  <2>. QED BY <2>1, Zenon DEF DerOutcome
<1>2. ASSUME diagnostic' = {[to |-> to, code |-> code, reason |-> result.failure_reason]}
      PROVE  \E d \in diagnostic' : d.reason = result.failure_reason /\ d.to = to
  BY <1>2
<1>3. \/ /\ answer'.code = "OK" /\ answer'.data = DerData(result, functions)
         /\ DerAccepts(result)
      \/ /\ answer'.code # "OK"
         /\ ~DerAccepts(result)
         /\ Silent(result) =>
              \E d \in diagnostic' : d.reason = result.failure_reason /\ d.to = to
  BY <1>1, <1>2
<1>. QED BY <1>3 DEF DerAnswerStep

LEMMA AnswerSteps ==
    ASSUME NegotiationInv, [Next]_vars, AnswersDer'
    PROVE  \/ UNCHANGED <<setup, selected, answer, diagnostic>>
           \/ /\ state = "AC_ChargeParameterDiscovery"
              /\ DerAnswerStep("AC_ChargeParameterDiscoveryReq", CpdFunctions)
           \/ /\ state = "AC_ChargeLoop"
              /\ DerAnswerStep("AC_ChargeLoopReq", LoopFunctions)
<1>1. CASE UNCHANGED vars
  BY <1>1 DEF vars
<1>2. CASE PowerDelivered
  BY <1>2 DEF PowerDelivered
<1>3. ASSUME NEW sid, NEW service, NEW reply,
             \/ ServiceDetail(sid, service, reply)
             \/ ServiceSelection_detail(sid, service, reply)
      PROVE  FALSE
  <2>1. \/ Accept("ServiceDetailReq", None, None, "ServiceSelection")
        \/ \E code : Refuse("ServiceDetailReq", None, code)
    BY <1>3, Zenon DEF ServiceDetail, ServiceSelection_detail, DetailRequest
  <2>2. answer'.to = "ServiceDetailReq"
    BY <2>1 DEF Accept, Refuse, Respond
  <2>. QED BY <2>2 DEF AnswersDer
<1>4. ASSUME NEW req, ServiceSelection(req)
      PROVE  FALSE
  <2>1. \/ Accept("ServiceSelectionReq", req.vas, None, NextState(req.service))
        \/ \E code : Refuse("ServiceSelectionReq", req.vas, code)
    BY <1>4, Zenon DEF ServiceSelection
  <2>2. answer'.to = "ServiceSelectionReq"
    BY <2>1 DEF Accept, Refuse, Respond
  <2>. QED BY <2>2 DEF AnswersDer
<1>5. ASSUME NEW sid, NEW mode \in AcServices, AC_ChargeParameterDiscovery(sid, mode)
      PROVE  /\ state = "AC_ChargeParameterDiscovery"
             /\ DerAnswerStep("AC_ChargeParameterDiscoveryReq", CpdFunctions)
  <2>1. /\ state = "AC_ChargeParameterDiscovery"
        /\ UNCHANGED <<setup, selected>>
        /\ answer'.to = "AC_ChargeParameterDiscoveryReq"
        /\ answer'.req = [sid |-> sid, mode |-> mode]
    BY <1>5, CpdAnswer
  <2>2. mode = "AC_DER" /\ sid = "own" /\ Sel.service = "AC_DER"
    BY <2>1, AcFrame DEF AnswersDer
  <2>. DEFINE der == Sel.service = "AC_DER"
  <2>3. DerAnswered("AC_ChargeParameterDiscoveryReq", der,
                    "FAILED_WrongChargeParameter", CpdFunctions, "ScheduleExchange")
    BY <1>5, <2>2, CpdAnswer
  <2>4. der \in BOOLEAN /\ der
    BY <2>2
  <2>. HIDE DEF der
  <2>5. answer'.req.sid = "own"
    BY <2>1, <2>2
  <2>. QED BY <2>1, <2>3, <2>4, <2>5, DerAnswerSteps
<1>6. ASSUME NEW sid, NEW control, NEW mode \in AcServices,
             AC_ChargeLoop(sid, control, mode)
      PROVE  state = "AC_ChargeLoop" /\ DerAnswerStep("AC_ChargeLoopReq", LoopFunctions)
  <2>1. /\ state = "AC_ChargeLoop"
        /\ UNCHANGED <<setup, selected>>
        /\ answer'.to = "AC_ChargeLoopReq"
        /\ answer'.req = [sid |-> sid, control |-> control, mode |-> mode]
    BY <1>6, LoopAnswer
  <2>2. /\ mode = "AC_DER" /\ sid = "own" /\ Sel.service = "AC_DER"
        /\ control = Sel.set.control
    BY <2>1, AcFrame DEF AnswersDer
  <2>. DEFINE matches == control = Sel.set.control /\ mode = Sel.service
  <2>3. DerAnswered("AC_ChargeLoopReq", matches, "FAILED", LoopFunctions, "AC_ChargeLoop")
    BY <1>6, <2>2, LoopAnswer
  <2>4. matches \in BOOLEAN /\ matches
    BY <2>2
  <2>. HIDE DEF matches
  <2>5. answer'.req.sid = "own"
    BY <2>1, <2>2
  <2>. QED BY <2>1, <2>3, <2>4, <2>5, DerAnswerSteps
<1>. QED BY <1>1, <1>2, <1>3, <1>4, <1>5, <1>6 DEF Next

\* Nothing of an answer changes as long as these do not.
LEMMA AnswerFrame ==
    ASSUME UNCHANGED <<setup, selected, answer, diagnostic>>
    PROVE  /\ AnswersDer' = AnswersDer
           /\ LoopAgreesWithCpd => LoopAgreesWithCpd'
           /\ DerDataComplete => DerDataComplete'
           /\ PreflightDecides => PreflightDecides'
<1>1. /\ Provider' = Provider /\ Sel' = Sel
      /\ answer' = answer /\ diagnostic' = diagnostic
  BY AcFrame
<1>2. AnswersDer' = AnswersDer
  BY <1>1 DEF AnswersDer
<1>3. LoopAgreesWithCpd => LoopAgreesWithCpd'
  BY <1>1, <1>2 DEF LoopAgreesWithCpd
<1>4. DerDataComplete => DerDataComplete'
  BY <1>1, <1>2 DEF DerDataComplete
<1>5. PreflightDecides => PreflightDecides'
  BY <1>1, <1>2, Zenon DEF PreflightDecides, Conveys
<1>. QED BY <1>2, <1>3, <1>4, <1>5

LEMMA LoopAgreesStep ==
    ASSUME NegotiationInv, LoopAgreesWithCpd, [Next]_vars
    PROVE  LoopAgreesWithCpd'
<1>. SUFFICES ASSUME Provider'.kind # "custom", AnswersDer', answer'.to = "AC_ChargeLoopReq",
                     ~UNCHANGED <<setup, selected, answer, diagnostic>>
              PROVE  answer'.code = "OK"
  BY AnswerFrame DEF LoopAgreesWithCpd
<1>1. state = "AC_ChargeLoop" /\ DerAnswerStep("AC_ChargeLoopReq", LoopFunctions)
  BY AnswerSteps DEF DerAnswerStep
<1>2. UNCHANGED <<setup, selected>>
  BY <1>1 DEF DerAnswerStep
<1>3. Provider.kind # "custom" /\ Sel.service = "AC_DER"
  BY <1>2, AcFrame DEF AnswersDer
<1>4. \A result \in ProviderResults : DerAccepts(result)
  BY <1>1, <1>3 DEF NegotiationInv, LoopReadyInv
<1>. QED BY <1>1, <1>4 DEF DerAnswerStep

\* With the providers of the library, a session that got its control data in
\* AC_ChargeParameterDiscovery is not refused in AC_ChargeLoop for the data.
THEOREM LoopAgrees == Spec => []LoopAgreesWithCpd
<1>1. Init => NegotiationInv /\ LoopAgreesWithCpd
  <2>1. Init => LoopAgreesWithCpd
    BY DEF Init, NoAnswer, LoopAgreesWithCpd, AnswersDer
  <2>. QED BY <2>1, NegotiationInvInit
<1>2. NegotiationInv /\ LoopAgreesWithCpd /\ [Next]_vars
        => (NegotiationInv /\ LoopAgreesWithCpd)'
  BY NegotiationInvStep, LoopAgreesStep
<1>. QED BY <1>1, <1>2, PTL DEF Spec

\* A result that is accepted has valid data for every control function.
LEMMA AcceptedData ==
    ASSUME TypeInv, NEW result \in ProviderResults, DerAccepts(result)
    PROVE  \E config \in result.config :
              \A f \in ControlFunctions :
                  \E d \in config[f] : d \in DataType(f) /\ ValidData(f, d)
<1>1. PICK config \in result.config : validate_ac_der_control_config(config, Controls)
  BY DEF DerAccepts
<1>2. \A f \in ControlFunctions : config[f] \subseteq DataType(f)
  BY ResultsTyped DEF IsControlConfig
<1>3. ControlFunctions \subseteq Controls
  BY DEF DerAccepts, has_required_ac_der_control_functions
<1>4. \A f \in ControlFunctions : \E d \in config[f] : ValidData(f, d)
  BY <1>1, <1>3 DEF validate_ac_der_control_config
<1>. QED BY <1>2, <1>4

\* Valid data can be followed.
LEMMA ValidCurve ==
    ASSUME NEW f \in CurveFunctions, NEW c \in DataType(f), ValidData(f, c),
           NEW i \in DOMAIN c.x, NEW j \in DOMAIN c.x, i < j
    PROVE  c.x[i] < c.x[j]
<1>1. c \in [x : Seq(Int), tau : Int]
  BY DataTypes
<1>2. validate_der_curve(c)
  BY ValidDataIs
<1>3. c.x \in Seq(Int)
  BY <1>1
<1>4. \A k \in 2..Len(c.x) : c.x[k - 1] < c.x[k]
  BY <1>2 DEF validate_der_curve
<1>. QED BY <1>3, <1>4, CurveIncreases

LEMMA ValidLimits ==
    ASSUME NEW d
    PROVE  /\ d \in DataType("volt_watt") /\ ValidData("volt_watt", d)
                => 0 < d.u_start /\ d.u_start < d.u_stop
           /\ d \in DataType("under_frequency_watt") /\ ValidData("under_frequency_watt", d)
                => 0 < d.f_stop /\ d.f_stop < d.f_start
           /\ d \in DataType("over_frequency_watt") /\ ValidData("over_frequency_watt", d)
                => 0 < d.f_start /\ d.f_start < d.f_stop
           /\ ValidData("zero_current", d) => d.over \cup d.under # {}
           /\ d \in DataType("dso_cos_phi_setpoint_provision")
                /\ ValidData("dso_cos_phi_setpoint_provision", d)
                => d.value \in 0..1000 /\ \A v \in d.phases : v \in 0..1000
<1>1. d \in DataType("volt_watt") /\ ValidData("volt_watt", d)
        => 0 < d.u_start /\ d.u_start < d.u_stop
  <2>. SUFFICES ASSUME d \in [u_start : Int, u_stop : Int, tau : Int],
                       validate_volt_watt(d)
                PROVE  0 < d.u_start /\ d.u_start < d.u_stop
    BY DataTypes, ValidDataIs
  <2>. QED BY DEF validate_volt_watt
<1>2. d \in DataType("under_frequency_watt") /\ ValidData("under_frequency_watt", d)
        => 0 < d.f_stop /\ d.f_stop < d.f_start
  <2>. SUFFICES ASSUME d \in [f_start : Int, f_stop : Int, slope : Int, tau : Int],
                       validate_frequency_watt(d, TRUE)
                PROVE  0 < d.f_stop /\ d.f_stop < d.f_start
    BY DataTypes, ValidDataIs DEF FrequencyFunctions
  <2>. QED BY DEF validate_frequency_watt
<1>3. d \in DataType("over_frequency_watt") /\ ValidData("over_frequency_watt", d)
        => 0 < d.f_start /\ d.f_start < d.f_stop
  <2>. SUFFICES ASSUME d \in [f_start : Int, f_stop : Int, slope : Int, tau : Int],
                       validate_frequency_watt(d, FALSE)
                PROVE  0 < d.f_start /\ d.f_start < d.f_stop
    BY DataTypes, ValidDataIs DEF FrequencyFunctions
  <2>. QED BY DEF validate_frequency_watt
<1>4. ValidData("zero_current", d) => d.over \cup d.under # {}
  BY ValidDataIs DEF validate_zero_current
<1>5. d \in DataType("dso_cos_phi_setpoint_provision")
        /\ ValidData("dso_cos_phi_setpoint_provision", d)
        => d.value \in 0..1000 /\ \A v \in d.phases : v \in 0..1000
  <2>. SUFFICES ASSUME d \in DataType("dso_cos_phi_setpoint_provision"),
                       ValidData("dso_cos_phi_setpoint_provision", d)
                PROVE  d.value \in 0..1000 /\ \A v \in d.phases : v \in 0..1000
    OBVIOUS
  <2>1. d \in [value : Int, phases : SUBSET Int, tau : Int]
    BY DataTypes
  <2>2. d.value \in Int /\ d.phases \subseteq Int
    BY <2>1
  <2>3. validate_dso_cos_phi_setpoint(d)
    BY ValidDataIs
  <2>4. is_power_factor(d.value) /\ \A v \in d.phases : is_power_factor(v)
    BY <2>3 DEF validate_dso_cos_phi_setpoint, optional_is_power_factor
  <2>5. \A v \in Int : is_power_factor(v) => v \in 0..1000
    BY DEF is_power_factor
  <2>6. \A v \in d.phases : v \in 0..1000
    BY <2>2, <2>4, <2>5, Zenon
  <2>7. d.value \in 0..1000
    BY <2>2, <2>4, <2>5, Zenon
  <2>. QED BY <2>6, <2>7
<1>. QED BY <1>1, <1>2, <1>3, <1>4, <1>5

LEMMA DataCompleteStep ==
    ASSUME NegotiationInv, DerDataComplete, [Next]_vars
    PROVE  DerDataComplete'
<1>. SUFFICES ASSUME AnswersDer', answer'.code = "OK",
                     ~UNCHANGED <<setup, selected, answer, diagnostic>>
              PROVE  DerDataComplete'
  BY AnswerFrame DEF DerDataComplete
<1>1. CASE DerAnswerStep("AC_ChargeParameterDiscoveryReq", CpdFunctions)
  <2>1. PICK result \in ProviderResults :
          DerAccepts(result) /\ answer'.data = DerData(result, CpdFunctions)
    BY <1>1 DEF DerAnswerStep
  <2>2. PICK config \in result.config :
          \A f \in ControlFunctions :
              \E d \in config[f] : d \in DataType(f) /\ ValidData(f, d)
    BY <2>1, AcceptedData DEF NegotiationInv
  <2>3. PICK d : d = [f \in CpdFunctions |-> config[f]]
    OBVIOUS
  <2>4. d \in answer'.data
    BY <2>1, <2>3 DEF DerData
  <2>5. \A f \in CpdFunctions : \E c \in d[f] : c \in DataType(f) /\ ValidData(f, c)
    BY <2>2, <2>3 DEF CpdFunctions
  <2>6. {"volt_watt", "under_frequency_watt", "over_frequency_watt", "zero_current"}
           \cup CurveFunctions \subseteq CpdFunctions
    BY DEF CpdFunctions, ControlFunctions, SetpointFunctions, FrequencyFunctions,
           CurveFunctions
  <2>7. \A f \in CurveFunctions : \E c \in d[f] :
           \A i, j \in DOMAIN c.x : i < j => c.x[i] < c.x[j]
    BY <2>5, <2>6, ValidCurve
  <2>8. /\ \E vw \in d["volt_watt"] : 0 < vw.u_start /\ vw.u_start < vw.u_stop
        /\ \E fw \in d["under_frequency_watt"] : 0 < fw.f_stop /\ fw.f_stop < fw.f_start
        /\ \E fw \in d["over_frequency_watt"] : 0 < fw.f_start /\ fw.f_start < fw.f_stop
        /\ \E z \in d["zero_current"] : z.over \cup z.under # {}
    BY <2>5, <2>6, ValidLimits
  <2>9. DOMAIN d = CpdFunctions /\ \A f \in CpdFunctions : d[f] # {}
    BY <2>3, <2>5
  <2>10. answer'.to # "AC_ChargeLoopReq"
    BY <1>1 DEF DerAnswerStep
  <2>11. CompleteCpd(d)
    BY <2>7, <2>8, <2>9 DEF CompleteCpd, None
  <2>. QED BY <2>4, <2>10, <2>11 DEF DerDataComplete
<1>2. CASE DerAnswerStep("AC_ChargeLoopReq", LoopFunctions)
  <2>1. PICK result \in ProviderResults :
          DerAccepts(result) /\ answer'.data = DerData(result, LoopFunctions)
    BY <1>2 DEF DerAnswerStep
  <2>2. PICK config \in result.config :
          \A f \in ControlFunctions :
              \E d \in config[f] : d \in DataType(f) /\ ValidData(f, d)
    BY <2>1, AcceptedData DEF NegotiationInv
  <2>3. LoopFunctions = SetpointFunctions /\ SetpointFunctions \subseteq ControlFunctions
    BY <2>1
    DEF LoopFunctions, DerAccepts, has_required_ac_der_control_functions,
        ControlFunctions
  <2>4. PICK d : d = [f \in SetpointFunctions |-> config[f]]
    OBVIOUS
  <2>5. d \in answer'.data
    BY <2>1, <2>3, <2>4 DEF DerData
  <2>6. \E c \in d["dso_cos_phi_setpoint_provision"] :
          c.value \in 0..1000 /\ \A v \in c.phases : v \in 0..1000
    <3>1. "dso_cos_phi_setpoint_provision" \in SetpointFunctions
      BY DEF SetpointFunctions
    <3>2. PICK c \in config["dso_cos_phi_setpoint_provision"] :
            /\ c \in DataType("dso_cos_phi_setpoint_provision")
            /\ ValidData("dso_cos_phi_setpoint_provision", c)
      BY <2>2, <2>3, <3>1
    <3>3. c.value \in 0..1000 /\ \A v \in c.phases : v \in 0..1000
      BY <3>2, ValidLimits
    <3>. QED BY <2>4, <3>1, <3>3
  <2>7. DOMAIN d = SetpointFunctions
    BY <2>4
  <2>8. answer'.to = "AC_ChargeLoopReq"
    BY <1>2 DEF DerAnswerStep
  <2>9. CompleteLoop(d)
    BY <2>6, <2>7 DEF CompleteLoop
  <2>. QED BY <2>5, <2>8, <2>9 DEF DerDataComplete
<1>. QED BY <1>1, <1>2, AnswerSteps

\* Whatever provider the application brings, an answer OK of
\* AC_ChargeParameterDiscovery or AC_ChargeLoop has data for every function the EV
\* selected, and data that can be followed.
THEOREM DerDataIsComplete == Spec => []DerDataComplete
<1>1. Init => NegotiationInv /\ DerDataComplete
  <2>1. Init => DerDataComplete
    BY DEF Init, NoAnswer, DerDataComplete, AnswersDer
  <2>. QED BY <2>1, NegotiationInvInit
<1>2. NegotiationInv /\ DerDataComplete /\ [Next]_vars
        => (NegotiationInv /\ DerDataComplete)'
  BY NegotiationInvStep, DataCompleteStep
<1>. QED BY <1>1, <1>2, PTL DEF Spec

-----------------------------------------------------------------------------
(* The preflight *)

\* The control data made of a configuration of the SECC provider conveys the
\* snapshots.
LEMMA SeccConveys ==
    ASSUME NEW s \in ControlSnapshots, NEW functions,
           answer'.data = {[f \in functions |-> SeccConfig(s)[f]]},
           \/ answer'.to = "AC_ChargeLoopReq" /\ functions = SetpointFunctions
           \/ answer'.to = "AC_ChargeParameterDiscoveryReq" /\ functions = CpdFunctions
    PROVE  Conveys(s)'
<1>. DEFINE config == SeccConfig(s)
            policy == s.grid_policy
<1>1. PICK d : d = [f \in functions |-> config[f]]
  OBVIOUS
<1>2. d \in answer'.data
  BY <1>1
<1>3. CASE answer'.to = "AC_ChargeLoopReq" /\ functions = SetpointFunctions
  <2>1. /\ d["dso_q_setpoint_provision"] = {s.dso_control.q}
        /\ d["dso_cos_phi_setpoint_provision"] = {s.dso_control.cos_phi}
    BY <1>1, <1>3, SeccConfigIs DEF SetpointFunctions
  <2>. QED BY <1>2, <1>3, <2>1 DEF Conveys
<1>4. CASE answer'.to = "AC_ChargeParameterDiscoveryReq" /\ functions = CpdFunctions
  <2>1. {"volt_watt", "under_frequency_watt", "over_frequency_watt",
         "dc_injection_restriction"} \subseteq CpdFunctions
    BY DEF CpdFunctions, ControlFunctions, SetpointFunctions, FrequencyFunctions
  <2>2. /\ d["volt_watt"] = {make_volt_watt(policy.u_start, policy.u_stop)}
        /\ d["under_frequency_watt"] =
             {make_frequency_watt(policy.under_start, policy.under_stop)}
        /\ d["over_frequency_watt"] =
             {make_frequency_watt(policy.over_start, policy.over_stop)}
        /\ d["dc_injection_restriction"] = {policy.maximum_dc_injection}
    BY <1>1, <1>4, <2>1, SeccConfigIs
  <2>3. /\ \E vw \in d["volt_watt"] : /\ vw.u_start = policy.u_start
                                      /\ vw.u_stop = policy.u_stop
        /\ \E fw \in d["under_frequency_watt"] : /\ fw.f_start = policy.under_start
                                                 /\ fw.f_stop = policy.under_stop
        /\ \E fw \in d["over_frequency_watt"] : /\ fw.f_start = policy.over_start
                                                /\ fw.f_stop = policy.over_stop
    BY <2>2 DEF make_volt_watt, make_frequency_watt
  <2>. QED BY <1>2, <1>4, <2>2, <2>3 DEF Conveys
<1>. QED BY <1>3, <1>4

LEMMA PreflightStep ==
    ASSUME NegotiationInv, PreflightDecides, [Next]_vars
    PROVE  PreflightDecides'
<1>. SUFFICES ASSUME Provider'.kind = "secc", AnswersDer',
                     ~UNCHANGED <<setup, selected, answer, diagnostic>>
              PROVE  PreflightDecides'
  BY AnswerFrame DEF PreflightDecides
<1>1. PICK to, functions :
        /\ state \in {"AC_ChargeParameterDiscovery", "AC_ChargeLoop"}
        /\ DerAnswerStep(to, functions)
        /\ \/ to = "AC_ChargeLoopReq" /\ functions = LoopFunctions
           \/ to = "AC_ChargeParameterDiscoveryReq" /\ functions = CpdFunctions
  BY AnswerSteps
<1>2. UNCHANGED <<setup, selected>> /\ answer'.to = to
  BY <1>1 DEF DerAnswerStep
<1>3. /\ Provider' = Provider /\ Provider.kind = "secc"
      /\ Sel' = Sel /\ Sel.service = "AC_DER"
  BY <1>2, AcFrame DEF AnswersDer
<1>4. PICK s \in ControlSnapshots : s = Provider.snapshots
  BY <1>3, ProviderTyped DEF NegotiationInv
<1>5. Sel.set.functions = {ControlFunctions}
  BY <1>1, <1>3 DEF NegotiationInv, SelInv, Sel
<1>6. Controls = ControlFunctions /\ LoopFunctions = SetpointFunctions
  BY <1>5 DEF Controls, LoopFunctions, ControlFunctions
<1>7. has_required_ac_der_control_functions(Controls) /\ Sel.set.functions # {}
  BY <1>5, <1>6 DEF has_required_ac_der_control_functions
<1>. DEFINE preflight == validate_ac_der_secc_control_snapshots(s)
            outside == Sel.set.control # "Dynamic" \/ Sel.set.mobility # "ProvidedByEvcc"
<1>8. PICK result \in ProviderResults :
         /\ \/ /\ answer'.code = "OK" /\ answer'.data = DerData(result, functions)
               /\ DerAccepts(result)
            \/ /\ answer'.code # "OK"
               /\ ~DerAccepts(result)
               /\ result.config = {} /\ result.failure_reason # "None"
                    => \E d \in diagnostic' :
                          d.reason = result.failure_reason /\ d.to = to
  BY <1>1, <1>7 DEF DerAnswerStep
<1>9. /\ outside => result.config = {}
      /\ ~outside /\ preflight = "None" => result = Accepted(SeccConfig(s))
      /\ ~outside /\ preflight # "None" => result = Rejected(preflight)
  <2>1. PICK context : context = [service |-> Sel.service, control |-> Sel.set.control,
                                  mobility |-> Sel.set.mobility,
                                  functions |-> Sel.set.functions]
    OBVIOUS
  <2>2. result = SeccResult(s, context)
    BY <1>3, <1>4, <2>1 DEF ProviderResults
  <2>3. /\ context.service = "AC_DER" /\ context.functions = {ControlFunctions}
        /\ context.control = Sel.set.control /\ context.mobility = Sel.set.mobility
    BY <1>3, <1>5, <2>1
  <2>. QED BY <2>2, <2>3, SeccVerdict
<1>. SUFFICES IF outside THEN answer'.code # "OK"
              ELSE IF preflight = "None" THEN answer'.code = "OK" /\ Conveys(s)'
              ELSE /\ answer'.code # "OK"
                   /\ \E d \in diagnostic' : d.reason = preflight /\ d.to = answer'.to
  BY <1>3, <1>4 DEF PreflightDecides, Conveys
<1>. HIDE DEF preflight, outside
<1>10. CASE outside
  BY <1>8, <1>9, <1>10 DEF DerAccepts
<1>11. CASE ~outside /\ preflight = "None"
  <2>1. result.config = {SeccConfig(s)}
    BY <1>9, <1>11 DEF Accepted
  <2>2. validate_ac_der_control_config(SeccConfig(s), ControlFunctions)
    BY <1>11, PreflightVerdict, SeccConfigValid DEF preflight
  <2>3. DerAccepts(result)
    BY <1>6, <1>7, <2>1, <2>2 DEF DerAccepts
  <2>4. answer'.code = "OK" /\ answer'.data = DerData(result, functions)
    BY <1>8, <2>3
  <2>5. answer'.data = {[f \in functions |-> SeccConfig(s)[f]]}
    BY <2>1, <2>4 DEF DerData
  <2>6. Conveys(s)'
    BY <1>1, <1>2, <1>6, <2>5, SeccConveys
  <2>. QED BY <1>11, <2>4, <2>6
<1>12. CASE ~outside /\ preflight # "None"
  <2>1. result.config = {} /\ result.failure_reason = preflight
    BY <1>9, <1>12 DEF Rejected
  <2>2. ~DerAccepts(result)
    BY <2>1 DEF DerAccepts
  <2>. QED BY <1>2, <1>8, <1>12, <2>1, <2>2
<1>. QED BY <1>10, <1>11, <1>12

\* The preflight validate_ac_der_secc_control_snapshots decides: a session in the
\* scope of the SECC snapshot provider is served the policy of its snapshots in
\* every request, or refused with the reason the preflight finds, which is reported.
THEOREM PreflightIsDecisive == Spec => []PreflightDecides
<1>1. Init => NegotiationInv /\ PreflightDecides
  <2>1. Init => PreflightDecides
    BY DEF Init, NoAnswer, PreflightDecides, AnswersDer
  <2>. QED BY <2>1, NegotiationInvInit
<1>2. NegotiationInv /\ PreflightDecides /\ [Next]_vars
        => (NegotiationInv /\ PreflightDecides)'
  BY NegotiationInvStep, PreflightStep
<1>. QED BY <1>1, <1>2, PTL DEF Spec

=============================================================================
