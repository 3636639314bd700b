------------------------- MODULE ServiceParameters -------------------------
(***************************************************************************)
(* The parameter sets of the services: the lists SessionConfig derives     *)
(* from the setup of the application, what ServiceDetail offers of them    *)
(* under which ids, and what a selection finds again under an id.          *)
(*                                                                         *)
(* A parameter list is a function from ids to parameter sets; the set of   *)
(* an energy service is what later states read of it.  A vector of the     *)
(* configuration is a sequence, the offered std::map a function whose      *)
(* domain is the ids offered so far.                                       *)
(***************************************************************************)
EXTENDS AcDerControl, FiniteSets

AcServices == {"AC", "AC_BPT", "AC_DER"}

DcServices == {"DC", "DC_BPT", "MCS", "MCS_BPT"}

EnergyServices == AcServices \cup DcServices

\* The two value added services the library knows; any other is a custom one.
KnownVas == {"Internet", "ParkingStatus"}

ControlModes == {"Scheduled", "Dynamic"}

MobilityNeedsModes == {"ProvidedByEvcc", "ProvidedBySecc"}

Empty == <<>>

-----------------------------------------------------------------------------
(* SessionConfig *)

get_mobility_needs_mode(mode) ==
    IF mode.control = "Scheduled" /\ mode.mobility = "ProvidedBySecc"
    THEN "ProvidedByEvcc" ELSE mode.mobility

\* SessionConfig never has an empty list of control modes.
SupportedModes(setup) ==
    IF setup.modes = <<>> THEN <<[control |-> "Scheduled", mobility |-> "ProvidedByEvcc"]>>
    ELSE setup.modes

\* SessionConfig asks the provider of the setup, or a static one with the
\* configuration of the setup, or a static one with the default configuration.
SessionProvider(setup) ==
    IF setup.provider # {} THEN CHOOSE p \in setup.provider : TRUE
    ELSE [kind |-> "static",
          config |-> IF setup.config # {} THEN CHOOSE c \in setup.config : TRUE
                     ELSE make_default_ac_der_control_config]

\* The ac_..., dc_... and mcs_parameter_list of the configuration: one set for each
\* mode and, with AC, for each connector.
ParameterList(setup, service) ==
    LET modes == SupportedModes(setup)
        connectors == IF service \in AcServices THEN setup.connectors ELSE <<"default">>
        n == Len(connectors)
    IN  [k \in 1..(Len(modes) * n) |->
            LET mode == modes[((k - 1) \div n) + 1]
            IN  [connector |-> connectors[((k - 1) % n) + 1],
                 control |-> mode.control,
                 mobility |-> get_mobility_needs_mode(mode),
                 functions |-> IF service = "AC_DER" THEN {ControlFunctions} ELSE {}]]

-----------------------------------------------------------------------------
(* ServiceDetail *)

\* The key of an offered list is a uint8_t, the id of a request a uint16_t.
Key(id) == id % 256

\* fill_internet_parameter_list: the port of a parameter set of the application.  A
\* set with another id gives a port that is none of the four.
InternetPort(id) ==
    CASE id = 1 -> 20 [] id = 2 -> 21 [] id = 3 -> 80 [] id = 4 -> 443 [] OTHER -> 0

\* The id of the n-th port offered.  A port that is none of the four keeps the id
\* of the set before it.
InternetId(ports, n) ==
    LET known == {i \in 1..n : ports[i] # 0}
        last == CHOOSE i \in known : \A j \in known : j <= i
    IN  IF known = {} THEN 0
        ELSE CHOOSE id \in 1..4 : InternetPort(id) = ports[last]

\* The sets of a list that are offered: not those of AC_DER without the required
\* functions.
Offerable(service, list) ==
    {n \in DOMAIN list :
        service = "AC_DER" =>
            \A controls \in list[n].functions :
                has_required_ac_der_control_functions(controls)}

\* The id of the n-th set of a list: ids count what is offered, from 0 in a uint8_t;
\* those of Internet follow the port.
OfferedId(service, list, n) ==
    IF service = "Internet" THEN InternetId(list, n)
    ELSE Key(Cardinality({m \in Offerable(service, list) : m < n}))

\* What the response says: a later set of the same id replaces an earlier one.
Offer(service, list) ==
    LET ns == Offerable(service, list)
        last(id) == CHOOSE n \in ns :
                      /\ OfferedId(service, list, n) = id
                      /\ \A m \in ns : OfferedId(service, list, m) = id => m <= n
    IN  [id \in {OfferedId(service, list, n) : n \in ns} |-> list[last(id)]]

\* The same for a custom service, which keeps the ids of the application.
CustomOffer(sets) ==
    LET last(id) == CHOOSE n \in DOMAIN sets :
                      /\ sets[n].id = id
                      /\ \A m \in DOMAIN sets : sets[m].id = id => m <= n
    IN  [id \in {sets[n].id : n \in DOMAIN sets} |-> sets[last(id)].value]

\* The std::map g after every entry of f was assigned to it.
Over(f, g) ==
    [id \in DOMAIN f \cup DOMAIN g |-> IF id \in DOMAIN f THEN f[id] ELSE g[id]]

\* std::map::insert in the place of operator[]: the first set offered stays.
AfterDetail_insert(list, offer) == Over(list, offer)

\* The offered list after ServiceDetail: ids that are not offered again stay.
AfterDetail(list, offer) == Over(offer, list)

-----------------------------------------------------------------------------
(* Session: finding a parameter set again *)

AsInt16(id) == IF id < 32768 THEN id ELSE id - 65536

find_energy_parameter_set_id(offered, service, id) ==
    service \in EnergyServices /\ Key(id) \in DOMAIN offered[service]

find_vas_parameter_set_id(offered, service, id) ==
    IF service \in KnownVas THEN Key(id) \in DOMAIN offered[service]
    ELSE AsInt16(id) \in DOMAIN offered[service]

=============================================================================
