-------------------------- MODULE ChargingSession --------------------------
(***************************************************************************)
(* What a session promises the EV, the application and the next vehicle,   *)
(* without messages, states, timers and connections.  A session goes       *)
(* through its phases in one direction only.  It gets out of the setup by  *)
(* an authorization that stands at that moment, or by resuming a paused    *)
(* session with the service it was paused with.  DC is only charged after  *)
(* a cable check that stands.  The data link is released once, as paused   *)
(* only after charging, and then the session is over: no late message,     *)
(* event or timeout has an effect any more.                                *)
(*                                                                         *)
(* IsoSession implements this specification (IsoSession!KeepsPromise).     *)
(***************************************************************************)

CONSTANT EnergyServices

VARIABLES
    phase,              \* "setup", "authorized", "preparing", "charging", "stopping"
    service,            \* the energy service agreed on, or "None"
    approved,           \* the decisions that stand
    link                \* "up", "paused" or "terminated"

promiseVars == <<phase, service, approved, link>>

PromiseInit ==
    /\ phase = "setup"
    /\ service = "None"
    /\ approved = {}
    /\ link = "up"

\* The application decides, and may change its mind while the phase lasts.
Decide(question) ==
    /\ link = "up"
    /\ approved' \in {approved \cup {question}, approved \ {question}}
    /\ UNCHANGED <<phase, service, link>>

Authorize ==
    /\ link = "up"
    /\ phase = "setup"
    /\ "authorized" \in approved
    /\ phase' = "authorized"
    /\ UNCHANGED <<service, approved, link>>

Resume(s) ==
    /\ link = "up"
    /\ phase = "setup"
    /\ phase' = "preparing"
    /\ service' = s
    /\ approved' = approved \cup {"resumed"}
    /\ UNCHANGED link

\* The energy service is agreed on, and with it the session goes on unless another
\* service of the request is refused.
Select(s) ==
    /\ link = "up"
    /\ phase = "authorized"
    /\ phase' \in {"authorized", "preparing"}
    /\ service' = s
    /\ UNCHANGED <<approved, link>>

Charge ==
    /\ link = "up"
    /\ phase = "preparing"
    /\ service = "DC" => "cable_checked" \in approved
    /\ phase' = "charging"
    /\ UNCHANGED <<service, approved, link>>

Stop ==
    /\ link = "up"
    /\ phase = "charging"
    /\ phase' = "stopping"
    /\ UNCHANGED <<service, approved, link>>

\* Whatever happens, a session can be terminated in every phase.
Release ==
    /\ link = "up"
    /\ \/ link' = "terminated"
       \/ link' = "paused" /\ phase = "stopping"
    /\ UNCHANGED <<phase, service, approved>>

PromiseNext ==
    \/ phase = "setup" /\ Decide("authorized")
    \/ phase = "preparing" /\ service = "DC" /\ Decide("cable_checked")
    \/ Authorize
    \/ \E s \in EnergyServices : Resume(s) \/ Select(s)
    \/ Charge
    \/ Stop
    \/ Release

Promise == PromiseInit /\ [][PromiseNext]_promiseVars

=============================================================================
