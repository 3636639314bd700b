------------------------------ MODULE Timeouts ------------------------------
(***************************************************************************)
(* d20::Timeouts: one optional deadline per TimeoutType.                   *)
(*                                                                         *)
(* A deadline is kept as the time left until it, so that time passing is   *)
(* a decrement and no clock value is part of the state.  A deadline that   *)
(* has passed keeps its (negative) distance down to -MaxLag, which is what *)
(* the order of two passed deadlines is read from.                         *)
(***************************************************************************)
EXTENDS Integers

CONSTANT MaxLag     \* how far a passed deadline is still told apart from another

ASSUME MaxLagAssumption == MaxLag \in Nat

TimeoutTypes == {"SEQUENCE", "PERFORMANCE", "ONGOING", "CONTACTOR"}

\* The underlying value of a TimeoutType, which orders the loop of check().
Index(type) ==
    CASE type = "SEQUENCE"    -> 0
      [] type = "PERFORMANCE" -> 1
      [] type = "ONGOING"     -> 2
      [] type = "CONTACTOR"   -> 3

Off == [on |-> FALSE, left |-> 0]

Running(d) == [on |-> TRUE, left |-> d]

Deadlines == [on : BOOLEAN, left : Int]

NoTimeouts == [type \in TimeoutTypes |-> Off]

\* A timeout that is already running keeps its old deadline.
start_timeout(t, type, d) ==
    IF t[type].on THEN t ELSE [t EXCEPT ![type] = Running(d)]

\* Mutant: the test whether the timeout is running is inverted.
stop_timeout_inverted(t, type) ==
    IF t[type].on THEN t ELSE [t EXCEPT ![type] = Off]

stop_timeout(t, type) == [t EXCEPT ![type] = Off]

reset_timeout(t, type) == [t EXCEPT ![type] = Off]

IsReached(d) == d.on /\ d.left <= 0

(***************************************************************************)
(* What check() returns.  The reached timeouts are collected in a map      *)
(* keyed by their deadline, and insert() does not replace: of two equal    *)
(* deadlines only the one with the lower index is reported.                *)
(***************************************************************************)
check(t) ==
    {x \in TimeoutTypes :
        /\ IsReached(t[x])
        /\ \A y \in TimeoutTypes :
              IsReached(t[y]) /\ t[y].left = t[x].left => Index(x) <= Index(y)}

\* The map is iterated in the order of its keys: the earliest deadline first.
Earliest(t, types) ==
    CHOOSE x \in types : \A y \in types : t[x].left <= t[y].left

\* One unit of time passes for a deadline.
Elapse(d) ==
    IF d.on /\ d.left > -MaxLag THEN [d EXCEPT !.left = @ - 1] ELSE d

ElapseAll(t) == [type \in TimeoutTypes |-> Elapse(t[type])]

=============================================================================
