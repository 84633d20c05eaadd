---------------------------- MODULE UnitCalendar ----------------------------
(***************************************************************************)
(* What the reservation code promises about one unit: its nights are       *)
(* claimed by at most one booking or block at a time, a claim is taken     *)
(* whole or not at all, and it is given back whole.  Reservations          *)
(* implements this.                                                        *)
(***************************************************************************)
EXTENDS Integers

CONSTANTS Claims,   \* the bookings and blocks that may ever claim nights
          Nights    \* the unit's nights

VARIABLE held       \* held[c]: the nights claim c owns

Init == held = [c \in Claims |-> {}]

\* A claim takes a run of nights that nobody owns.
Take(c, ns) ==
  /\ held[c] = {}
  /\ ns # {}
  /\ \A m, n \in ns : \A x \in Nights : m < x /\ x < n => x \in ns
  /\ \A d \in Claims : held[d] \cap ns = {}
  /\ held' = [held EXCEPT ![c] = ns]

\* Claims end: cancelled, expired (several holds in one sweep), deleted, or
\* deleted with the unit.
Release(cs) == held' = [c \in Claims |-> IF c \in cs THEN {} ELSE held[c]]

Next ==
  \/ \E c \in Claims : \E ns \in SUBSET Nights : Take(c, ns)
  \/ \E cs \in SUBSET Claims : Release(cs)

Spec == Init /\ [][Next]_held
=============================================================================
