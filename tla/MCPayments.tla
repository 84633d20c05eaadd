----------------------------- MODULE MCPayments -----------------------------
(* Small instances of Payments for TLC. *)
EXTENDS Payments

CONSTANTS b1, b2, p1, p2, p3, h1, h2

TwoBookings == {b1, b2}
NoManual == {}
TwoPayments == {p1, p2}
ThreePayments == {p1, p2, p3}
TwoHandlers == {h1, h2}

\* Half the deposit, so that it takes two of them to confirm.
HalfOnly == {1}
=============================================================================
