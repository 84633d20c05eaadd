-------------------------- MODULE MCPaymentLedger ---------------------------
(* A small instance of PaymentLedger for TLC. *)
EXTENDS PaymentLedger, TLC

CONSTANTS b1, p1, p2, p3

GuestBooking == {b1}
NoManual == {}
ThreePayments == {p1, p2, p3}

\* Amounts below and at the deposit.
HalfOrFull == {1, 2}

\* Payments' ids are interchangeable.
Symmetry == Permutations(Payments)
=============================================================================
