--------------------------- MODULE MCPaymentPages ---------------------------
(* Small instances of PaymentPages for TLC. *)
EXTENDS PaymentPages

CONSTANTS b1, p1, p2

OneBooking == {b1}
NoManual == {}
NoPayments == {}

\* Amounts below and at the deposit.
HalfOrFull == {1, 2}
=============================================================================
