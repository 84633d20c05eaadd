--------------------------- MODULE MCReservations ---------------------------
(* Small instances of Reservations for TLC. *)
EXTENDS Reservations

CONSTANTS g1, g2, m1, k1, k2

Guest == {g1}
TwoGuests == {g1, g2}
Manual == {m1}
Block1 == {k1}
TwoBlocks == {k1, k2}
NoOne == {}

ThreeNights == 1 .. 4
TwoNights == 1 .. 3
ZeroOrOne == {0, 1}
OneNight == {1}
=============================================================================
