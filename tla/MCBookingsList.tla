--------------------------- MODULE MCBookingsList ---------------------------
(* Small instances of BookingsList for TLC. *)
EXTENDS BookingsList

CONSTANTS waiting, confirmed

TwoStates == {waiting, confirmed}
ThreeRefs == 1 .. 3
TwoDays == 1 .. 2

\* One booking more than a page has rows; the last two begin on one day.
ThreeStays == [b \in ThreeRefs |-> IF b = 1 THEN [from |-> 2, to |-> 3] ELSE [from |-> 1, to |-> b]]
=============================================================================
