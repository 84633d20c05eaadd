--------------------------- MODULE MCCalendarDesk ---------------------------
(* Small instances of CalendarDesk for TLC. *)
EXTENDS CalendarDesk

CONSTANTS u1, u2, k1

TwoUnits == {u1, u2}
OneBlock == {k1}

\* Yesterday, today and tomorrow; a check-out may be the day after.
ThreeDates == 0 .. 2
=============================================================================
