--------------------------- MODULE MCStayPlanner ----------------------------
(* Small instances of StayPlanner for TLC. *)
EXTENDS StayPlanner

\* Three dates, one a month, so that the calendar has to page.
ThreeDates == 0 .. 2
=============================================================================
