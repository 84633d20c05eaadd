---------------------------- MODULE StayCalendar ----------------------------
(***************************************************************************)
(* The date arithmetic and the pickers' rules the web's calendars share:   *)
(* lib/public/calendar.ts, lib/admin/stay-picker.ts, lib/admin/timeline.ts.*)
(* A date is a day number, so that ISO strings' order is the order of the  *)
(* numbers; a month is a run of MonthLength of them, counted from 0.       *)
(***************************************************************************)
EXTENDS Integers, FiniteSets

CONSTANTS MonthLength, NoDate

ASSUME CalendarAssumption == MonthLength \in Nat \ {0} /\ NoDate \notin Int

Date(d) == d # NoDate

\* monthGrid: the dates of a month, one cell each.
monthGrid(m) == { m * MonthLength + i : i \in 0 .. MonthLength - 1 }

\* The two months on show, from monthStart of the first to monthEnd of the second.
Spread(m) == monthGrid(m) \cup monthGrid(m + 1)

-----------------------------------------------------------------------------
(* A range under selection: nothing, a check-in, or both.                  *)
Ranges(dates) == { r \in [checkIn : dates \cup {NoDate}, checkOut : dates \cup {NoDate}] :
                    Date(r.checkOut) => Date(r.checkIn) /\ r.checkIn < r.checkOut }

NoRange == [checkIn |-> NoDate, checkOut |-> NoDate]
From(d) == [checkIn |-> d, checkOut |-> NoDate]
Complete(r) == Date(r.checkIn) /\ Date(r.checkOut)
HalfOpen(r) == Date(r.checkIn) /\ ~Date(r.checkOut)

\* rangeSelect: the second, later pick is the check-out, the check-in again
\* clears, and anything else starts over.
rangeSelect_AnyOrder(r, d) ==
  CASE HalfOpen(r) /\ d = r.checkIn -> NoRange
    [] HalfOpen(r) /\ d # r.checkIn -> [r EXCEPT !.checkOut = d]
    [] OTHER                        -> From(d)

rangeSelect(r, d) ==
  CASE HalfOpen(r) /\ d = r.checkIn -> NoRange
    [] HalfOpen(r) /\ d > r.checkIn -> [r EXCEPT !.checkOut = d]
    [] OTHER                        -> From(d)

-----------------------------------------------------------------------------
(* The admin's picker, which knows a unit's taken nights as a set of       *)
(* half-open ranges: bookings with their turnover days, and blocks.        *)
isTaken(d, taken) == \E t \in taken : t.from <= d /\ d < t.to

\* nextTaken: the first taken night of each range that has one at or after d;
\* the loop keeps the earliest of them.
nextTaken(d, taken) == { IF t.from > d THEN t.from ELSE d : t \in { u \in taken : u.to > d } }

\* canPick: a check-in needs a free night; a check-out may fall on the next
\* taken night, and no later.
canPick(d, r, taken) ==
  IF HalfOpen(r) /\ d > r.checkIn
  THEN \A limit \in nextTaken(r.checkIn, taken) : d <= limit
  ELSE ~isTaken(d, taken)

\* The nights of a stay, and of a taken range.
NightsFrom(r) == r.checkIn .. (r.checkOut - 1)
Covers(t) == t.from .. (t.to - 1)

-----------------------------------------------------------------------------
(* The timeline's bars: selection of nights from one cell to another, and  *)
(* the columns a stay takes in the window [start, start + length).         *)
selection(a, b) ==
  LET lo == IF a <= b THEN a ELSE b
      hi == IF a <= b THEN b ELSE a
  IN [from |-> lo, to |-> hi + 1]

dayRange(start, length) == start .. (start + length - 1)

place(t, start, length) ==
  LET first == IF t.from < start THEN start ELSE t.from
      end == IF t.to > start + length THEN start + length ELSE t.to
  IN IF t.to <= start \/ t.from >= start + length THEN {} ELSE first .. (end - 1)
=============================================================================
