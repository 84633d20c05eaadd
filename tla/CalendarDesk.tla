---------------------------- MODULE CalendarDesk ----------------------------
(***************************************************************************)
(* The dashboard's calendar in one admin's browser: the units timeline,    *)
(* where nights are blocked and given back (timeline-grid.tsx), and the    *)
(* form for a booking by phone (manual-booking-form.tsx), which the        *)
(* timeline opens with its selection.  Guests and other admins take and    *)
(* give back nights at the API meanwhile.                                  *)
(***************************************************************************)
EXTENDS StayCalendar, Sequences

CONSTANTS Units, NoUnit, Blocks, NoBlock,
          Dates, Today,
          Window,    \* nights on show: DAYS, or 7 on phones
          Week,      \* the days an arrow moves by
          MaxAsked,  \* bound: takenNights calls that wait at a time
          MaxBooked  \* bound: units others book a night of while none is booked

ASSUME DeskAssumption ==
  /\ NoUnit \notin Units /\ NoBlock \notin Blocks
  /\ Dates \subseteq Int /\ Today \in Dates
  /\ \A a, b \in Dates : a .. b \subseteq Dates
  /\ Window \in Nat \ {0} /\ Week \in Nat \ {0} /\ MaxAsked \in Nat \ {0} /\ MaxBooked \in Nat

VARIABLES page,     \* "timeline", "new" (the form), "booking", or "error"
          from,     \* first night on show
          data,     \* what the API last gave the timeline: units and blocks
          start,    \* the first day clicked
          pending,  \* the nights the block dialog is about
          open,     \* the block the other dialog is about
          busy,     \* the dialog's or the form's action has not answered
          call,     \* that action, which outlives its page
          unitId, range, taken,  \* the form
          loading,  \* loadingTaken
          asked,    \* units of the takenNights calls that have not answered, oldest
                    \* first; NoUnit when nobody listens any more
          units, blocks, gone, booked  \* the API: units not archived, blocks made, those
                                       \* removed since, booked nights

timeline == << from, data, start, pending, open >>
form == << unitId, range, taken, loading, asked >>
apivars == << units, blocks, gone, booked >>
deskvars == << page, timeline, busy, call, form, apivars >>

\* Stays and blocks, as ranges of nights.
Edges == Dates \cup { d + 1 : d \in Dates }
Spans == { s \in [from : Dates, to : Edges] : s.from < s.to }
NoSpan == [from |-> NoDate, to |-> NoDate]
Block == [unit : Units, span : Spans]
Selected == [unit : Units, span : Spans]
Nobody == [unit |-> NoUnit, span |-> NoSpan]
NoStart == [unit |-> NoUnit, day |-> NoDate]
NoCall == [kind |-> "none"]

NoData == [units |-> {}, blocks |-> {}]

DeskTypeOK ==
  /\ page \in { "timeline", "new", "booking", "error" }
  /\ from \in Int
  /\ data \in [units : SUBSET Units, blocks : SUBSET Blocks]
  /\ start \in [unit : Units, day : Dates] \cup {NoStart}
  /\ pending \in Selected \cup {Nobody}
  /\ open \in Blocks \cup {NoBlock}
  /\ busy \in BOOLEAN /\ loading \in BOOLEAN
  /\ unitId \in Units \cup {NoUnit}
  /\ range \in Ranges(Edges)
  /\ taken.unit \in Units \cup {NoUnit} /\ taken.spans \subseteq Spans
  /\ asked \in Seq(Units \cup {NoUnit})
  /\ units \subseteq Units /\ gone \subseteq Blocks
  /\ blocks \in [Blocks -> Block \cup {Nobody}]
  /\ booked \in [Units -> SUBSET Dates]

-----------------------------------------------------------------------------
(* The API.                                                                *)
BlocksOf(u) == { k \in Blocks \ gone : blocks[k].unit = u }
BlockedNights(u) == UNION { Covers(blocks[k].span) : k \in BlocksOf(u) }
FreeOf(u, span) == Covers(span) \cap (booked[u] \cup BlockedNights(u)) = {}

\* GET /units/{id}/taken: booked and blocked nights, as ranges.
takenNights(u) == { [from |-> d, to |-> d + 1] : d \in booked[u] }
                    \cup { blocks[k].span : k \in BlocksOf(u) }

NoneTaken == [unit |-> NoUnit, spans |-> {}]

LeaveForm ==
  /\ unitId' = NoUnit /\ range' = NoRange /\ taken' = NoneTaken
  /\ loading' = FALSE /\ asked' = << >>

\* A page left behind forgets its state.
LeaveTimeline ==
  /\ from' = Today - 1 /\ data' = NoData
  /\ start' = NoStart /\ pending' = Nobody /\ open' = NoBlock

Timeline == [units |-> units, blocks |-> { k \in Blocks \ gone : blocks[k] # Nobody }]

-----------------------------------------------------------------------------
(* The timeline.                                                           *)
NoModal == pending = Nobody /\ open = NoBlock
Days == dayRange(from, Window)

\* The hint names the unit of the first click: the page fails when a refresh
\* no longer lists it.
ShowTimeline(next) ==
  /\ data' = next
  /\ page' = IF start.unit # NoUnit /\ start.unit \notin next.units /\ next.units # {}
             THEN "error" ELSE "timeline"

\* The page on a first visit; a week's arrow keeps the component and its state.
VisitTimeline ==
  /\ page \in { "booking", "new", "error" }
  /\ page' = "timeline"
  /\ from' = Today - 1
  /\ data' = Timeline
  /\ start' = NoStart /\ pending' = Nobody /\ open' = NoBlock
  /\ LeaveForm
  /\ busy' = FALSE
  /\ UNCHANGED << call, apivars >>

Turn(day) ==
  /\ page = "timeline" /\ NoModal
  /\ day \in { from - Week, Today - 1, from + Week } \cap Dates
  /\ from' = day
  /\ ShowTimeline(Timeline)
  /\ UNCHANGED << start, pending, open, busy, call, form, apivars >>

\* A row's days on show, of which those gone by have no button.
Clickable(u) == IF u \in data.units THEN { d \in Days \cap Dates : d >= Today } ELSE {}

\* The second click on the same row makes a selection, a click elsewhere
\* starts over.
clickDay(u, d) ==
  /\ page = "timeline" /\ NoModal
  /\ d \in Clickable(u)
  /\ IF start.unit # u
     THEN /\ start' = [unit |-> u, day |-> d]
          /\ UNCHANGED pending
     ELSE /\ start' = NoStart
          /\ pending' = [unit |-> u, span |-> selection(start.day, d)]
  /\ UNCHANGED << page, from, data, open, busy, call, form, apivars >>

Escape ==
  /\ page = "timeline" /\ start # NoStart
  /\ start' = NoStart
  /\ UNCHANGED << page, from, data, pending, open, busy, call, form, apivars >>

\* A booking's bar is a link to its page.
openBooking(u) ==
  /\ page = "timeline" /\ NoModal
  /\ u \in data.units
  /\ \E d \in booked[u] : place([from |-> d, to |-> d + 1], from, Window) # {}
  /\ page' = "booking"
  /\ LeaveTimeline
  /\ UNCHANGED << busy, call, form, apivars >>

openBlock(k) ==
  /\ page = "timeline" /\ NoModal
  /\ k \in data.blocks /\ blocks[k].unit \in data.units
  /\ place(blocks[k].span, from, Window) # {}
  /\ open' = k
  /\ UNCHANGED << page, from, data, start, pending, busy, call, form, apivars >>

closeAll ==
  /\ page = "timeline" /\ ~NoModal /\ ~busy
  /\ pending' = Nobody /\ open' = NoBlock
  /\ UNCHANGED << page, from, data, start, busy, call, form, apivars >>

saveBlock ==
  /\ page = "timeline" /\ pending # Nobody /\ ~busy /\ call = NoCall
  /\ busy' = TRUE
  /\ call' = [kind |-> "block", unit |-> pending.unit, span |-> pending.span]
  /\ UNCHANGED << page, timeline, form, apivars >>

unblock ==
  /\ page = "timeline" /\ open # NoBlock /\ ~busy /\ call = NoCall
  /\ busy' = TRUE
  /\ call' = [kind |-> "unblock", block |-> open]
  /\ UNCHANGED << page, timeline, form, apivars >>

\* The answer of either, and of a page that is gone: on success a toast, the
\* dialogs close and the refreshed page has new data.  Of unblock's errors
\* not_found is a success too.
Mine == page = "timeline" /\ busy
Finish ==
  /\ IF Mine
     THEN /\ pending' = Nobody /\ open' = NoBlock /\ busy' = FALSE
          /\ ShowTimeline(Timeline')
     ELSE UNCHANGED << pending, open, busy, page, data >>
  /\ call' = NoCall
  /\ UNCHANGED << from, start, form >>

Blocked(k) ==
  /\ call.kind = "block" /\ blocks[k] = Nobody
  /\ FreeOf(call.unit, call.span) /\ call.unit \in units
  /\ blocks' = [blocks EXCEPT ![k] = [unit |-> call.unit, span |-> call.span]]
  /\ UNCHANGED << units, gone, booked >>

createBlock(k) ==
  /\ Blocked(k)
  /\ Finish

\* DELETE of a block, or of one that is gone already.
deleteBlock_AnyError ==
  /\ call.kind = "unblock"
  /\ gone' \in { gone, gone \cup {call.block} }
  /\ UNCHANGED << units, blocks, booked >>
  /\ Finish

Unblocked ==
  /\ gone' = gone \cup {call.block}
  /\ UNCHANGED << units, blocks, booked >>

deleteBlock ==
  /\ call.kind = "unblock"
  /\ Unblocked
  /\ Finish

\* Refused or failed, or an answer that was lost after the API had acted: the
\* dialog shows an error and stays.
CallFails ==
  /\ call.kind \in { "block", "unblock" }
  /\ \/ UNCHANGED apivars
     \/ \E k \in Blocks : Blocked(k)
     \/ call.kind = "unblock" /\ Unblocked
  /\ busy' = (busy /\ ~Mine)
  /\ call' = NoCall
  /\ UNCHANGED << page, timeline, form >>

-----------------------------------------------------------------------------
(* The form.                                                               *)

\* The effect of a new unitId: earlier calls are dead, and a unit's nights are
\* asked for.
Dead(calls) == [i \in DOMAIN calls |-> NoUnit]

LoadTaken_NoCleanup(u) ==
  IF u = NoUnit
  THEN taken' = NoneTaken /\ loading' = loading /\ asked' = asked
  ELSE /\ asked' = Append(asked, u)
       /\ loading' = TRUE
       /\ UNCHANGED taken

LoadTaken(u) ==
  IF u = NoUnit
  THEN taken' = NoneTaken /\ loading' = loading /\ asked' = Dead(asked)
  ELSE /\ asked' = Append(Dead(asked), u)
       /\ loading' = TRUE
       /\ UNCHANGED taken

\* "Book instead", which works while the block is being saved as well: the
\* page changes, what was sent is not called back.
bookInstead ==
  /\ page = "timeline" /\ pending # Nobody
  /\ page' = "new"
  /\ unitId' = IF pending.unit \in units THEN pending.unit ELSE NoUnit
  /\ range' = [checkIn |-> pending.span.from, checkOut |-> pending.span.to]
  /\ LeaveTimeline
  /\ busy' = FALSE
  /\ LoadTaken(unitId')
  /\ UNCHANGED << call, apivars >>

chooseUnit(u) ==
  /\ page = "new"
  /\ u # unitId /\ u \in units \cup {NoUnit} /\ Len(asked) < MaxAsked
  /\ unitId' = u
  /\ LoadTaken(u)
  /\ UNCHANGED << page, timeline, busy, call, range, apivars >>

\* What is left of a selection once the closed nights are known.
StillFits(r, tk) ==
  IF ~Date(r.checkIn) THEN r
  ELSE IF r.checkIn < Today \/ isTaken(r.checkIn, tk) THEN NoRange
  ELSE IF Date(r.checkOut) /\ \E limit \in nextTaken(r.checkIn, tk) : limit < r.checkOut
       THEN From(r.checkIn) ELSE r

TakenArrives ==
  /\ asked # << >>
  /\ IF Head(asked) # NoUnit
     THEN /\ taken' = [unit |-> Head(asked), spans |-> takenNights(Head(asked))]
          /\ range' = StillFits(range, takenNights(Head(asked)))
          /\ loading' = FALSE
     ELSE UNCHANGED << taken, range, loading >>
  /\ asked' = Tail(asked)
  /\ UNCHANGED << page, timeline, busy, call, unitId, apivars >>

\* A failed load leaves every night open; the API still refuses.
TakenFails_StaysLocked ==
  /\ asked # << >>
  /\ taken' = IF Head(asked) # NoUnit THEN NoneTaken ELSE taken
  /\ asked' = Tail(asked)
  /\ UNCHANGED << page, timeline, busy, call, unitId, range, loading, apivars >>

TakenFails ==
  /\ asked # << >>
  /\ IF Head(asked) # NoUnit
     THEN taken' = NoneTaken /\ loading' = FALSE
     ELSE UNCHANGED << taken, loading >>
  /\ asked' = Tail(asked)
  /\ UNCHANGED << page, timeline, busy, call, unitId, range, apivars >>

\* StayPicker: a day that is not past and that the known nights allow, while
\* none are being loaded.
pick(d) ==
  /\ page = "new" /\ unitId # NoUnit /\ ~loading
  /\ d \in Edges /\ d >= Today /\ canPick(d, range, taken.spans)
  /\ range' = rangeSelect(range, d)
  /\ UNCHANGED << page, timeline, busy, call, unitId, taken, loading, asked, apivars >>

submit ==
  /\ page = "new" /\ ~busy /\ call = NoCall
  /\ unitId # NoUnit /\ Complete(range)
  /\ busy' = TRUE
  /\ call' = [kind |-> "book", unit |-> unitId,
              span |-> [from |-> range.checkIn, to |-> range.checkOut]]
  /\ UNCHANGED << page, timeline, form, apivars >>

\* On success the browser goes to the new booking, from whatever page the
\* admin has moved on to meanwhile.
createManualBooking ==
  /\ call.kind = "book"
  /\ FreeOf(call.unit, call.span) /\ call.unit \in units
  /\ booked' = [booked EXCEPT ![call.unit] = @ \cup Covers(call.span)]
  /\ page' = "booking"
  /\ busy' = FALSE /\ call' = NoCall
  /\ LeaveTimeline /\ LeaveForm
  /\ UNCHANGED << units, blocks, gone >>

\* Refused, or the answer is lost with the booking made: the form shows an
\* error and keeps what was typed.
BookingFails ==
  /\ call.kind = "book"
  /\ \/ UNCHANGED booked
     \/ /\ FreeOf(call.unit, call.span)
        /\ booked' = [booked EXCEPT ![call.unit] = @ \cup Covers(call.span)]
  /\ busy' = FALSE /\ call' = NoCall
  /\ UNCHANGED << page, timeline, form, units, blocks, gone >>

-----------------------------------------------------------------------------
(* Everyone else.                                                          *)
OthersBook(u, d) ==
  /\ Cardinality({ v \in Units : booked[v] # {} }) < MaxBooked
  /\ d >= Today /\ FreeOf(u, [from |-> d, to |-> d + 1])
  /\ booked' = [booked EXCEPT ![u] = @ \cup {d}]
  /\ UNCHANGED << page, timeline, busy, call, form, units, blocks, gone >>

OthersUnblock(k) ==
  /\ blocks[k] # Nobody /\ k \notin gone
  /\ gone' = gone \cup {k}
  /\ UNCHANGED << page, timeline, busy, call, form, units, blocks, booked >>

OthersArchive(u) ==
  /\ u \in units /\ units # {u}  \* bound: one stays
  /\ units' = units \ {u}
  /\ UNCHANGED << page, timeline, busy, call, form, blocks, gone, booked >>

DeskInit ==
  /\ units = Units /\ gone = {}
  /\ blocks = [k \in Blocks |-> Nobody]
  /\ booked = [u \in Units |-> {}]
  /\ page = "timeline" /\ from = Today - 1 /\ data = Timeline
  /\ start = NoStart /\ pending = Nobody /\ open = NoBlock
  /\ busy = FALSE /\ call = NoCall
  /\ unitId = NoUnit /\ range = NoRange /\ taken = NoneTaken
  /\ loading = FALSE /\ asked = << >>

TimelineStep ==
  \/ VisitTimeline \/ (\E d \in Dates : Turn(d))
  \/ \E u \in Units, d \in Dates : clickDay(u, d)
  \/ Escape \/ closeAll \/ saveBlock \/ unblock \/ bookInstead
  \/ \E u \in Units : openBooking(u)
  \/ \E k \in Blocks : openBlock(k) \/ createBlock(k)
  \/ deleteBlock \/ CallFails

FormStep ==
  \/ \E u \in Units \cup {NoUnit} : chooseUnit(u)
  \/ \E d \in Edges : pick(d)
  \/ TakenArrives \/ TakenFails \/ submit \/ createManualBooking \/ BookingFails

Others ==
  \/ \E u \in Units : OthersArchive(u) \/ \E d \in Dates : OthersBook(u, d)
  \/ \E k \in Blocks : OthersUnblock(k)

DeskNext == TimelineStep \/ FormStep \/ Others

DeskSpec == DeskInit /\ [][DeskNext]_deskvars

DeskFairSpec == DeskSpec /\ WF_deskvars(TakenArrives \/ TakenFails)

-----------------------------------------------------------------------------
(* Properties.                                                             *)

\* Whatever order units were chosen in and nights listed in, the form holds a
\* stay against the nights of the unit that is chosen, and a stay it holds
\* complete takes none of them; a selection the timeline or another unit
\* brought is dropped.
StayFitsTheUnit ==
  page = "new" /\ unitId # NoUnit /\ ~loading =>
    /\ taken.unit \in { unitId, NoUnit }
    /\ Complete(range) =>
         \A d \in NightsFrom(range) : ~isTaken(d, taken.spans)

\* The dialog on a block closes by itself, with a toast that says the nights
\* are free again, only when the block is gone, whoever removed it.
UnblockedIsGone ==
  [][busy /\ page = "timeline" /\ open # NoBlock /\ page' = "timeline" /\ open' = NoBlock
       => open \in gone']_deskvars

\* The picker does not stay locked on a unit: its nights arrive, or the load
\* fails, or another unit or page is chosen.  Calls for units chosen before may
\* answer in between.
LockedOn(u) == page = "new" /\ unitId = u /\ loading
PickerOpens == \A u \in Units : LockedOn(u) ~> ~LockedOn(u)
=============================================================================
