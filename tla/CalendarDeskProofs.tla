------------------------- MODULE CalendarDeskProofs -------------------------
(***************************************************************************)
(* The admin's timeline and booking form, for any units, blocks and dates: *)
(* a stay in the form fits the unit that is chosen, and a dialog on a      *)
(* block closes by itself only when the block is gone.                     *)
(***************************************************************************)
EXTENDS CalendarDesk, TLAPS

-----------------------------------------------------------------------------
(* The inductive invariant, part by part.                                  *)

\* The API's rows.
ApiOK ==
  /\ units \subseteq Units /\ gone \subseteq Blocks
  /\ blocks \in [Blocks -> Block \cup {Nobody}]
  /\ booked \in [Units -> SUBSET Dates]

\* The timeline: of its two dialogs one is open.
TimelineOK ==
  /\ from \in Int
  /\ data \in [units : SUBSET Units, blocks : SUBSET Blocks]
  /\ start \in [unit : Units, day : Dates] \cup {NoStart}
  /\ pending \in Selected \cup {Nobody}
  /\ open \in Blocks \cup {NoBlock}
  /\ pending = Nobody \/ open = NoBlock

\* A stay that is held complete against nights takes none of them.
Fits(r, spans) == Complete(r) => \A d \in NightsFrom(r) : ~isTaken(d, spans)

\* The form: of the calls for taken nights only the last, for the unit that is
\* chosen, may still be listened to, and the picker is locked for it.
FormOK ==
  /\ unitId \in Units \cup {NoUnit} /\ loading \in BOOLEAN
  /\ range \in Ranges(Edges)
  /\ taken.unit \in Units \cup {NoUnit} /\ taken.spans \subseteq Spans
  /\ asked \in Seq(Units \cup {NoUnit})
  /\ \A i \in DOMAIN asked : asked[i] # NoUnit => i = Len(asked) /\ asked[i] = unitId /\ loading
  /\ unitId # NoUnit /\ ~loading => taken.unit \in { unitId, NoUnit } /\ Fits(range, taken.spans)

StaySpans == { s \in [from : Edges, to : Edges] : s.from < s.to }

\* What a request asks for, and which dialog or form waits for it.
CallOK ==
  call \in {NoCall} \cup [kind : {"block"}, unit : Units, span : Spans]
             \cup [kind : {"unblock"}, block : Blocks]
             \cup [kind : {"book"}, unit : Units, span : StaySpans]

BusyWithItsOwn ==
  /\ page \in { "timeline", "new", "booking", "error" } /\ busy \in BOOLEAN
  /\ busy => page \in { "timeline", "new" }
  /\ busy /\ page = "timeline" => \/ call.kind = "block" /\ pending # Nobody
                                  \/ call.kind = "unblock" /\ open # NoBlock /\ call.block = open
  /\ busy /\ page = "new" => call.kind = "book"

DeskInv == ApiOK /\ TimelineOK /\ FormOK /\ CallOK /\ BusyWithItsOwn

\* It says what the properties say, and each variable's type.
LEMMA DeskInvIsEnough == DeskInv => DeskTypeOK /\ StayFitsTheUnit
  BY DEF DeskInv, ApiOK, TimelineOK, FormOK, BusyWithItsOwn, DeskTypeOK, StayFitsTheUnit, Fits

-----------------------------------------------------------------------------
(* Nights and spans.                                                       *)

\* Between the first and the last night of a span there are only dates.
LEMMA SpansAreNights ==
  /\ Dates \subseteq Int /\ Edges \subseteq Int /\ NoDate \notin Edges /\ Dates \subseteq Edges
  /\ Spans \subseteq StaySpans
  /\ \A s \in StaySpans : Covers(s) \subseteq Dates
  <1>a. Dates \subseteq Int
    BY DeskAssumption
  <1>b. Edges \subseteq Int /\ Dates \subseteq Edges
    <2>1. \A d \in Dates : d + 1 \in Int
      BY <1>a
    <2>2. { d + 1 : d \in Dates } \subseteq Int
      BY <2>1
    <2> QED BY <1>a, <2>2 DEF Edges
  <1>c. NoDate \notin Edges
    BY <1>b, CalendarAssumption
  <1>1. /\ Dates \subseteq Int /\ Edges \subseteq Int /\ NoDate \notin Edges /\ Dates \subseteq Edges
    BY <1>a, <1>b, <1>c
  <1>2. Spans \subseteq StaySpans
    BY <1>1 DEF Spans, StaySpans
  <1>3. ASSUME NEW s \in StaySpans PROVE Covers(s) \subseteq Dates
    <2>1. s.from \in Edges /\ s.to \in Edges /\ s.from < s.to
      BY DEF StaySpans
    <2>2. PICK a \in Dates : s.from = a \/ s.from = a + 1
      BY <2>1 DEF Edges
    <2>3. PICK b \in Dates : s.to = b \/ s.to = b + 1
      BY <2>1 DEF Edges
    <2>4. a \in Int /\ b \in Int /\ a .. b \subseteq Dates
      BY <1>1, DeskAssumption
    <2>5. s.from .. (s.to - 1) \subseteq a .. b
      BY <2>1, <2>2, <2>3, <2>4
    <2> QED BY <2>4, <2>5 DEF Covers
  <1> QED BY <1>1, <1>2, <1>3

\* What GET /units/{id}/taken answers is made of spans.
LEMMA TakenAreSpans ==
  ASSUME ApiOK, NEW u \in Units
  PROVE  takenNights(u) \subseteq Spans
  <1>1. ASSUME NEW d \in booked[u] PROVE [from |-> d, to |-> d + 1] \in Spans
    <2>1. d \in Dates /\ d \in Int
      BY SpansAreNights DEF ApiOK
    <2> QED BY <2>1 DEF Spans, Edges
  <1>2. ASSUME NEW k \in BlocksOf(u) PROVE blocks[k].span \in Spans
    <2>1. k \in Blocks /\ blocks[k].unit = u
      BY DEF BlocksOf
    <2>2. blocks[k] \in Block
      BY <2>1, DeskAssumption DEF ApiOK, Nobody
    <2> QED BY <2>2 DEF Block
  <1> QED BY <1>1, <1>2 DEF takenNights

\* Up to the next taken night no night is taken.
LEMMA FreeUpToTheLimit ==
  ASSUME NEW spans \in SUBSET Spans, NEW a \in Int, NEW b \in Int,
         \A limit \in nextTaken(a, spans) : b <= limit
  PROVE  \A d \in a .. (b - 1) : ~isTaken(d, spans)
  <1> SUFFICES ASSUME NEW d \in a .. (b - 1), NEW t \in spans, t.from <= d, d < t.to
               PROVE  FALSE
    BY DEF isTaken
  <1>a. t.from \in Dates /\ t.to \in Edges
    <2>1. t \in Spans
      OBVIOUS
    <2> QED BY <2>1 DEF Spans
  <1>1. t.from \in Int /\ t.to \in Int /\ d \in Int /\ a <= d /\ d <= b - 1
    <2>1. Dates \subseteq Int /\ Edges \subseteq Int
      BY SpansAreNights
    <2>2. t.from \in Int /\ t.to \in Int
      BY <1>a, <2>1
    <2>3. d \in Int /\ a <= d /\ d <= b - 1
      OBVIOUS
    <2> QED BY <2>2, <2>3
  <1>2. t.to > a
    BY <1>1
  <1>3. (IF t.from > a THEN t.from ELSE a) \in nextTaken(a, spans)
    BY <1>2 DEF nextTaken
  <1>4. b <= (IF t.from > a THEN t.from ELSE a)
    BY <1>3
  <1> QED BY <1>1, <1>4

\* What is left of a selection fits.
LEMMA StillFitsFits ==
  ASSUME NEW r \in Ranges(Edges), NEW spans \in SUBSET Spans
  PROVE  StillFits(r, spans) \in Ranges(Edges) /\ Fits(StillFits(r, spans), spans)
  <1>1. /\ r.checkIn \in Edges \cup {NoDate} /\ r.checkOut \in Edges \cup {NoDate}
        /\ Date(r.checkOut) => Date(r.checkIn) /\ r.checkIn < r.checkOut
    BY DEF Ranges
  <1>2. NoRange \in Ranges(Edges) /\ ~Complete(NoRange)
    BY CalendarAssumption DEF NoRange, Ranges, Complete, Date
  <1>3. Date(r.checkIn) => From(r.checkIn) \in Ranges(Edges) /\ ~Complete(From(r.checkIn))
    BY <1>1 DEF From, Ranges, Complete, Date
  <1>4. CASE StillFits(r, spans) \in { NoRange, From(r.checkIn) } /\ Date(r.checkIn)
    BY <1>2, <1>3, <1>4 DEF Fits
  <1>5. CASE ~Date(r.checkIn)
    BY <1>5 DEF StillFits, Fits, Complete
  <1>6. CASE /\ Date(r.checkIn) /\ StillFits(r, spans) = r
             /\ ~(Date(r.checkOut) /\ \E limit \in nextTaken(r.checkIn, spans) : limit < r.checkOut)
    <2> SUFFICES ASSUME Complete(r) PROVE \A d \in NightsFrom(r) : ~isTaken(d, spans)
      BY <1>6 DEF Fits
    <2>1. r.checkIn \in Int /\ r.checkOut \in Int
      BY <1>1, SpansAreNights DEF Complete, Date
    <2>2. \A limit \in nextTaken(r.checkIn, spans) : limit \in Int
      BY <2>1, SpansAreNights DEF nextTaken, Spans
    <2>3. \A limit \in nextTaken(r.checkIn, spans) : r.checkOut <= limit
      BY <1>6, <2>1, <2>2 DEF Complete
    <2> QED BY <2>1, <2>3, FreeUpToTheLimit DEF NightsFrom
  <1> QED BY <1>4, <1>5, <1>6 DEF StillFits

\* The picker only makes stays that fit.
LEMMA PickedFits ==
  ASSUME NEW r \in Ranges(Edges), NEW spans \in SUBSET Spans, NEW d \in Edges, canPick(d, r, spans)
  PROVE  rangeSelect(r, d) \in Ranges(Edges) /\ Fits(rangeSelect(r, d), spans)
  <1>1. /\ r.checkIn \in Edges \cup {NoDate} /\ r.checkOut \in Edges \cup {NoDate}
        /\ Date(d) /\ d \in Int
    BY SpansAreNights DEF Ranges, Date
  <1>2. /\ NoRange \in Ranges(Edges) /\ ~Complete(NoRange)
        /\ From(d) \in Ranges(Edges) /\ ~Complete(From(d))
    BY <1>1 DEF NoRange, From, Ranges, Complete, Date
  <1>3. CASE HalfOpen(r) /\ d > r.checkIn
    <2>1. r.checkIn \in Int /\ r.checkIn \in Edges
      BY <1>1, <1>3, SpansAreNights DEF HalfOpen, Date
    <2>2. rangeSelect(r, d) = [r EXCEPT !.checkOut = d]
      BY <1>1, <1>3, <2>1 DEF rangeSelect
    <2>4. /\ rangeSelect(r, d) \in [checkIn : Edges \cup {NoDate}, checkOut : Edges \cup {NoDate}]
          /\ rangeSelect(r, d).checkIn = r.checkIn /\ rangeSelect(r, d).checkOut = d
      BY <2>2 DEF Ranges
    <2>3. rangeSelect(r, d) \in Ranges(Edges)
      BY <1>1, <1>3, <2>1, <2>4, CalendarAssumption DEF Ranges, Date
    <2>5. \A n \in r.checkIn .. (d - 1) : ~isTaken(n, spans)
      BY <1>1, <1>3, <2>1, FreeUpToTheLimit DEF canPick
    <2> QED BY <2>3, <2>4, <2>5 DEF Fits, NightsFrom
  <1>4. CASE ~(HalfOpen(r) /\ d > r.checkIn)
    <2>1. rangeSelect(r, d) \in { NoRange, From(d) }
      BY <1>4 DEF rangeSelect
    <2> QED BY <1>2, <2>1 DEF Fits
  <1> QED BY <1>3, <1>4

-----------------------------------------------------------------------------
(* The calls for taken nights.                                             *)

\* Of dead calls nobody listens to any.
LEMMA DeadCalls ==
  ASSUME NEW S, NEW cs \in Seq(S)
  PROVE  /\ Dead(cs) \in Seq(Units \cup {NoUnit})
         /\ \A i \in DOMAIN Dead(cs) : Dead(cs)[i] = NoUnit
  BY DEF Dead

\* The form when a unit is chosen: it asks for its nights, and for no others.
LEMMA LoadedForm ==
  ASSUME NEW u \in Units \cup {NoUnit}, unitId' = u, LoadTaken(u),
         asked \in Seq(Units \cup {NoUnit}), loading \in BOOLEAN,
         taken.unit \in Units \cup {NoUnit}, taken.spans \subseteq Spans,
         range' \in Ranges(Edges)
  PROVE  FormOK'
  <1>1. CASE u = NoUnit
    <2>1. taken' = NoneTaken /\ loading' = loading /\ asked' = Dead(asked)
      BY <1>1 DEF LoadTaken
    <2> QED BY <1>1, <2>1, DeadCalls DEF FormOK, NoneTaken
  <1>2. CASE u # NoUnit
    <2> DEFINE cs == Dead(asked)
    <2>1. /\ taken' = taken /\ loading' = TRUE /\ asked' = Append(cs, u)
      BY <1>2 DEF LoadTaken
    <2>2. cs \in Seq(Units \cup {NoUnit}) /\ \A i \in DOMAIN cs : cs[i] = NoUnit
      BY DeadCalls
    <2> HIDE DEF cs
    <2>3. /\ asked' \in Seq(Units \cup {NoUnit})
          /\ \A i \in DOMAIN asked' : asked'[i] # NoUnit => i = Len(asked') /\ asked'[i] = u
      BY <2>1, <2>2
    <2> QED BY <1>2, <2>1, <2>3 DEF FormOK
  <1> QED BY <1>1, <1>2

\* A form that is left.
LEMMA LeftForm == LeaveForm => FormOK'
  <1> SUFFICES ASSUME LeaveForm PROVE FormOK'
    OBVIOUS
  <1>1. range' \in Ranges(Edges)
    BY DEF LeaveForm, NoRange, Ranges, Date
  <1>2. asked' = << >> /\ asked' \in Seq(Units \cup {NoUnit}) /\ DOMAIN asked' = {}
    BY DEF LeaveForm
  <1> QED BY <1>1, <1>2 DEF LeaveForm, FormOK, NoneTaken

-----------------------------------------------------------------------------
(* Steps.                                                                  *)

\* A timeline that is left, or visited anew.
LEMMA LeftTimeline ==
  ASSUME ApiOK
  PROVE  /\ LeaveTimeline => TimelineOK'
         /\ Timeline \in [units : SUBSET Units, blocks : SUBSET Blocks]
         /\ Today - 1 \in Int
  <1>1. Timeline \in [units : SUBSET Units, blocks : SUBSET Blocks]
    BY DEF ApiOK, Timeline
  <1>2. Today - 1 \in Int
    BY DeskAssumption
  <1> QED BY <1>1, <1>2 DEF LeaveTimeline, TimelineOK, NoData

LEMMA DeskInit_Inv == DeskInit => DeskInv
  <1> SUFFICES ASSUME DeskInit PROVE DeskInv
    OBVIOUS
  <1>1. ApiOK
    BY DEF DeskInit, ApiOK
  <1>2. TimelineOK
    BY <1>1, LeftTimeline DEF DeskInit, TimelineOK
  <1>3. FormOK
    <2>1. range \in Ranges(Edges)
      BY DEF DeskInit, NoRange, Ranges, Date
    <2>2. asked \in Seq(Units \cup {NoUnit}) /\ DOMAIN asked = {}
      BY DEF DeskInit
    <2> QED BY <2>1, <2>2 DEF DeskInit, FormOK, NoneTaken
  <1>4. CallOK /\ BusyWithItsOwn
    BY DEF DeskInit, CallOK, BusyWithItsOwn
  <1> QED BY <1>1, <1>2, <1>3, <1>4 DEF DeskInv

\* The parts that a step leaves alone.
LEMMA PartsStand ==
  ASSUME DeskInv
  PROVE  /\ UNCHANGED apivars => ApiOK'
         /\ UNCHANGED timeline => TimelineOK'
         /\ UNCHANGED form => FormOK'
         /\ UNCHANGED call => CallOK'
         /\ UNCHANGED << page, busy, call, pending, open >> => BusyWithItsOwn'
  <1>1. UNCHANGED apivars => ApiOK'
    BY DEF DeskInv, apivars, ApiOK
  <1>2. UNCHANGED timeline => TimelineOK'
    BY DEF DeskInv, timeline, TimelineOK
  <1>3. UNCHANGED form => FormOK'
    BY DEF DeskInv, form, FormOK, Fits
  <1>4. UNCHANGED call => CallOK'
    BY DEF DeskInv, CallOK
  <1>5. UNCHANGED << page, busy, call, pending, open >> => BusyWithItsOwn'
    BY DEF DeskInv, BusyWithItsOwn
  <1> QED BY <1>1, <1>2, <1>3, <1>4, <1>5

\* Without a dialog the timeline waits for nothing.
LEMMA NoModalIsIdle ==
  ASSUME DeskInv, page = "timeline", NoModal
  PROVE  busy = FALSE
  BY DEF DeskInv, BusyWithItsOwn, NoModal

\* What the admin does on the timeline.
LEMMA TimelineClick ==
  ASSUME DeskInv,
         \/ VisitTimeline \/ (\E d \in Dates : Turn(d))
         \/ \E u \in Units, d \in Dates : clickDay(u, d)
         \/ Escape \/ closeAll \/ saveBlock \/ unblock
         \/ \E u \in Units : openBooking(u)
         \/ \E k \in Blocks : openBlock(k)
  PROVE  DeskInv'
  <1>p. /\ UNCHANGED apivars => ApiOK'
        /\ UNCHANGED timeline => TimelineOK'
        /\ UNCHANGED form => FormOK'
        /\ UNCHANGED call => CallOK'
        /\ UNCHANGED << page, busy, call, pending, open >> => BusyWithItsOwn'
    BY PartsStand
  <1>t. /\ LeaveTimeline => TimelineOK'
        /\ Timeline \in [units : SUBSET Units, blocks : SUBSET Blocks]
        /\ Today - 1 \in Int
    BY LeftTimeline DEF DeskInv
  <1>1. CASE VisitTimeline
    <2>1. /\ page' = "timeline" /\ from' = Today - 1 /\ data' = Timeline
          /\ start' = NoStart /\ pending' = Nobody /\ open' = NoBlock
          /\ LeaveForm /\ busy' = FALSE /\ UNCHANGED << call, apivars >>
      BY <1>1 DEF VisitTimeline
    <2>2. TimelineOK'
      BY <1>t, <2>1 DEF TimelineOK
    <2>3. FormOK'
      BY <2>1, LeftForm
    <2>4. BusyWithItsOwn'
      BY <2>1 DEF BusyWithItsOwn
    <2> QED BY <1>p, <2>1, <2>2, <2>3, <2>4 DEF DeskInv
  <1>2. ASSUME NEW d \in Dates, Turn(d) PROVE DeskInv'
    <2>1. /\ page = "timeline" /\ NoModal /\ page' \in { "timeline", "error" }
          /\ from' = d /\ data' = Timeline
          /\ UNCHANGED << start, pending, open, busy, call, form, apivars >>
      BY <1>2 DEF Turn, ShowTimeline
    <2>2. d \in Int
      BY DeskAssumption
    <2>3. TimelineOK'
      BY <1>t, <2>1, <2>2 DEF DeskInv, TimelineOK
    <2>4. busy = FALSE
      BY <2>1, NoModalIsIdle
    <2>5. BusyWithItsOwn'
      BY <2>1, <2>4 DEF BusyWithItsOwn
    <2> QED BY <1>p, <2>1, <2>3, <2>5 DEF DeskInv
  <1>3. ASSUME NEW u \in Units, NEW d \in Dates, clickDay(u, d) PROVE DeskInv'
    <2>1. /\ page = "timeline" /\ NoModal
          /\ UNCHANGED << page, from, data, open, busy, call, form, apivars >>
      BY <1>3 DEF clickDay
    <2>2. busy = FALSE /\ open = NoBlock
      BY <2>1, NoModalIsIdle DEF NoModal
    <2>3. start' \in [unit : Units, day : Dates] \cup {NoStart} /\ pending' \in Selected \cup {Nobody}
      <3>1. CASE start.unit # u
        BY <1>3, <3>1 DEF clickDay, DeskInv, TimelineOK
      <3>2. CASE start.unit = u
        <4>1. start.day \in Dates
          BY <3>2, DeskAssumption DEF DeskInv, TimelineOK, NoStart
        <4>2. start.day \in Int /\ d \in Int
          BY <4>1, DeskAssumption
        <4>3. start' = NoStart /\ pending' = [unit |-> u, span |-> selection(start.day, d)]
          BY <1>3, <3>2 DEF clickDay
        <4>4. selection(start.day, d) \in Spans
          BY <4>1, <4>2 DEF selection, Spans, Edges
        <4> QED BY <4>3, <4>4 DEF Selected
      <3> QED BY <3>1, <3>2
    <2>4. TimelineOK'
      BY <2>1, <2>2, <2>3 DEF DeskInv, TimelineOK
    <2>5. BusyWithItsOwn'
      BY <2>1, <2>2 DEF DeskInv, BusyWithItsOwn
    <2> QED BY <1>p, <2>1, <2>4, <2>5 DEF DeskInv
  <1>4. CASE Escape
    <2>1. start' = NoStart /\ UNCHANGED << page, from, data, pending, open, busy, call, form, apivars >>
      BY <1>4 DEF Escape
    <2>2. TimelineOK'
      BY <2>1 DEF DeskInv, TimelineOK
    <2> QED BY <1>p, <2>1, <2>2 DEF DeskInv
  <1>5. CASE closeAll
    <2>1. /\ ~busy /\ pending' = Nobody /\ open' = NoBlock
          /\ UNCHANGED << page, from, data, start, busy, call, form, apivars >>
      BY <1>5 DEF closeAll
    <2>2. TimelineOK'
      BY <2>1 DEF DeskInv, TimelineOK
    <2>3. BusyWithItsOwn'
      BY <2>1 DEF DeskInv, BusyWithItsOwn
    <2> QED BY <1>p, <2>1, <2>2, <2>3 DEF DeskInv
  <1>6. CASE saveBlock
    <2>1. /\ page = "timeline" /\ pending # Nobody /\ busy' = TRUE
          /\ call' = [kind |-> "block", unit |-> pending.unit, span |-> pending.span]
          /\ UNCHANGED << page, timeline, form, apivars >>
      BY <1>6 DEF saveBlock
    <2>2. pending.unit \in Units /\ pending.span \in Spans
      BY <2>1 DEF DeskInv, TimelineOK, Selected
    <2>3. CallOK'
      BY <2>1, <2>2 DEF CallOK
    <2>4. BusyWithItsOwn'
      BY <2>1 DEF BusyWithItsOwn, timeline
    <2> QED BY <1>p, <2>1, <2>3, <2>4 DEF DeskInv
  <1>7. CASE unblock
    <2>1. /\ page = "timeline" /\ open # NoBlock /\ busy' = TRUE
          /\ call' = [kind |-> "unblock", block |-> open]
          /\ UNCHANGED << page, timeline, form, apivars >>
      BY <1>7 DEF unblock
    <2>2. open \in Blocks
      BY <2>1 DEF DeskInv, TimelineOK
    <2>3. CallOK'
      BY <2>1, <2>2 DEF CallOK
    <2>4. BusyWithItsOwn'
      BY <2>1 DEF BusyWithItsOwn, timeline
    <2> QED BY <1>p, <2>1, <2>3, <2>4 DEF DeskInv
  <1>8. ASSUME NEW u \in Units, openBooking(u) PROVE DeskInv'
    <2>1. /\ page = "timeline" /\ NoModal /\ page' = "booking" /\ LeaveTimeline
          /\ UNCHANGED << busy, call, form, apivars >>
      BY <1>8 DEF openBooking
    <2>2. busy = FALSE
      BY <2>1, NoModalIsIdle
    <2>3. BusyWithItsOwn'
      BY <2>1, <2>2 DEF BusyWithItsOwn
    <2> QED BY <1>p, <1>t, <2>1, <2>3 DEF DeskInv
  <1>9. ASSUME NEW k \in Blocks, openBlock(k) PROVE DeskInv'
    <2>1. /\ page = "timeline" /\ NoModal /\ open' = k
          /\ UNCHANGED << page, from, data, start, pending, busy, call, form, apivars >>
      BY <1>9 DEF openBlock
    <2>2. busy = FALSE /\ pending = Nobody
      BY <2>1, NoModalIsIdle DEF NoModal
    <2>3. TimelineOK'
      BY <2>1, <2>2 DEF DeskInv, TimelineOK
    <2>4. BusyWithItsOwn'
      BY <2>1, <2>2 DEF DeskInv, BusyWithItsOwn
    <2> QED BY <1>p, <2>1, <2>3, <2>4 DEF DeskInv
  <1> QED BY <1>1, <1>2, <1>3, <1>4, <1>5, <1>6, <1>7, <1>8, <1>9

\* The API's answer to a request of the timeline, whoever waits for it.
LEMMA AnswerFinishes ==
  ASSUME DeskInv, call.kind \in { "block", "unblock" }, Finish, ApiOK'
  PROVE  DeskInv'
  <1>1. call' = NoCall /\ UNCHANGED << from, start, form >>
    BY DEF Finish
  <1>2. CallOK' /\ FormOK'
    BY <1>1, PartsStand DEF CallOK
  <1>3. Timeline' \in [units : SUBSET Units, blocks : SUBSET Blocks]
    BY DEF ApiOK, Timeline
  <1>4. TimelineOK' /\ BusyWithItsOwn'
    <2>1. CASE Mine
      <3>1. /\ pending' = Nobody /\ open' = NoBlock /\ busy' = FALSE
            /\ data' = Timeline' /\ page' \in { "timeline", "error" }
        BY <2>1 DEF Finish, ShowTimeline
      <3> QED BY <1>1, <1>3, <3>1 DEF DeskInv, TimelineOK, BusyWithItsOwn
    <2>2. CASE ~Mine
      <3>1. UNCHANGED << pending, open, busy, page, data >>
        BY <2>2 DEF Finish
      <3>2. busy = FALSE
        BY <2>2 DEF Mine, DeskInv, BusyWithItsOwn
      <3> QED BY <1>1, <3>1, <3>2 DEF DeskInv, TimelineOK, BusyWithItsOwn
    <2> QED BY <2>1, <2>2
  <1> QED BY <1>2, <1>4 DEF DeskInv

\* A block that is made, or removed.
LEMMA BlocksMove ==
  ASSUME DeskInv
  PROVE  /\ \A k \in Blocks : Blocked(k) => ApiOK'
         /\ call.kind = "unblock" /\ Unblocked => ApiOK'
  <1>1. ASSUME NEW k \in Blocks, Blocked(k) PROVE ApiOK'
    <2>1. call.unit \in Units /\ call.span \in Spans
      BY <1>1 DEF Blocked, DeskInv, CallOK, NoCall
    <2>2. [unit |-> call.unit, span |-> call.span] \in Block
      BY <2>1 DEF Block
    <2> QED BY <1>1, <2>2 DEF Blocked, DeskInv, ApiOK
  <1>2. ASSUME call.kind = "unblock", Unblocked PROVE ApiOK'
    <2>1. call.block \in Blocks
      BY <1>2 DEF DeskInv, CallOK, NoCall
    <2> QED BY <1>2, <2>1 DEF Unblocked, DeskInv, ApiOK
  <1> QED BY <1>1, <1>2

\* The timeline's requests are answered.
LEMMA TimelineAnswer ==
  ASSUME DeskInv, (\E k \in Blocks : createBlock(k)) \/ deleteBlock \/ CallFails
  PROVE  DeskInv'
  <1>1. ASSUME NEW k \in Blocks, createBlock(k) PROVE DeskInv'
    BY <1>1, BlocksMove, AnswerFinishes DEF createBlock, Blocked
  <1>2. CASE deleteBlock
    BY <1>2, BlocksMove, AnswerFinishes DEF deleteBlock
  <1>3. CASE CallFails
    <2>1. /\ call.kind \in { "block", "unblock" }
          /\ busy' = (busy /\ ~Mine) /\ call' = NoCall
          /\ UNCHANGED << page, timeline, form >>
      BY <1>3 DEF CallFails
    <2>2. ApiOK'
      BY <1>3, BlocksMove, PartsStand DEF CallFails
    <2>3. busy' = FALSE
      BY <2>1 DEF Mine, DeskInv, BusyWithItsOwn
    <2>4. CallOK' /\ BusyWithItsOwn'
      BY <2>1, <2>3 DEF CallOK, DeskInv, BusyWithItsOwn
    <2> QED BY <2>1, <2>2, <2>4, PartsStand DEF DeskInv
  <1> QED BY <1>1, <1>2, <1>3

\* What the admin and the server do with the form.
LEMMA FormMoves ==
  ASSUME DeskInv,
         \/ bookInstead \/ (\E u \in Units \cup {NoUnit} : chooseUnit(u))
         \/ \E d \in Edges : pick(d)
         \/ TakenArrives \/ TakenFails \/ submit
  PROVE  DeskInv'
  <1>p. /\ UNCHANGED apivars => ApiOK'
        /\ UNCHANGED timeline => TimelineOK'
        /\ UNCHANGED form => FormOK'
        /\ UNCHANGED call => CallOK'
        /\ UNCHANGED << page, busy, call, pending, open >> => BusyWithItsOwn'
    BY PartsStand
  <1>f. /\ unitId \in Units \cup {NoUnit} /\ loading \in BOOLEAN
        /\ range \in Ranges(Edges)
        /\ taken.unit \in Units \cup {NoUnit} /\ taken.spans \subseteq Spans
        /\ asked \in Seq(Units \cup {NoUnit})
        /\ \A i \in DOMAIN asked : asked[i] # NoUnit => i = Len(asked) /\ asked[i] = unitId /\ loading
        /\ unitId # NoUnit /\ ~loading => taken.unit \in { unitId, NoUnit } /\ Fits(range, taken.spans)
    BY DEF DeskInv, FormOK
  <1>1. CASE bookInstead
    <2>1. /\ page' = "new" /\ pending # Nobody
          /\ unitId' \in { pending.unit, NoUnit } /\ LoadTaken(unitId')
          /\ range' = [checkIn |-> pending.span.from, checkOut |-> pending.span.to]
          /\ LeaveTimeline /\ busy' = FALSE /\ UNCHANGED << call, apivars >>
      BY <1>1 DEF bookInstead
    <2>2. pending.unit \in Units /\ pending.span \in Spans
      BY <2>1 DEF DeskInv, TimelineOK, Selected
    <2>3. /\ pending.span.from \in Edges /\ pending.span.to \in Edges
          /\ pending.span.from < pending.span.to
      BY <2>2, SpansAreNights DEF Spans
    <2>4. range' \in Ranges(Edges)
      BY <2>1, <2>3, SpansAreNights DEF Ranges, Date
    <2>5. FormOK'
      BY <1>f, <2>1, <2>2, <2>4, LoadedForm
    <2>6. TimelineOK'
      BY <2>1, LeftTimeline DEF DeskInv
    <2>7. BusyWithItsOwn'
      BY <2>1 DEF BusyWithItsOwn
    <2> QED BY <1>p, <2>1, <2>5, <2>6, <2>7 DEF DeskInv
  <1>2. ASSUME NEW u \in Units \cup {NoUnit}, chooseUnit(u) PROVE DeskInv'
    <2>1. /\ unitId' = u /\ LoadTaken(u) /\ range' = range
          /\ UNCHANGED << page, timeline, busy, call, apivars >>
      BY <1>2 DEF chooseUnit
    <2>2. FormOK'
      BY <1>f, <2>1, LoadedForm
    <2> QED BY <1>p, <2>1, <2>2 DEF DeskInv, timeline
  <1>3. ASSUME NEW d \in Edges, pick(d) PROVE DeskInv'
    <2>1. /\ canPick(d, range, taken.spans) /\ range' = rangeSelect(range, d)
          /\ UNCHANGED << page, timeline, busy, call, unitId, taken, loading, asked, apivars >>
      BY <1>3 DEF pick
    <2>2. range' \in Ranges(Edges) /\ Fits(range', taken.spans)
      BY <1>f, <2>1, PickedFits
    <2>3. FormOK'
      BY <1>f, <2>1, <2>2 DEF FormOK
    <2> QED BY <1>p, <2>1, <2>3 DEF DeskInv, timeline
  <1>4. CASE TakenArrives \/ TakenFails
    <2> DEFINE u == Head(asked)
               rest == Tail(asked)
    <2>1. /\ asked # << >> /\ asked' = rest /\ unitId' = unitId
          /\ UNCHANGED << page, timeline, busy, call, apivars >>
      BY <1>4 DEF TakenArrives, TakenFails
    <2>a. /\ rest \in Seq(Units \cup {NoUnit}) /\ u \in Units \cup {NoUnit}
          /\ u = asked[1] /\ 1 \in DOMAIN asked /\ Len(asked) \in Nat
          /\ Len(rest) = Len(asked) - 1 /\ DOMAIN rest = 1 .. Len(asked) - 1
          /\ \A i \in DOMAIN rest : i + 1 \in DOMAIN asked /\ rest[i] = asked[i + 1]
      BY <1>f, <2>1
    <2> HIDE DEF rest, u
    <2>2. u # NoUnit => u = unitId /\ loading /\ 1 = Len(asked)
      BY <1>f, <2>a
    <2> USE DEF rest, u
    <2>3. CASE u = NoUnit
      <3>1. UNCHANGED << taken, range, loading >>
        BY <1>4, <2>3 DEF TakenArrives, TakenFails
      <3> HIDE DEF rest, u
      <3>2. FormOK'
        <4>1. \A i \in DOMAIN rest : rest[i] # NoUnit => i = Len(rest) /\ rest[i] = unitId /\ loading
          BY <1>f, <2>a
        <4> QED BY <1>f, <2>1, <2>a, <3>1, <4>1 DEF FormOK
      <3> QED BY <1>p, <2>1, <3>2 DEF DeskInv, timeline
    <2>4. CASE u # NoUnit
      <3>1. u \in Units /\ u = unitId /\ loading' = FALSE
        BY <1>4, <2>a, <2>2, <2>4 DEF TakenArrives, TakenFails
      <3>2. /\ taken'.unit \in { u, NoUnit } /\ taken'.spans \subseteq Spans
            /\ range' \in Ranges(Edges) /\ Fits(range', taken'.spans)
        <4>1. CASE TakenArrives
          <5>1. /\ taken' = [unit |-> u, spans |-> takenNights(u)]
                /\ range' = StillFits(range, takenNights(u))
            BY <2>4, <4>1 DEF TakenArrives
          <5>2. takenNights(u) \subseteq Spans
            BY <3>1, TakenAreSpans DEF DeskInv
          <5> HIDE DEF u
          <5> QED BY <1>f, <5>1, <5>2, StillFitsFits
        <4>2. CASE TakenFails
          <5>1. taken' = NoneTaken /\ range' = range
            BY <2>4, <4>2 DEF TakenFails
          <5> QED BY <1>f, <5>1 DEF NoneTaken, Fits, isTaken
        <4> QED BY <1>4, <4>1, <4>2
      <3>3. \A i \in DOMAIN rest : rest[i] = NoUnit
        <4> HIDE DEF rest, u
        <4>1. Len(asked) = 1
          BY <2>2, <2>4
        <4>2. \A i \in 1 .. 1 - 1 : FALSE
          OBVIOUS
        <4> QED BY <2>a, <4>1, <4>2
      <3> HIDE DEF rest, u
      <3>4. FormOK'
        BY <1>f, <2>1, <2>a, <3>1, <3>2, <3>3 DEF FormOK
      <3> QED BY <1>p, <2>1, <3>4 DEF DeskInv, timeline
    <2> QED BY <2>3, <2>4
  <1>5. CASE submit
    <2>1. /\ page = "new" /\ unitId # NoUnit /\ Complete(range) /\ busy' = TRUE
          /\ call' = [kind |-> "book", unit |-> unitId,
                      span |-> [from |-> range.checkIn, to |-> range.checkOut]]
          /\ UNCHANGED << page, timeline, form, apivars >>
      BY <1>5 DEF submit
    <2>2. [from |-> range.checkIn, to |-> range.checkOut] \in StaySpans
      BY <1>f, <2>1 DEF Ranges, Complete, Date, StaySpans
    <2>3. CallOK'
      BY <1>f, <2>1, <2>2 DEF CallOK
    <2>4. BusyWithItsOwn'
      BY <2>1 DEF BusyWithItsOwn
    <2> QED BY <1>p, <2>1, <2>3, <2>4 DEF DeskInv
  <1> QED BY <1>1, <1>2, <1>3, <1>4, <1>5

\* The booking of the form is made, or refused, or its answer is lost.
LEMMA BookingAnswer ==
  ASSUME DeskInv, createManualBooking \/ BookingFails
  PROVE  DeskInv'
  <1>1. call.kind = "book" /\ call' = NoCall /\ busy' = FALSE
    BY DEF createManualBooking, BookingFails
  <1>2. call.unit \in Units /\ call.span \in StaySpans
    BY <1>1 DEF DeskInv, CallOK, NoCall
  <1>3. Covers(call.span) \subseteq Dates
    BY <1>2, SpansAreNights
  <1>4. ApiOK'
    <2>1. /\ UNCHANGED << units, blocks, gone >>
          /\ booked' \in { booked, [booked EXCEPT ![call.unit] = @ \cup Covers(call.span)] }
      BY DEF createManualBooking, BookingFails
    <2>2. [booked EXCEPT ![call.unit] = @ \cup Covers(call.span)] \in [Units -> SUBSET Dates]
      BY <1>2, <1>3 DEF DeskInv, ApiOK
    <2> QED BY <2>1, <2>2 DEF DeskInv, ApiOK
  <1>5. CallOK'
    BY <1>1 DEF CallOK
  <1>6. CASE createManualBooking
    <2>1. page' = "booking" /\ LeaveTimeline /\ LeaveForm
      BY <1>6 DEF createManualBooking
    <2>2. BusyWithItsOwn'
      BY <1>1, <2>1 DEF BusyWithItsOwn
    <2> QED BY <1>4, <1>5, <2>1, <2>2, LeftForm, LeftTimeline DEF DeskInv
  <1>7. CASE BookingFails
    <2>1. UNCHANGED << page, timeline, form >>
      BY <1>7 DEF BookingFails
    <2>2. BusyWithItsOwn'
      BY <1>1, <2>1 DEF DeskInv, BusyWithItsOwn, timeline
    <2> QED BY <1>4, <1>5, <2>1, <2>2, PartsStand DEF DeskInv
  <1> QED BY <1>6, <1>7

\* Guests and other admins.
LEMMA OthersAct ==
  ASSUME DeskInv, Others
  PROVE  DeskInv'
  <1>1. UNCHANGED << page, timeline, busy, call, form >>
    BY DEF Others, OthersArchive, OthersBook, OthersUnblock
  <1>2. ApiOK'
    <2>1. ASSUME NEW u \in Units, NEW d \in Dates, OthersBook(u, d) PROVE ApiOK'
      BY <2>1 DEF OthersBook, DeskInv, ApiOK
    <2>2. ASSUME NEW u \in Units, OthersArchive(u) PROVE ApiOK'
      BY <2>2 DEF OthersArchive, DeskInv, ApiOK
    <2>3. ASSUME NEW k \in Blocks, OthersUnblock(k) PROVE ApiOK'
      BY <2>3 DEF OthersUnblock, DeskInv, ApiOK
    <2> QED BY <2>1, <2>2, <2>3 DEF Others
  <1> QED BY <1>1, <1>2, PartsStand DEF DeskInv, timeline

\* Every step keeps the invariant.
LEMMA DeskStep_Inv == DeskInv /\ [DeskNext]_deskvars => DeskInv'
  <1> SUFFICES ASSUME DeskInv, [DeskNext]_deskvars PROVE DeskInv'
    OBVIOUS
  <1>1. CASE TimelineStep
    BY <1>1, TimelineClick, TimelineAnswer, FormMoves DEF TimelineStep
  <1>2. CASE FormStep
    BY <1>2, FormMoves, BookingAnswer DEF FormStep
  <1>3. CASE Others
    BY <1>3, OthersAct
  <1>4. CASE UNCHANGED deskvars
    BY <1>4, PartsStand DEF DeskInv, deskvars, timeline
  <1> QED BY <1>1, <1>2, <1>3, <1>4 DEF DeskNext

\* So it holds always.
LEMMA DeskInvHolds == DeskSpec => []DeskInv
  BY DeskInit_Inv, DeskStep_Inv, PTL DEF DeskSpec

-----------------------------------------------------------------------------
(* The theorems.                                                           *)

\* Every part of the desk keeps its type: in particular a range on the form has
\* its dates in order and only dates of the calendar are booked.
THEOREM DeskTypes == DeskSpec => []DeskTypeOK
  BY DeskInvHolds, DeskInvIsEnough, PTL

\* A stay that the form holds complete takes no night that was listed as taken
\* of the unit that is chosen, however units were chosen and nights came in.
THEOREM StaysFitTheUnit == DeskSpec => []StayFitsTheUnit
  BY DeskInvHolds, DeskInvIsEnough, PTL

\* The dialog on a block closes by itself only when the block is gone.
THEOREM UnblockedBlocksAreGone == DeskSpec => UnblockedIsGone
  <1> DEFINE A == busy /\ page = "timeline" /\ open # NoBlock /\ page' = "timeline" /\ open' = NoBlock
                    => open \in gone'
  <1>1. DeskInv /\ [DeskNext]_deskvars => [A]_deskvars
    <2> SUFFICES ASSUME DeskInv, DeskNext,
                        busy, page = "timeline", open # NoBlock, page' = "timeline", open' = NoBlock
                 PROVE  open \in gone'
      OBVIOUS
    <2>1. call.kind = "unblock" /\ call.block = open /\ ~NoModal
      BY DEF DeskInv, TimelineOK, BusyWithItsOwn, NoModal
    <2>2. deleteBlock
      BY <2>1 DEF DeskNext, TimelineStep, FormStep, Others, VisitTimeline, Turn, clickDay, Escape, closeAll,
                  saveBlock, unblock, bookInstead, openBooking, openBlock, createBlock, Blocked, CallFails,
                  chooseUnit, pick, TakenArrives, TakenFails, submit, createManualBooking, BookingFails,
                  OthersArchive, OthersBook, OthersUnblock, timeline
    <2> QED BY <2>1, <2>2 DEF deleteBlock, Unblocked
  <1>2. QED
    BY <1>1, DeskInvHolds, PTL DEF DeskSpec, UnblockedIsGone
=============================================================================
