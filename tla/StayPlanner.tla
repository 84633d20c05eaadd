---------------------------- MODULE StayPlanner -----------------------------
(***************************************************************************)
(* A unit's page in the guest's browser: the calendar and price of         *)
(* stay-planner.tsx and the dialog of guest-flow.tsx, whose server actions *)
(* the router runs one at a time, in the order they were called.  Other    *)
(* guests take and give back nights meanwhile, the session may end, and an *)
(* answer may be lost after the API has acted on it.                       *)
(***************************************************************************)
EXTENDS StayCalendar, Sequences

CONSTANTS Dates,      \* the dates the API knows, monthGrid by monthGrid
          Today,
          MaxGuests,  \* max_guests of the unit
          NoQuote,
          MaxCalls,   \* bound: server actions that wait at a time
          MaxBooked   \* bound: bookings of this guest

ASSUME PlannerAssumption == /\ Dates \subseteq Nat /\ Today \in Dates
                            /\ \E d \in Dates : \A e \in Dates : e <= d
                            /\ MaxGuests \in Nat \ {0}
                            /\ MaxCalls \in Nat \ {0}

VARIABLES page,      \* "unit", "booking", or "error": the framework's error page
          view,      \* the first month on show
          days,      \* the states of the dates loaded so far
          range,
          guests,
          quote,     \* the last answer of quoteStay, or NoQuote
          booking,   \* the page has asked for the dialog
          step,      \* the dialog's step, "signin" while it is not open
          busy,      \* the dialog waits for an action of its own
          signedIn,  \* what the server said when it rendered the page
          calls,     \* server actions that have not answered, oldest first
          leaving,   \* router.push has been called and its page is not there yet
          session,   \* the guest cookie holds a token the API accepts
          taken,     \* nights the API refuses
          booked     \* stays this guest has booked

planner == << view, days, range, guests, quote, booking >>
dialog == << step, busy, leaving >>
api == << session, taken, booked >>
pvars == << page, view, days, range, guests, quote, booking, step, busy, signedIn,
            calls, leaving, session, taken, booked >>

Nights == { d \in Dates : d >= Today }
FirstMonth == Today \div MonthLength
LastMonth == (CHOOSE d \in Dates : \A e \in Dates : e <= d) \div MonthLength

\* A stay as quoteStay and bookStay are given it.
StayOf(r, g) == [checkIn |-> r.checkIn, checkOut |-> r.checkOut, guests |-> g]
Stays == { s \in [checkIn : Dates, checkOut : Dates, guests : 1 .. MaxGuests] :
             s.checkIn < s.checkOut }
Here == StayOf(range, guests)

Quote == [stay : Stays, ok : BOOLEAN]
Call == [kind : {"load"}, month : Nat]
          \cup [kind : {"quote"}, stay : Stays]
          \cup [kind : {"book"}, stay : Stays, live : BOOLEAN]
          \cup [kind : {"auth"}, live : BOOLEAN]
          \cup [kind : {"refresh"}]

State(d) == IF d < Today THEN "past" ELSE IF d \in taken THEN "blocked" ELSE "free"
Loaded(m) == [d \in Spread(m) \cap Dates |-> State(d)]
Shown(d) == IF d \in DOMAIN days THEN days[d] ELSE "blocked"

PTypeOK ==
  /\ page \in { "unit", "booking", "error" }
  /\ view \in FirstMonth .. LastMonth
  /\ DOMAIN days \subseteq Dates
  /\ \A d \in DOMAIN days : days[d] \in { "free", "blocked", "past" }
  /\ range \in Ranges(Dates)
  /\ guests \in 1 .. MaxGuests
  /\ quote \in Quote \cup {NoQuote}
  /\ booking \in BOOLEAN
  /\ step \in { "signin", "register", "confirm" }
  /\ busy \in BOOLEAN /\ signedIn \in BOOLEAN /\ leaving \in BOOLEAN /\ session \in BOOLEAN
  /\ calls \in Seq(Call)
  /\ taken \subseteq Nights
  /\ booked \subseteq Stays

-----------------------------------------------------------------------------
\* GuestFlow is mounted beside an accepted price and a full range, and open
\* when the page has asked for it as well.
q == quote # NoQuote /\ quote.ok
Mounted == q /\ Complete(range)
Open == Mounted /\ booking
Quoting == \E i \in DOMAIN calls : calls[i].kind = "quote"

\* What the page shows the guest under the open dialog is inert.
Usable == page = "unit" /\ ~Open

\* The dialog after a step that changed whether it is mounted or open: opening
\* sets its step, unmounting forgets it and orphans the actions it waits for.
Forgotten_StillLive(cs) == cs

Forgotten(cs) == [i \in DOMAIN cs |-> IF cs[i].kind \in { "book", "auth" }
                                      THEN [cs[i] EXCEPT !.live = FALSE] ELSE cs[i]]

FollowDialog(next, s, b) ==
  /\ step' = CASE ~Open'          -> "signin"
               [] Open' /\ ~Open  -> IF signedIn' THEN "confirm" ELSE "signin"
               [] OTHER           -> s
  /\ busy' = (b /\ Mounted')
  /\ calls' = IF Mounted /\ ~Mounted' THEN Forgotten(next) ELSE next

Enqueue(c) == Append(calls, c)
Room == Len(calls) < MaxCalls

\* The page as the server renders it: a first visit, or a reload.
Render ==
  /\ page' = "unit"
  /\ view' = FirstMonth
  /\ days' = Loaded(FirstMonth)
  /\ range' = NoRange
  /\ guests' = IF MaxGuests < 2 THEN MaxGuests ELSE 2
  /\ quote' = NoQuote
  /\ booking' = FALSE
  /\ step' = "signin" /\ busy' = FALSE /\ leaving' = FALSE
  /\ signedIn' = session
  /\ calls' = << >>
  /\ UNCHANGED api

PInit ==
  /\ taken \in SUBSET Nights
  /\ session \in BOOLEAN
  /\ booked = {}
  /\ page = "unit" /\ view = FirstMonth /\ days = Loaded(FirstMonth)
  /\ range = NoRange /\ quote = NoQuote /\ booking = FALSE
  /\ guests = IF MaxGuests < 2 THEN MaxGuests ELSE 2
  /\ step = "signin" /\ busy = FALSE /\ leaving = FALSE
  /\ signedIn = session /\ calls = << >>

-----------------------------------------------------------------------------
(* The planner.                                                            *)

\* The arrows, the one back disabled on the first month.  The one forward never
\* is: LastMonth is a bound.
Arrows == FirstMonth .. LastMonth - 1

\* go: the months are loaded when one of them has never been.
go(delta) ==
  LET next == view + delta
      missing == \E m \in { next, next + 1 } : monthGrid(m) \cap Dates \cap DOMAIN days = {}
  IN /\ Usable
     /\ next \in Arrows
     /\ view' = next
     /\ missing => Room
     /\ calls' = IF missing THEN Enqueue([kind |-> "load", month |-> next]) ELSE calls
     /\ UNCHANGED << page, days, range, guests, quote, booking, signedIn >>
     /\ UNCHANGED << dialog, api >>

\* requote: the price is dropped at once; a full range is priced anew.
requote(r, g) ==
  /\ quote' = NoQuote
  /\ Complete(r) => Room
  /\ FollowDialog(IF Complete(r) THEN Enqueue([kind |-> "quote", stay |-> StayOf(r, g)])
                                 ELSE calls, step, busy)

\* A check-in needs a free night, a check-out any later night not past; the
\* ends of the range on show can be clicked whatever their state.
Selectable(d) ==
  \/ d \in { range.checkIn, range.checkOut }
  \/ IF HalfOpen(range) /\ d > range.checkIn THEN Shown(d) # "past" ELSE Shown(d) = "free"

choose(d) ==
  /\ Usable
  /\ d \in Spread(view) \cap Dates
  /\ Selectable(d)
  /\ range' = rangeSelect(range, d)
  /\ UNCHANGED << page, view, days, guests, booking, signedIn, leaving, api >>
  /\ requote(range', guests)

clear ==
  /\ Usable
  /\ Date(range.checkIn)
  /\ range' = NoRange
  /\ quote' = NoQuote
  /\ UNCHANGED << page, view, days, guests, booking, signedIn, leaving, api >>
  /\ FollowDialog(calls, step, busy)

\* The stepper's two buttons, disabled at its ends.
Stepper == { guests - 1, guests + 1 } \cap 1 .. MaxGuests

changeGuests_NoRequote(g) ==
  /\ Usable
  /\ g \in Stepper
  /\ guests' = g
  /\ UNCHANGED << page, view, days, range, quote, booking, signedIn, leaving, api >>
  /\ FollowDialog(calls, step, busy)

changeGuests(g) ==
  /\ Usable
  /\ g \in Stepper
  /\ guests' = g
  /\ UNCHANGED << page, view, days, range, booking, signedIn, leaving, api >>
  /\ requote(range, g)

\* The button under the price, disabled without one and while one is asked for.
bookNow ==
  /\ Usable
  /\ q /\ ~Quoting
  /\ booking' = TRUE
  /\ UNCHANGED << page, view, days, range, guests, quote, signedIn, leaving, api >>
  /\ FollowDialog(calls, step, busy)

-----------------------------------------------------------------------------
(* The dialog.                                                             *)
DialogStep == page = "unit" /\ Open /\ ~busy

\* Cancel, or Escape while nothing runs.
onClose ==
  /\ DialogStep
  /\ booking' = FALSE
  /\ UNCHANGED << page, view, days, range, guests, quote, signedIn, leaving, api >>
  /\ FollowDialog(calls, step, busy)

\* The tabs, which also stand while an action runs.
setStep(s) ==
  /\ page = "unit" /\ Open
  /\ step \in { "signin", "register" } \ {s}
  /\ step' = s
  /\ UNCHANGED << page, planner, signedIn, calls, busy, leaving, api >>

submitAuth ==
  /\ DialogStep
  /\ step \in { "signin", "register" }
  /\ Room
  /\ busy' = TRUE
  /\ calls' = Enqueue([kind |-> "auth", live |-> TRUE])
  /\ UNCHANGED << page, planner, signedIn, step, leaving, api >>

confirm ==
  /\ DialogStep
  /\ step = "confirm"
  /\ Room
  /\ busy' = TRUE
  /\ calls' = Enqueue([kind |-> "book", stay |-> Here, live |-> TRUE])
  /\ UNCHANGED << page, planner, signedIn, step, leaving, api >>

-----------------------------------------------------------------------------
(* The router runs the oldest action.  What the API does and the arrival of*)
(* its answer are one step: the guest's and the others' steps before and   *)
(* after it cover what may come in between.                                *)
Runs(kind) == /\ page = "unit"
              /\ calls # << >>
              /\ Head(calls).kind = kind

Free(s) == \A d \in s.checkIn .. (s.checkOut - 1) : d \in Nights \ taken

loadAvailability ==
  /\ Runs("load")
  /\ days' = [d \in (Spread(Head(calls).month) \cap Dates) \cup DOMAIN days |->
                IF d \in Spread(Head(calls).month) THEN State(d) ELSE days[d]]
  /\ calls' = Tail(calls)
  /\ UNCHANGED << page, view, range, guests, quote, booking, signedIn, dialog, api >>

quoteStay ==
  /\ Runs("quote")
  /\ quote' = [stay |-> Head(calls).stay, ok |-> Free(Head(calls).stay)]
  /\ UNCHANGED << page, view, days, range, guests, booking, signedIn, leaving, api >>
  /\ FollowDialog(Tail(calls), step, busy)

\* signUp, signIn: refused, or the cookie is set, done() asks for a refresh and
\* the dialog goes on to its summary.
AuthRefused_StaysBusy ==
  /\ Runs("auth")
  /\ calls' = Tail(calls)
  /\ UNCHANGED << page, planner, signedIn, step, busy, leaving, api >>

AuthRefused ==
  /\ Runs("auth")
  /\ busy' = (busy /\ ~Head(calls).live)
  /\ calls' = Tail(calls)
  /\ UNCHANGED << page, planner, signedIn, step, leaving, api >>

keepSession ==
  /\ Runs("auth")
  /\ session' = TRUE
  /\ busy' = (busy /\ ~Head(calls).live)
  /\ step' = IF Head(calls).live /\ Open THEN "confirm" ELSE step
  /\ calls' = Append(Tail(calls), [kind |-> "refresh"])
  /\ UNCHANGED << page, planner, signedIn, leaving, taken, booked >>

\* router.refresh: new props; the state of the planner and the step stay.
refresh ==
  /\ Runs("refresh")
  /\ signedIn' = session
  /\ calls' = Tail(calls)
  /\ UNCHANGED << page, planner, dialog, api >>

\* bookStay: the API books a free stay for a guest it knows.
Accepted(s) == session /\ Free(s)
BookAtApi(s) ==
  IF Accepted(s)
  THEN /\ booked' = booked \cup {s}
       /\ taken' = taken \cup s.checkIn .. (s.checkOut - 1)
  ELSE UNCHANGED << booked, taken >>

bookStay ==
  /\ Runs("book")
  /\ BookAtApi(Head(calls).stay)
  /\ leaving' = (leaving \/ Accepted(Head(calls).stay))
  /\ busy' = (busy /\ ~Head(calls).live)
  /\ calls' = Tail(calls)
  /\ UNCHANGED << page, planner, signedIn, step, session >>

\* The booking's page replaces the unit's.
Arrive ==
  /\ page = "unit" /\ leaving
  /\ page' = "booking"
  /\ leaving' = FALSE /\ busy' = FALSE /\ step' = "signin"
  /\ calls' = << >>
  /\ range' = NoRange /\ quote' = NoQuote /\ booking' = FALSE
  /\ UNCHANGED << view, days, guests, signedIn, api >>

\* The API fails or its answer is lost: guestFetch throws, the framework's
\* error page shows.  A booking may have been made.
AnswerLost ==
  /\ page = "unit" /\ calls # << >>
  /\ \/ Head(calls).kind = "book" /\ BookAtApi(Head(calls).stay)
     \/ UNCHANGED << booked, taken >>
  /\ page' = "error"
  /\ leaving' = FALSE /\ busy' = FALSE /\ step' = "signin"
  /\ calls' = << >>
  /\ range' = NoRange /\ quote' = NoQuote /\ booking' = FALSE
  /\ UNCHANGED << view, days, guests, signedIn, session >>

Reload == page # "unit" /\ Cardinality(booked) < MaxBooked /\ Render

-----------------------------------------------------------------------------
(* Everyone else: nights change hands, the token expires.                  *)
OthersBook(d) ==
  /\ d \in Nights \ taken
  /\ taken' = taken \cup {d}
  /\ UNCHANGED << page, planner, dialog, signedIn, calls, session, booked >>

SessionEnds ==
  /\ session
  /\ session' = FALSE
  /\ UNCHANGED << page, planner, dialog, signedIn, calls, taken, booked >>

Answer == loadAvailability \/ quoteStay \/ AuthRefused \/ keepSession \/ refresh \/ bookStay

PNext ==
  \/ \E delta \in { -1, 1 } : go(delta)
  \/ \E d \in Dates : choose(d) \/ OthersBook(d)
  \/ \E g \in 1 .. MaxGuests : changeGuests(g)
  \/ clear \/ bookNow \/ onClose
  \/ \E s \in { "signin", "register" } : setStep(s)
  \/ submitAuth \/ confirm
  \/ Answer \/ Arrive \/ AnswerLost \/ Reload \/ SessionEnds

PSpec == PInit /\ [][PNext]_pvars

\* The router runs what it was given and renders what it was told to, unless
\* the page is gone.
PFairSpec == PSpec /\ WF_pvars(Answer) /\ WF_pvars(Arrive)

-----------------------------------------------------------------------------
(* Properties.                                                             *)

\* Whatever was clicked while prices were in flight, a price kept for a full
\* range belongs to its dates and guests, or the price that does is asked for
\* last and so arrives last.
PriceCatchesUp ==
  Complete(range) /\ quote # NoQuote =>
    \/ quote.stay = Here
    \/ \E i \in DOMAIN calls :
         /\ calls[i] = [kind |-> "quote", stay |-> Here]
         /\ \A j \in DOMAIN calls : j > i => calls[j].kind # "quote"

\* A booking the guest confirmed is sent to the API only after the API was
\* asked to price that very stay.
BookedAfterPriced ==
  \A i \in DOMAIN calls : calls[i].kind = "book" /\ calls[i].live =>
    \/ quote # NoQuote /\ quote.stay = calls[i].stay
    \/ \E j \in 1 .. i - 1 : calls[j] = [kind |-> "quote", stay |-> calls[i].stay]

\* The dialog waits exactly while an action of its own has not answered: it is
\* never left busy (it could not be closed), and never sends two at a time.
BusyMeansOneAction ==
  Cardinality({ i \in DOMAIN calls : calls[i].kind \in { "book", "auth" } /\ calls[i].live })
    = IF busy THEN 1 ELSE 0

\* A guest who has confirmed gets an answer: the dialog is free again, or
\* another page has come.
ConfirmIsAnswered == [](busy => <>(~busy))
=============================================================================
