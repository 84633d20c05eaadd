---------------------------- MODULE BookingsList ----------------------------
(***************************************************************************)
(* The dashboard's list of bookings: its filters in the address, the rows  *)
(* the API gives for them, and the file a link downloads (bookings/page.tsx*)
(* and bookings/export/route.ts).  Bookings are made and move meanwhile.   *)
(* The select of a status stands for the box and the select of a unit.     *)
(***************************************************************************)
EXTENDS Integers, FiniteSets

CONSTANTS Refs,      \* bookings there may be, in the order they are made
          StayOf,    \* check_in and check_out of each
          States, Days,
          NoChoice,  \* an empty filter
          NoList,    \* no page under way, or none on show
          Letters,   \* the text that DAY matches
          MaxRows    \* rows the API gives to a page

ASSUME ListAssumption ==
  /\ Refs \subseteq Nat
  /\ StayOf \in [Refs -> [from : Int, to : Int]]
  /\ NoChoice \notin States \cup Days /\ Letters \notin Days \cup {NoChoice}
  /\ MaxRows \in Nat \ {0}

VARIABLES state,     \* the API: the status of each booking that was made
          chosen,    \* the filters in the address of the page on show
          fetching,  \* those of the page that is fetched, or NoList
          listed,    \* the rows on show, or NoList: the page failed
          file,      \* the bookings of the last file
          moved      \* history: bookings were made or moved since the page was rendered

listvars == << state, chosen, fetching, listed, file, moved >>

Choice == [status : States \cup {NoChoice}, from : Days \cup {NoChoice}, to : Days \cup {NoChoice}]
Unfiltered == [status |-> NoChoice, from |-> NoChoice, to |-> NoChoice]

-----------------------------------------------------------------------------
(* GET /admin/bookings.                                                    *)
Meets(b, query) ==
  /\ query.status \in { NoChoice, state[b] }
  /\ query.from # NoChoice => StayOf[b].to >= query.from
  /\ query.to # NoChoice => StayOf[b].from <= query.to

\* ORDER BY check_in DESC, created_at DESC.
Sooner(b, c) ==
  \/ StayOf[b].from > StayOf[c].from
  \/ StayOf[b].from = StayOf[c].from /\ b > c
Latest(found) == { b \in found : Cardinality({ c \in found : Sooner(c, b) }) < MaxRows }

\* The latest rows, or with all=1 every one.
adminListBookings(query, all) ==
  LET found == { b \in DOMAIN state : Meets(b, query) }
  IN IF all THEN found ELSE Latest(found)

-----------------------------------------------------------------------------
(* The page.                                                               *)

\* /^d{4}-d{2}-d{2}$/ has no backslashes: it matches the letter d, and no date.
DAY(text) == text = Letters

\* What the page passes on of the filters in its address.
Passed(sp) ==
  [status |-> sp.status,
   from |-> IF DAY(sp.from) THEN sp.from ELSE NoChoice,
   to |-> IF DAY(sp.to) THEN sp.to ELSE NoChoice]

\* FilterBar: a select or a date changes the address of the page on show.
filterBy(key, value) ==
  /\ listed # NoList /\ value # chosen[key]
  /\ fetching' = [chosen EXCEPT ![key] = value]
  /\ UNCHANGED << state, chosen, listed, file, moved >>

clearFilterBar ==
  /\ listed # NoList /\ chosen # Unfiltered
  /\ fetching' = Unfiltered
  /\ UNCHANGED << state, chosen, listed, file, moved >>

BookingsPage ==
  /\ fetching # NoList
  /\ chosen' = fetching /\ fetching' = NoList
  /\ listed' = adminListBookings(Passed(fetching), FALSE)
  /\ moved' = FALSE
  /\ UNCHANGED << state, file >>

\* adminGet throws; the admin loads the page again.
PageFails ==
  /\ fetching # NoList
  /\ chosen' = fetching /\ fetching' = NoList
  /\ listed' = NoList
  /\ UNCHANGED << state, file, moved >>

LoadAgain ==
  /\ listed = NoList /\ fetching = NoList
  /\ fetching' = chosen
  /\ UNCHANGED << state, chosen, listed, file, moved >>

\* The link above rows, with the page's query; the route passes on what it knows.
PASS_NoStatus == { "from", "to" }
PASS == { "status", "from", "to" }

Export ==
  /\ listed \notin { NoList, {} }
  /\ file' = adminListBookings([key \in DOMAIN Passed(chosen) |->
                                  IF key \in PASS THEN Passed(chosen)[key] ELSE NoChoice], TRUE)
  /\ UNCHANGED << state, chosen, fetching, listed, moved >>

-----------------------------------------------------------------------------
(* Guests, other admins and the sweep.                                     *)
BookingMade ==
  /\ DOMAIN state # Refs
  /\ LET b == CHOOSE r \in Refs \ DOMAIN state : \A s \in Refs \ DOMAIN state : r <= s
     IN \E s \in States : state' = [r \in DOMAIN state \cup {b} |-> IF r = b THEN s ELSE state[r]]
  /\ moved' = TRUE
  /\ UNCHANGED << chosen, fetching, listed, file >>

BookingMoves(b) ==
  /\ \E s \in States \ {state[b]} : state' = [state EXCEPT ![b] = s]
  /\ moved' = TRUE
  /\ UNCHANGED << chosen, fetching, listed, file >>

ListInit ==
  /\ \E n \in 0 .. Cardinality(Refs) :
       state \in [{ b \in Refs : Cardinality({ r \in Refs : r < b }) < n } -> States]
  /\ chosen = Unfiltered /\ fetching = NoList
  /\ listed = adminListBookings(Unfiltered, FALSE)
  /\ file = {} /\ moved = FALSE

ListNext ==
  \/ \E s \in States \cup {NoChoice} : filterBy("status", s)
  \/ \E d \in Days \cup {NoChoice} : filterBy("from", d) \/ filterBy("to", d)
  \/ clearFilterBar \/ BookingsPage \/ PageFails \/ LoadAgain \/ Export
  \/ BookingMade \/ \E b \in DOMAIN state : BookingMoves(b)

ListSpec == ListInit /\ [][ListNext]_listvars

-----------------------------------------------------------------------------
(* Properties.                                                             *)

\* route.ts: "The bookings list, filtered as on screen": while no booking has
\* moved since the page was rendered, the rows on show are the first ones of
\* the file, which goes on where the page stops.
FileIsTheList ==
  [][Export /\ ~moved => Latest(file') = listed]_listvars

\* user-manual-ar.md, on the filter by date: every booking shown has a night or
\* its day of departure between the two days chosen.
DatesFilterTheList ==
  listed # NoList => \A b \in listed :
    /\ chosen.from # NoChoice => StayOf[b].to >= chosen.from
    /\ chosen.to # NoChoice => StayOf[b].from <= chosen.to
=============================================================================
