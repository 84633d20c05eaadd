---------------------------- MODULE ListFilters -----------------------------
(***************************************************************************)
(* The search box and selects over a list of the dashboard, filter-bar.tsx,*)
(* which write to the query string, and the bar over the page that shows a *)
(* navigation, nav-progress.tsx.  A navigation takes a while; the next one *)
(* replaces it.  One select stands for all of them.                        *)
(***************************************************************************)
EXTENDS Naturals

CONSTANTS Texts,     \* what the box may hold, trimmed
          Options,   \* what the select may hold
          Empty,     \* nothing, for either
          Nowhere,   \* no navigation
          MaxActs    \* bound: what the admin does

ASSUME FiltersAssumption == Empty \notin Texts \cup Options /\ MaxActs \in Nat

VARIABLES box,     \* q, the box's state
          params,  \* the query string of the page on show
          going,   \* the query string of the page that is fetched
          timer,   \* the debounce timer runs
          bar,     \* NavProgress
          linked,  \* history: what was asked for last is the list's link
          acts     \* bound: how much was done

filtervars == << box, params, going, timer, bar, linked, acts >>

Query == [q : Texts \cup {Empty}, sel : Options \cup {Empty}]
NoQuery == [q |-> Empty, sel |-> Empty]
Act == acts < MaxActs /\ acts' = acts + 1

\* The effect on the box and the query: a new timer whenever they differ, with
\* the query of that moment.
Rearm_OnTyping(b, p) == IF b # box THEN b # p.q ELSE timer
Rearm(b, p) == IF b # box \/ p # params THEN b # p.q ELSE timer

\* apply: the page's own query with the change, shown by the bar if it is one.
Apply(change) ==
  /\ going' = change
  /\ bar' = IF change # params THEN "loading" ELSE bar
  /\ linked' = FALSE

type(b) ==
  /\ Act /\ b # box
  /\ box' = b
  /\ timer' = Rearm(b, params)
  /\ UNCHANGED << params, going, bar, linked >>

Debounced ==
  /\ timer
  /\ timer' = FALSE
  /\ Apply([params EXCEPT !.q = box])
  /\ UNCHANGED << box, params, acts >>

\* Return: the timer, if any, stays.
submitBox ==
  /\ Act
  /\ Apply([params EXCEPT !.q = box])
  /\ UNCHANGED << box, params, timer >>

chooseOption(v) ==
  /\ Act /\ v # params.sel
  /\ Apply([params EXCEPT !.sel = v])
  /\ UNCHANGED << box, params, timer >>

clearAll ==
  /\ Act /\ params # NoQuery
  /\ box' = Empty
  /\ timer' = Rearm(Empty, params)
  /\ going' = NoQuery /\ bar' = "loading" /\ linked' = FALSE
  /\ UNCHANGED params

\* The sidebar's link to the same list: the box keeps its text.
listLink ==
  /\ Act
  /\ going' = NoQuery /\ linked' = TRUE
  /\ bar' = IF params # NoQuery THEN "loading" ELSE bar
  /\ UNCHANGED << box, params, timer >>

\* The page that was fetched last is there.
Lands ==
  /\ going # Nowhere
  /\ params' = going /\ going' = Nowhere
  /\ timer' = Rearm(box, going)
  /\ bar' = IF going # params /\ bar = "loading" THEN "done" ELSE bar
  /\ UNCHANGED << box, linked, acts >>

\* Its fetch failed: the browser loads the address anew.
Reloads ==
  /\ going # Nowhere
  /\ params' = going /\ going' = Nowhere
  /\ box' = going.q /\ timer' = FALSE /\ bar' = "idle"
  /\ UNCHANGED << linked, acts >>

\* The bar's timers: after 15 s without a new page, and 400 ms after it.
Safety ==
  /\ bar = "loading"
  /\ bar' = "done"
  /\ UNCHANGED << box, params, going, timer, linked, acts >>

Fade ==
  /\ bar = "done"
  /\ bar' = "idle"
  /\ UNCHANGED << box, params, going, timer, linked, acts >>

FiltersInit ==
  /\ params \in Query /\ box = params.q
  /\ going = Nowhere /\ timer = FALSE /\ bar = "idle" /\ linked = FALSE /\ acts = 0

FiltersNext ==
  \/ \E b \in Texts \cup {Empty} : type(b)
  \/ \E v \in Options \cup {Empty} : chooseOption(v)
  \/ submitBox \/ clearAll \/ listLink
  \/ Debounced \/ Lands \/ Reloads \/ Safety \/ Fade

\* Timers fire, and a page that is fetched comes.
FiltersFairness == /\ WF_filtervars(Debounced) /\ WF_filtervars(Lands \/ Reloads)
                   /\ WF_filtervars(Safety)

FiltersFairSpec == FiltersInit /\ [][FiltersNext]_filtervars /\ FiltersFairness

-----------------------------------------------------------------------------
(* Properties.                                                             *)

\* Once the admin rests, the box says what the list was searched for and the
\* bar is still, although choices, links and timers have replaced one another's
\* navigations, some of which show nothing new; unless the last thing asked for
\* was the whole list, by its link, which leaves the box as it is.
BoxAndListAgree == <>[]((box = params.q \/ linked) /\ bar # "loading")
=============================================================================
