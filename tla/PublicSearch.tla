---------------------------- MODULE PublicSearch ----------------------------
(***************************************************************************)
(* The guests' search: the filters in the address, search-params.ts, the   *)
(* controls beside the results, search-controls.tsx, and the pager below   *)
(* them.  Answers come from Next's cache, so a page's results are of the   *)
(* catalogue as it is or as it once was.  One chip stands for type and     *)
(* view, one stepper for guests and bedrooms; the order is left out.       *)
(* An address may come from anywhere: a slug or a number in it that no     *)
(* control offers is passed on to the API all the same.                    *)
(***************************************************************************)
EXTENDS Integers, FiniteSets

CONSTANTS Areas, Compounds, Kinds,  \* slugs, and the values of UNIT_TYPES
          AreaOf,                   \* the area of each compound
          Listed,                   \* compounds the page asks for: the first 60
          Distances,                \* SEA_DISTANCES
          Units,                    \* units there may be, with what filters look at
          Arrivals,                 \* queries of the addresses guests come with
          NoFilter,                 \* "", of a filter
          NoAddress,                \* no navigation under way
          MaxSleeps,                \* the stepper's max
          PageSize,                 \* PAGE_SIZE
          MaxChanges                \* bound: changes of the catalogue

ASSUME SearchAssumption ==
  /\ AreaOf \in [Compounds -> Areas] /\ Listed \subseteq Compounds
  /\ Distances \subseteq Nat \ {0}
  /\ Units \subseteq [compound : Compounds, kind : Kinds, sleeps : Nat, distance : Nat]
  /\ IsFiniteSet(Units)
  /\ NoFilter \notin Areas \cup Compounds \cup Kinds
  /\ MaxSleeps \in Nat /\ PageSize \in Nat \ {0} /\ MaxChanges \in Nat

VARIABLES filters,   \* the filters of the page on show
          shown,     \* its results: how many of how many, of which catalogue
          address,   \* the query of the page that is fetched
          catalogue, \* the units on offer
          past,      \* catalogues there have been, which answers may be of
          pager,     \* the fetch is the pager's: the catalogue it was drawn for
          came,      \* history: the filters of the address the guest came with
          outrun     \* history: the page number came with that address, or is
                     \* of a pager that was drawn for another catalogue

searchvars == << filters, shown, address, catalogue, past, pager, came, outrun >>

Keys == { "area", "compound", "kind", "guests", "distance", "page" }
NoFilters == [area |-> NoFilter, compound |-> NoFilter, kind |-> NoFilter,
              guests |-> 0, distance |-> 0, page |-> 1]

-----------------------------------------------------------------------------
(* The filters and their address.                                          *)

\* A query has the filters that are set, and the page after the first.
filtersToQuery(f) == [k \in { j \in Keys : f[j] # NoFilters[j] } |-> f[k]]

\* oneOf knows what a kind may be; first takes any slug, positive any number.
parseSearchParams(q) ==
  LET given(k, allowed) == IF k \in DOMAIN q /\ q[k] \in allowed THEN q[k] ELSE NoFilters[k]
      slug(k) == IF k \in DOMAIN q THEN q[k] ELSE NoFilter
  IN [area |-> slug("area"), compound |-> slug("compound"), kind |-> given("kind", Kinds),
      guests |-> given("guests", Nat \ {0}), distance |-> given("distance", Nat \ {0}),
      page |-> given("page", Nat \ {0})]

activeFilterCount(f) ==
  Cardinality({ k \in Keys \ {"page"} : f[k] # NoFilters[k] })

\* searchUnits: the units a query asks for, and those of one page of them.
Matching(f, units) ==
  { u \in units : /\ f.area \in { NoFilter, AreaOf[u.compound] }
                  /\ f.compound \in { NoFilter, u.compound }
                  /\ f.kind \in { NoFilter, u.kind }
                  /\ u.sleeps >= f.guests
                  /\ f.distance = 0 \/ u.distance <= f.distance }
ItemsOn(total, page) ==
  LET left == total - (page - 1) * PageSize
  IN IF left < 0 THEN 0 ELSE IF left > PageSize THEN PageSize ELSE left
Answer(f, units) ==
  LET total == Cardinality(Matching(f, units))
  IN [items |-> ItemsOn(total, f.page), total |-> total, of |-> units]

\* pageWindow: how many pages, the next and the one before.
Pages(total) == IF total = 0 THEN 1 ELSE (total + PageSize - 1) \div PageSize
PageWindow == { p \in { filters.page - 1, filters.page + 1 } : p \in 1 .. Pages(shown.total) }

-----------------------------------------------------------------------------
(* The controls.                                                           *)
Navigate(q, drawn) ==
  /\ address' = q /\ pager' = drawn
  /\ UNCHANGED << filters, shown, catalogue, past, came, outrun >>

\* apply: the filters on show with the change, from the first page.
apply_KeepsThePage(f) == Navigate(filtersToQuery(f), {})
apply(f) == Navigate(filtersToQuery([f EXCEPT !.page = 1]), {})

\* areaCompounds: what the compounds' select offers.
areaCompounds(f) == { c \in Listed : f.area \in { NoFilter, AreaOf[c] } }

\* What the controls show: a select reads "any" when its value is no option.
Visible(f) ==
  [f EXCEPT !.area     = IF @ \in Areas THEN @ ELSE NoFilter,
            !.compound = IF @ \in areaCompounds(f) THEN @ ELSE NoFilter,
            !.distance = IF @ \in Distances THEN @ ELSE 0]

\* A select answers when another option is chosen than the one it shows.
chooseArea(a) ==
  /\ a # Visible(filters).area
  /\ apply([filters EXCEPT !.area = a, !.compound = NoFilter])

chooseCompound(c) ==
  /\ c \in areaCompounds(filters) \cup {NoFilter} /\ c # Visible(filters).compound
  /\ apply([filters EXCEPT !.compound = c])

chooseDistance(d) ==
  /\ d # Visible(filters).distance
  /\ apply([filters EXCEPT !.distance = d])

chips(k) ==
  /\ k # filters.kind
  /\ apply([filters EXCEPT !.kind = k])

\* Any number can come down, and go up below the stepper's max.
Stepper(n) ==
  /\ \/ n = filters.guests - 1 /\ filters.guests > 0
     \/ n = filters.guests + 1 /\ filters.guests < MaxSleeps
  /\ apply([filters EXCEPT !.guests = n])

\* The pager is drawn where there are results, and more than a page of them.
turnPage(p) ==
  /\ shown.items > 0 /\ p \in PageWindow
  /\ Navigate(filtersToQuery([filters EXCEPT !.page = p]), {shown.of})

clearFilters ==
  /\ shown.items = 0 /\ activeFilterCount(filters) > 0
  /\ Navigate(filtersToQuery(NoFilters), {})

-----------------------------------------------------------------------------
\* The page fetched last comes, with an answer that may have been kept.
SearchPage ==
  /\ address # NoAddress
  /\ filters' = parseSearchParams(address) /\ address' = NoAddress
  /\ \E units \in past : /\ shown' = Answer(filters', units)
                         /\ outrun' = (pager # {} /\ units \notin pager)
  /\ pager' = {}
  /\ UNCHANGED << catalogue, past, came >>

\* Admins put a unit on offer or take it off.
CatalogueChanges(u) ==
  /\ Cardinality(past) <= MaxChanges
  /\ catalogue' = IF u \in catalogue THEN catalogue \ {u} ELSE catalogue \cup {u}
  /\ past' = past \cup {catalogue'}
  /\ UNCHANGED << filters, shown, address, pager, came, outrun >>

\* A guest comes: from the home page's form, by a link, a bookmark, Back or a
\* reload, with whatever the address says.
SearchInit ==
  /\ catalogue \in SUBSET Units /\ past = {catalogue}
  /\ \E q \in Arrivals : filters = parseSearchParams(q)
  /\ shown = Answer(filters, catalogue)
  /\ address = NoAddress /\ pager = {}
  /\ came = filters /\ outrun = (filters.page # 1)

SearchNext ==
  \/ \E a \in Areas \cup {NoFilter} : chooseArea(a)
  \/ \E c \in Listed \cup {NoFilter} : chooseCompound(c)
  \/ \E d \in Distances \cup {0} : chooseDistance(d)
  \/ \E k \in Kinds \cup {NoFilter} : chips(k)
  \/ \E n \in { filters.guests - 1, filters.guests + 1 } : Stepper(n)
  \/ \E p \in PageWindow : turnPage(p)
  \/ clearFilters \/ SearchPage
  \/ \E u \in Units : CatalogueChanges(u)

SearchSpec == SearchInit /\ [][SearchNext]_searchvars

-----------------------------------------------------------------------------
(* Properties.                                                             *)

\* What narrows the results unseen came that way with the guest's address: no
\* choice at the controls ever hides a filter (of an area left, say, a compound)
\* or brings one.  And a guest who sees no results sees the reason: nothing
\* matched the filters, and if there are units at all, the link that clears the
\* filters is there.  No choice leads to a page past the last one; only the
\* pager can, when the catalogue shrinks, and the address the guest came with,
\* of which neither the page number nor the slugs are checked.
EmptyMeansNone ==
  /\ \A k \in Keys : filters[k] # Visible(filters)[k] => filters[k] = came[k]
  /\ shown.items = 0 /\ ~outrun =>
       /\ Matching(filters, shown.of) = {}
       /\ shown.of # {} => activeFilterCount(filters) > 0
=============================================================================
