--------------------------- MODULE ScreensProofs ----------------------------
(***************************************************************************)
(* The small screens: the slug field, the guests' search, a unit's photos  *)
(* and the list of bookings, for any inputs, units, images and bookings.   *)
(***************************************************************************)
EXTENDS SlugField, PublicSearch, BookingsList, FiniteSetTheorems, TLAPS

-----------------------------------------------------------------------------
(* The slug field.                                                         *)

\* Unless the slug is being edited, the lookup that was asked for last is of it.
SlugInv ==
  /\ name \in Inputs /\ slug \in Inputs /\ checks \in Seq(Inputs)
  /\ focus \in { "none", "name", "slug" }
  /\ focus # "slug" /\ checks # << >> => slug \in { checks[Len(checks)], NoText }
  /\ ToldAboutThisSlug

\* A slug that was left is looked up, or is none.
LEMMA LookedUp ==
  ASSUME SlugInv, slug' \in Inputs, check(slug'), name' \in Inputs, lost' = lost, about' = about,
         focus' = "none"
  PROVE  SlugInv'
  <1>1. CASE slug' = NoText
    BY <1>1 DEF check, SlugInv, ToldAboutThisSlug
  <1>2. CASE slug' # NoText
    <2>1. checks' = Append(checks, slug') /\ status' = "checking" /\ checks \in Seq(Inputs)
      BY <1>2 DEF check, SlugInv
    <2>2. checks' \in Seq(Inputs) /\ checks'[Len(checks')] = slug'
      BY <2>1
    <2> QED BY <2>1, <2>2 DEF SlugInv, ToldAboutThisSlug
  <1> QED BY <1>1, <1>2

\* What is left of a queue ends as the queue does.
LEMMA LastOfTail ==
  ASSUME NEW S, NEW q \in Seq(S), q # << >>, Tail(q) # << >>
  PROVE  Tail(q)[Len(Tail(q))] = q[Len(q)]
  <1>1. Len(q) \in Nat \ {0} /\ Tail(q) \in Seq(S) /\ Len(Tail(q)) = Len(q) - 1
    OBVIOUS
  <1>2. Len(Tail(q)) # 0
    BY <1>1
  <1>3. \A i \in 1 .. Len(q) - 1 : Tail(q)[i] = q[i + 1]
    OBVIOUS
  <1> QED BY <1>1, <1>2, <1>3

\* Every step keeps the invariant.
LEMMA SlugStep_Inv == SlugInv /\ [SlugNext]_slugvars => SlugInv'
  <1> SUFFICES ASSUME SlugInv, [SlugNext]_slugvars PROVE SlugInv'
    OBVIOUS
  <1> USE SlugAssumption
  <1>1. ASSUME NEW field \in { "name", "slug" }, enter(field) PROVE SlugInv'
    <2>1. focus = "none" /\ UNCHANGED << name, slug, status, about, checks, lost >>
      BY <1>1 DEF enter
    <2>2. name' \in Inputs /\ slug' \in Inputs /\ checks' \in Seq(Inputs)
      BY <2>1 DEF SlugInv
    <2>3. focus' # "slug" /\ checks' # << >> => slug' \in { checks'[Len(checks')], NoText }
      BY <2>1 DEF SlugInv
    <2>4. ToldAboutThisSlug'
      BY <2>1 DEF SlugInv, ToldAboutThisSlug
    <2>5. focus' \in { "none", "name", "slug" }
      BY <1>1 DEF enter
    <2> QED BY <2>2, <2>3, <2>4, <2>5 DEF SlugInv
  <1>2. ASSUME NEW text \in Inputs, typeInto(text) PROVE SlugInv'
    <2>1. UNCHANGED << focus, status, about, checks, lost >>
      BY <1>2 DEF typeInto
    <2>2. CASE focus = "name"
      <3>1. name' = text /\ slug' = slug
        BY <1>2, <2>2 DEF typeInto
      <3>2. name' \in Inputs /\ slug' \in Inputs /\ checks' \in Seq(Inputs)
        BY <1>2, <2>1, <3>1 DEF SlugInv
      <3>3. focus' # "slug" /\ checks' # << >> => slug' \in { checks'[Len(checks')], NoText }
        BY <2>1, <3>1 DEF SlugInv
      <3>4. ToldAboutThisSlug'
        BY <2>1, <3>1 DEF SlugInv, ToldAboutThisSlug
      <3> QED BY <2>1, <3>2, <3>3, <3>4 DEF SlugInv
    <2>3. CASE focus # "name"
      <3>1. focus' = "slug" /\ slug' = text /\ name' = name
        BY <1>2, <2>1, <2>3 DEF typeInto, SlugInv
      <3>2. name' \in Inputs /\ slug' \in Inputs /\ checks' \in Seq(Inputs)
        BY <1>2, <2>1, <3>1 DEF SlugInv
      <3> QED BY <3>1, <3>2 DEF SlugInv, ToldAboutThisSlug
    <2> QED BY <2>2, <2>3
  <1>3. CASE leaveSlug
    <2>1. slug' \in Inputs /\ name' \in Inputs
      BY <1>3 DEF leaveSlug, SlugInv
    <2> QED BY <1>3, <2>1, LookedUp DEF leaveSlug
  <1>4. CASE leaveName
    <2>1. CASE slug # NoText
      BY <1>4, <2>1 DEF leaveName, fill, SlugInv, ToldAboutThisSlug
    <2>2. CASE slug = NoText
      <3>1. slug' \in Inputs /\ name' \in Inputs
        BY <1>4, <2>2 DEF leaveName, fill, SlugInv
      <3> QED BY <1>4, <2>2, <3>1, LookedUp DEF leaveName, fill
    <2> QED BY <2>1, <2>2
  <1>5. CASE slugTaken \/ LookupFails
    <2>1. /\ checks # << >> /\ checks' = Tail(checks) /\ UNCHANGED << name, slug, focus >>
          /\ checks \in Seq(Inputs)
      BY <1>5 DEF slugTaken, LookupFails, SlugInv
    <2>2. checks' \in Seq(Inputs)
      BY <2>1
    <2>3. CASE checks' # << >>
      <3>1. checks'[Len(checks')] = checks[Len(checks)]
        BY <2>1, <2>3, LastOfTail
      <3>2. focus' # "slug" => slug' \in { checks'[Len(checks')], NoText }
        <4>1. focus # "slug" => slug \in { checks[Len(checks)], NoText }
          BY <2>1 DEF SlugInv
        <4> QED BY <2>1, <3>1, <4>1
      <3>3. name' \in Inputs /\ slug' \in Inputs /\ focus' \in { "none", "name", "slug" }
        BY <2>1 DEF SlugInv
      <3>4. ToldAboutThisSlug'
        BY <2>3 DEF ToldAboutThisSlug
      <3> QED BY <2>2, <2>3, <3>2, <3>3, <3>4 DEF SlugInv
    <2>4. CASE checks' = << >>
      <3>1. checks[1] = checks[Len(checks)]
        <4>1. Len(Tail(checks)) = Len(checks) - 1 /\ Len(checks) \in Nat
          BY <2>1
        <4>2. Len(Tail(checks)) = 0
          <5>1. \A q : q = << >> => Len(q) = 0
            OBVIOUS
          <5>2. Tail(checks) = << >>
            BY <2>1, <2>4
          <5> QED BY <5>1, <5>2
        <4> QED BY <4>1, <4>2
      <3>2. name' \in Inputs /\ slug' \in Inputs /\ focus' \in { "none", "name", "slug" }
        BY <2>1 DEF SlugInv
      <3>3. ToldAboutThisSlug'
        <4>1. focus # "slug" => slug \in { checks[1], NoText }
          BY <2>1, <3>1 DEF SlugInv
        <4>2. lost' \/ about' = checks[1]
          BY <1>5 DEF slugTaken, LookupFails
        <4> QED BY <2>1, <4>1, <4>2 DEF ToldAboutThisSlug
      <3> QED BY <2>2, <2>4, <3>2, <3>3 DEF SlugInv
    <2> QED BY <2>3, <2>4
  <1>6. CASE UNCHANGED slugvars
    BY <1>6 DEF slugvars, SlugInv, ToldAboutThisSlug
  <1> QED BY <1>1, <1>2, <1>3, <1>4, <1>5, <1>6 DEF SlugNext

\* "Taken" and "free" are said about the slug that stands beside them.
THEOREM ToldIsAboutTheSlug == SlugSpec => []ToldAboutThisSlug
  <1>1. SlugInit => SlugInv
    <2> SUFFICES ASSUME SlugInit PROVE SlugInv
      OBVIOUS
    <2>1. checks \in Seq(Inputs) /\ slug \in Inputs
      BY SlugAssumption DEF SlugInit
    <2> QED BY <2>1 DEF SlugInit, SlugInv, ToldAboutThisSlug
  <1>2. SlugInv => ToldAboutThisSlug
    BY DEF SlugInv
  <1> QED BY <1>1, <1>2, SlugStep_Inv, PTL DEF SlugSpec

-----------------------------------------------------------------------------
(* The list of bookings.                                                   *)

\* The rows on show are the API's answer to the filters on show, until a
\* booking moves.
ListedIsTrue ==
  ~moved /\ listed # NoList => listed = adminListBookings(Passed(chosen), FALSE)

\* The list's filters are those that the route of the file passes on.
LEMMA AllArePassedOn ==
  [key \in DOMAIN Passed(chosen) |-> IF key \in PASS THEN Passed(chosen)[key] ELSE NoChoice]
    = Passed(chosen)
  BY DEF Passed, PASS

\* The file goes on where the page stops.
THEOREM FilesAreTheList == ListSpec => FileIsTheList
  <1> DEFINE A == Export /\ ~moved => Latest(file') = listed
  <1>1. ListInit => ListedIsTrue
    <2>1. Passed(Unfiltered) = Unfiltered
      BY DEF Passed, Unfiltered
    <2> QED BY <2>1 DEF ListInit, ListedIsTrue
  <1>2. ListedIsTrue /\ [ListNext]_listvars => ListedIsTrue'
    <2> SUFFICES ASSUME ListedIsTrue, [ListNext]_listvars PROVE ListedIsTrue'
      OBVIOUS
    <2>1. CASE UNCHANGED << state, chosen, listed, moved >>
      BY <2>1 DEF ListedIsTrue, adminListBookings, Meets
    <2>2. CASE BookingsPage
      BY <2>2 DEF BookingsPage, ListedIsTrue, adminListBookings, Meets
    <2>3. CASE PageFails
      BY <2>3 DEF PageFails, ListedIsTrue
    <2>4. CASE moved' = TRUE
      BY <2>4 DEF ListedIsTrue
    <2> QED BY <2>1, <2>2, <2>3, <2>4 DEF ListNext, filterBy, clearFilterBar, LoadAgain, Export,
                                          BookingMade, BookingMoves, listvars
  <1>3. ListedIsTrue /\ [ListNext]_listvars => [A]_listvars
    <2> SUFFICES ASSUME ListedIsTrue, Export, ~moved PROVE Latest(file') = listed
      OBVIOUS
    <2>1. file' = adminListBookings(Passed(chosen), TRUE) /\ listed # NoList
      BY AllArePassedOn DEF Export
    <2> QED BY <2>1 DEF ListedIsTrue, adminListBookings
  <1> QED BY <1>1, <1>2, <1>3, PTL DEF ListSpec, FileIsTheList

-----------------------------------------------------------------------------
(* The guests' search.                                                     *)

\* Filters that parseSearchParams may return: any slug of an area or compound,
\* any positive number.
Sound(f) ==
  /\ f = [area |-> f.area, compound |-> f.compound, kind |-> f.kind,
          guests |-> f.guests, distance |-> f.distance, page |-> f.page]
  /\ f.kind \in Kinds \cup {NoFilter} /\ f.guests \in Nat /\ f.distance \in Nat
  /\ f.page \in Nat \ {0}

\* What no control shows of filters came with the guest's address.
UnseenCame(f) == \A k \in Keys : f[k] # Visible(f)[k] => f[k] = came[k]

\* The page a query asks for is the first, or was there when the pager was drawn.
PageWasThere(f, drawn) ==
  \/ f.page = 1
  \/ \E units \in SUBSET Units :
       drawn = {units} /\ f.page \in 1 .. Pages(Cardinality(Matching(f, units)))

\* What is fetched is the query of such filters, and what is shown answers them.
SearchInv ==
  /\ Sound(filters)
  /\ catalogue \in SUBSET Units /\ past \subseteq SUBSET Units
  /\ shown.of \in SUBSET Units /\ shown = Answer(filters, shown.of)
  /\ address # NoAddress =>
       \E f : /\ Sound(f) /\ UnseenCame(f)
              /\ address = filtersToQuery(f) /\ PageWasThere(f, pager)
  /\ EmptyMeansNone

\* A query gives back the filters it was made of.
LEMMA QueryIsTheFilters ==
  ASSUME NEW f, Sound(f)
  PROVE  parseSearchParams(filtersToQuery(f)) = f
  <1> DEFINE q == filtersToQuery(f)
  <1>1. DOMAIN q = { j \in Keys : f[j] # NoFilters[j] } /\ \A k \in DOMAIN q : q[k] = f[k]
    BY DEF filtersToQuery
  <1> HIDE DEF q
  <1>2. /\ "area" \in DOMAIN q <=> f.area # NoFilter
        /\ "compound" \in DOMAIN q <=> f.compound # NoFilter
        /\ "kind" \in DOMAIN q <=> f.kind # NoFilter
        /\ "guests" \in DOMAIN q <=> f.guests # 0
        /\ "distance" \in DOMAIN q <=> f.distance # 0
        /\ "page" \in DOMAIN q <=> f.page # 1
    BY <1>1 DEF Keys, NoFilters
  <1>3. parseSearchParams(q).area = f.area
    BY <1>1, <1>2 DEF parseSearchParams
  <1>4. parseSearchParams(q).compound = f.compound
    BY <1>1, <1>2 DEF parseSearchParams
  <1>5. parseSearchParams(q).kind = f.kind
    BY <1>1, <1>2 DEF parseSearchParams, Sound, NoFilters
  <1>6. parseSearchParams(q).guests = f.guests
    BY <1>1, <1>2 DEF parseSearchParams, Sound, NoFilters
  <1>10. parseSearchParams(q).distance = f.distance
    BY <1>1, <1>2 DEF parseSearchParams, Sound, NoFilters
  <1>7. parseSearchParams(q).page = f.page
    BY <1>1, <1>2 DEF parseSearchParams, Sound, NoFilters
  <1>8. parseSearchParams(q) = [area |-> parseSearchParams(q).area,
                                compound |-> parseSearchParams(q).compound,
                                kind |-> parseSearchParams(q).kind,
                                guests |-> parseSearchParams(q).guests,
                                distance |-> parseSearchParams(q).distance,
                                page |-> parseSearchParams(q).page]
    BY DEF parseSearchParams
  <1> HIDE DEF q
  <1>9. parseSearchParams(q) = f
    BY <1>3, <1>4, <1>5, <1>6, <1>7, <1>8, <1>10 DEF Sound
  <1> QED BY <1>9 DEF q

\* The filters that a control may not show are slugs and a distance.
LEMMA UnseenIs ==
  ASSUME NEW f, Sound(f)
  PROVE  UnseenCame(f) <=>
           /\ f.area \notin Areas \cup {NoFilter} => f.area = came.area
           /\ f.compound \notin areaCompounds(f) \cup {NoFilter} => f.compound = came.compound
           /\ f.distance \notin Distances \cup {0} => f.distance = came.distance
  <1> DEFINE v == Visible(f)
  <1>1. /\ v.area = IF f.area \in Areas THEN f.area ELSE NoFilter
        /\ v.compound = IF f.compound \in areaCompounds(f) THEN f.compound ELSE NoFilter
        /\ v.distance = IF f.distance \in Distances THEN f.distance ELSE 0
        /\ v.kind = f.kind /\ v.guests = f.guests /\ v.page = f.page
    <2>1. \A a, c, k, n, d, p, a2, c2, d2 :
             LET r == [[area |-> a, compound |-> c, kind |-> k, guests |-> n,
                        distance |-> d, page |-> p]
                         EXCEPT !.area = a2, !.compound = c2, !.distance = d2]
             IN /\ r.area = a2 /\ r.compound = c2 /\ r.distance = d2
                /\ r.kind = k /\ r.guests = n /\ r.page = p
      OBVIOUS
    <2> QED BY <2>1 DEF Visible, Sound
  <1> HIDE DEF v
  <1>2. UnseenCame(f) <=> \A k \in Keys : f[k] # v[k] => f[k] = came[k]
    BY DEF UnseenCame, v
  <1> QED BY <1>1, <1>2 DEF Keys

\* Of units there may be, what matches can be counted, whatever the page.
LEMMA MatchingCounted ==
  ASSUME NEW f, NEW units \in SUBSET Units
  PROVE  /\ Cardinality(Matching(f, units)) \in Nat
         /\ Cardinality(Matching(f, units)) = 0 => Matching(f, units) = {}
  <1>1. Matching(f, units) \subseteq Units
    BY DEF Matching
  <1>2. IsFiniteSet(Matching(f, units))
    <2>1. IsFiniteSet(Units)
      BY SearchAssumption
    <2> QED BY <1>1, <2>1, FS_Subset
  <1> QED BY <1>2, FS_CardinalityType, FS_EmptySet

\* A page that is there has something on it.
LEMMA PagesAreNotEmpty ==
  ASSUME NEW total \in Nat, NEW page \in 1 .. Pages(total), ItemsOn(total, page) = 0
  PROVE  total = 0
  <1> SUFFICES ASSUME total # 0 PROVE FALSE
    OBVIOUS
  <1> DEFINE q == (total + PageSize - 1) \div PageSize
  <1>1. PageSize \in Nat /\ PageSize > 0 /\ page \in Nat /\ page >= 1
    BY SearchAssumption DEF Pages
  <1>2. q \in Nat /\ q * PageSize <= total + PageSize - 1 /\ page <= q
    BY <1>1 DEF Pages
  <1> HIDE DEF q
  <1>3. page * PageSize <= q * PageSize
    BY <1>1, <1>2
  <1>4. (page - 1) * PageSize = page * PageSize - PageSize /\ page * PageSize \in Nat
    BY <1>1
  <1>5. total - (page - 1) * PageSize >= 1
    BY <1>1, <1>2, <1>3, <1>4
  <1> QED BY <1>1, <1>5 DEF ItemsOn

\* The first page is empty only when nothing matches.
LEMMA FirstPageIsNotEmpty ==
  ASSUME NEW total \in Nat, ItemsOn(total, 1) = 0
  PROVE  total = 0
  <1>1. (1 - 1) * PageSize = 0 /\ PageSize > 0
    BY SearchAssumption
  <1> QED BY <1>1, SearchAssumption DEF ItemsOn

\* What an answer says.
LEMMA AnswerIs ==
  ASSUME NEW f, NEW units
  PROVE  /\ Answer(f, units).items = ItemsOn(Cardinality(Matching(f, units)), f.page)
         /\ Answer(f, units).total = Cardinality(Matching(f, units))
         /\ Answer(f, units).of = units
  <1>1. \A i, t : LET a == [items |-> i, total |-> t, of |-> units]
                 IN a.items = i /\ a.total = t /\ a.of = units
    OBVIOUS
  <1> QED BY <1>1 DEF Answer

\* Without a filter that narrows everything matches.
LEMMA UnfilteredMatches ==
  ASSUME NEW f, Sound(f), NEW units \in SUBSET Units, ~(activeFilterCount(f) > 0)
  PROVE  Matching(f, units) = units
  <1> DEFINE active == { k \in Keys \ {"page"} : f[k] # NoFilters[k] }
  <1>1. active = {}
    <2>1. IsFiniteSet(Keys)
      <3>1. Keys = {"area"} \cup {"compound"} \cup {"kind"} \cup {"guests"}
                     \cup {"distance"} \cup {"page"}
        BY DEF Keys
      <3> QED BY <3>1, FS_Singleton, FS_Union
    <2>2. IsFiniteSet(active)
      BY <2>1, FS_Subset
    <2>3. Cardinality(active) \in Nat /\ ~(Cardinality(active) > 0)
      BY <2>2, FS_CardinalityType DEF activeFilterCount
    <2> QED BY <2>2, <2>3, FS_EmptySet
  <1>2. /\ f.area = NoFilter /\ f.compound = NoFilter /\ f.kind = NoFilter
        /\ f.guests = 0 /\ f.distance = 0
    BY <1>1 DEF Keys, NoFilters
  <1>3. \A u \in units : u.sleeps >= 0
    BY SearchAssumption
  <1> QED BY <1>2, <1>3 DEF Matching

\* An answer to filters of this kind, of a page that was there, is empty only
\* when nothing matches them.
LEMMA EmptyAnswer ==
  ASSUME NEW f, Sound(f), NEW units \in SUBSET Units, NEW drawn, PageWasThere(f, drawn),
         drawn = {} \/ units \in drawn, Answer(f, units).items = 0
  PROVE  /\ Matching(f, units) = {}
         /\ units # {} => activeFilterCount(f) > 0
  <1> DEFINE total == Cardinality(Matching(f, units))
  <1>1. total \in Nat
    BY MatchingCounted
  <1>4. ItemsOn(total, f.page) = 0
    BY AnswerIs
  <1>2. f.page = 1 \/ f.page \in 1 .. Pages(total)
    BY DEF PageWasThere
  <1> HIDE DEF total
  <1>3. total = 0
    BY <1>1, <1>2, <1>4, PagesAreNotEmpty, FirstPageIsNotEmpty
  <1>5. Matching(f, units) = {}
    BY <1>3, MatchingCounted DEF total
  <1> QED BY <1>5, UnfilteredMatches

\* A query that a control asks for.
LEMMA NavigateKeeps ==
  ASSUME SearchInv, NEW f, NEW drawn, Sound(f), UnseenCame(f), PageWasThere(f, drawn),
         Navigate(filtersToQuery(f), drawn)
  PROVE  SearchInv'
  <1>1. /\ address' = filtersToQuery(f) /\ pager' = drawn
        /\ UNCHANGED << filters, shown, catalogue, past, came, outrun >>
    BY DEF Navigate
  <1>6. (UnseenCame(f))'
    BY <1>1 DEF UnseenCame
  <1>2. \E g : /\ Sound(g) /\ (UnseenCame(g))'
               /\ address' = filtersToQuery(g) /\ PageWasThere(g, pager')
    BY <1>1, <1>6
  <1>3. EmptyMeansNone'
    BY <1>1 DEF SearchInv, EmptyMeansNone
  <1>4. Sound(filters') /\ catalogue' \in SUBSET Units /\ past' \subseteq SUBSET Units
    BY <1>1 DEF SearchInv
  <1>5. shown'.of \in SUBSET Units /\ shown' = Answer(filters', shown'.of)
    BY <1>1 DEF SearchInv
  <1> QED BY <1>2, <1>3, <1>4, <1>5 DEF SearchInv

\* A choice leads to the first page of its results.
LEMMA ApplyKeeps ==
  ASSUME SearchInv, NEW f, Sound(f), UnseenCame(f), apply(f)
  PROVE  SearchInv'
  <1> DEFINE g == [f EXCEPT !.page = 1]
  <1>1. g = [area |-> f.area, compound |-> f.compound, kind |-> f.kind,
             guests |-> f.guests, distance |-> f.distance, page |-> 1]
    BY DEF Sound
  <1>2. Navigate(filtersToQuery(g), {})
    BY DEF apply
  <1> HIDE DEF g
  <1>3. /\ g.area = f.area /\ g.compound = f.compound /\ g.distance = f.distance
        /\ areaCompounds(g) = areaCompounds(f)
    BY <1>1 DEF areaCompounds
  <1>4. Sound(g) /\ PageWasThere(g, {})
    BY <1>1 DEF Sound, PageWasThere
  <1>5. UnseenCame(g)
    BY <1>3, <1>4, UnseenIs
  <1> QED BY <1>2, <1>4, <1>5, NavigateKeeps

\* Filters with other values in some fields.
LEMMA Changed ==
  ASSUME SearchInv, NEW a, NEW c, NEW k \in Kinds \cup {NoFilter}, NEW n \in Nat,
         NEW d \in Nat, NEW p \in Nat \ {0}, NEW f,
         f = [area |-> a, compound |-> c, kind |-> k, guests |-> n, distance |-> d, page |-> p],
         a = filters.area \/ a \in Areas \cup {NoFilter},
         (a = filters.area /\ c = filters.compound) \/ c \in areaCompounds(f) \cup {NoFilter},
         d = filters.distance \/ d \in Distances \cup {0}
  PROVE  Sound(f) /\ UnseenCame(f)
  <1>1. /\ f.area = a /\ f.compound = c /\ f.kind = k
        /\ f.guests = n /\ f.distance = d /\ f.page = p
    OBVIOUS
  <1>2. Sound(f)
    BY <1>1 DEF Sound
  <1>3. Sound(filters) /\ UnseenCame(filters)
    BY DEF SearchInv, EmptyMeansNone, UnseenCame
  <1>4. /\ filters.area \notin Areas \cup {NoFilter} => filters.area = came.area
        /\ filters.compound \notin areaCompounds(filters) \cup {NoFilter}
             => filters.compound = came.compound
        /\ filters.distance \notin Distances \cup {0} => filters.distance = came.distance
    BY <1>3, UnseenIs
  <1>5. a = filters.area => areaCompounds(f) = areaCompounds(filters)
    BY <1>1 DEF areaCompounds
  <1>6. UnseenCame(f)
    BY <1>1, <1>2, <1>4, <1>5, UnseenIs
  <1> QED BY <1>2, <1>6

\* Every step keeps the invariant.
LEMMA SearchStep_Inv ==
  ASSUME SearchInv, [SearchNext]_searchvars
  PROVE  SearchInv'
  <1>0. Sound(filters)
    BY DEF SearchInv
  <1>T. /\ filters.kind \in Kinds \cup {NoFilter} /\ filters.guests \in Nat
        /\ filters.distance \in Nat /\ filters.page \in Nat \ {0}
    BY <1>0 DEF Sound
  <1> DEFINE Of(a, c, k, n, d, p) ==
        [area |-> a, compound |-> c, kind |-> k, guests |-> n, distance |-> d, page |-> p]
  <1>D. filters = Of(filters.area, filters.compound, filters.kind, filters.guests,
                     filters.distance, filters.page)
    BY <1>0 DEF Sound
  <1>1. ASSUME NEW a \in Areas \cup {NoFilter}, chooseArea(a) PROVE SearchInv'
    <2> DEFINE f == [filters EXCEPT !.area = a, !.compound = NoFilter]
    <2>1. f = Of(a, NoFilter, filters.kind, filters.guests, filters.distance, filters.page)
      <3>1. DOMAIN filters = Keys
        BY <1>D DEF Keys
      <3>2. /\ f.area = a /\ f.compound = NoFilter /\ f.kind = filters.kind
            /\ f.guests = filters.guests /\ f.distance = filters.distance
            /\ f.page = filters.page
        BY <3>1 DEF Keys
      <3>3. f = [k \in Keys |-> f[k]]
        BY <3>1
      <3> HIDE DEF f
      <3> QED BY <3>2, <3>3 DEF Keys
    <2>2. apply(f)
      BY <1>1 DEF chooseArea
    <2> HIDE DEF f
    <2>3. Sound(f) /\ UnseenCame(f)
      BY <1>T, <2>1, Changed
    <2> QED BY <2>2, <2>3, ApplyKeeps
  <1>2. ASSUME NEW c, chooseCompound(c) PROVE SearchInv'
    <2> DEFINE f == [filters EXCEPT !.compound = c]
    <2>1. f = Of(filters.area, c, filters.kind, filters.guests, filters.distance, filters.page)
      BY <1>D
    <2>2. apply(f) /\ c \in areaCompounds(filters) \cup {NoFilter}
      BY <1>2 DEF chooseCompound
    <2> HIDE DEF f
    <2>3. areaCompounds(f) = areaCompounds(filters)
      BY <2>1 DEF areaCompounds
    <2>4. Sound(f) /\ UnseenCame(f)
      BY <1>T, <2>1, <2>2, <2>3, Changed
    <2> QED BY <2>2, <2>4, ApplyKeeps
  <1>11. ASSUME NEW d \in Distances \cup {0}, chooseDistance(d) PROVE SearchInv'
    <2> DEFINE f == [filters EXCEPT !.distance = d]
    <2>1. f = Of(filters.area, filters.compound, filters.kind, filters.guests, d, filters.page)
      BY <1>D
    <2>2. apply(f)
      BY <1>11 DEF chooseDistance
    <2>3. d \in Nat
      BY SearchAssumption
    <2> HIDE DEF f
    <2>4. Sound(f) /\ UnseenCame(f)
      BY <1>T, <2>1, <2>3, Changed
    <2> QED BY <2>2, <2>4, ApplyKeeps
  <1>3. ASSUME NEW k \in Kinds \cup {NoFilter}, chips(k) PROVE SearchInv'
    <2> DEFINE f == [filters EXCEPT !.kind = k]
    <2>1. f = Of(filters.area, filters.compound, k, filters.guests, filters.distance, filters.page)
      BY <1>D
    <2>2. apply(f)
      BY <1>3 DEF chips
    <2> HIDE DEF f
    <2>3. Sound(f) /\ UnseenCame(f)
      BY <1>T, <2>1, Changed
    <2> QED BY <2>2, <2>3, ApplyKeeps
  <1>4. ASSUME NEW n, Stepper(n) PROVE SearchInv'
    <2> DEFINE f == [filters EXCEPT !.guests = n]
    <2>1. f = Of(filters.area, filters.compound, filters.kind, n, filters.distance, filters.page)
      BY <1>D
    <2>2. apply(f)
      BY <1>4 DEF Stepper
    <2>3. n \in Nat
      BY <1>4, <1>T DEF Stepper
    <2> HIDE DEF f
    <2>4. Sound(f) /\ UnseenCame(f)
      BY <1>T, <2>1, <2>3, Changed
    <2> QED BY <2>2, <2>4, ApplyKeeps
  <1>5. ASSUME NEW p \in PageWindow, turnPage(p) PROVE SearchInv'
    <2> DEFINE f == [filters EXCEPT !.page = p]
    <2>1. f = Of(filters.area, filters.compound, filters.kind, filters.guests,
                 filters.distance, p)
      BY <1>D
    <2>2. p \in 1 .. Pages(shown.total) /\ p \in Nat \ {0}
      BY <1>T DEF PageWindow
    <2>3. shown.total = Cardinality(Matching(filters, shown.of)) /\ shown.of \in SUBSET Units
      <3>1. shown = Answer(filters, shown.of) /\ shown.of \in SUBSET Units
        BY DEF SearchInv
      <3> QED BY <3>1, AnswerIs
    <2>4. Navigate(filtersToQuery(f), {shown.of})
      BY <1>5 DEF turnPage
    <2> HIDE DEF f
    <2>5. Sound(f) /\ UnseenCame(f)
      BY <1>T, <2>1, <2>2, Changed
    <2>6. Matching(f, shown.of) = Matching(filters, shown.of) /\ f.page = p
      BY <2>1 DEF Matching
    <2>7. PageWasThere(f, {shown.of})
      BY <2>2, <2>3, <2>6 DEF PageWasThere
    <2> QED BY <2>4, <2>5, <2>7, NavigateKeeps
  <1>6. CASE clearFilters
    <2>1. NoFilters = Of(NoFilter, NoFilter, NoFilter, 0, 0, 1)
      BY DEF NoFilters
    <2>2. Navigate(filtersToQuery(NoFilters), {})
      BY <1>6 DEF clearFilters
    <2>3. Sound(NoFilters) /\ UnseenCame(NoFilters)
      BY <2>1, Changed
    <2>4. PageWasThere(NoFilters, {})
      BY DEF NoFilters, PageWasThere
    <2> QED BY <2>2, <2>3, <2>4, NavigateKeeps
  <1>7. CASE SearchPage
    <2>1. PICK f : /\ Sound(f) /\ UnseenCame(f)
                   /\ address = filtersToQuery(f) /\ PageWasThere(f, pager)
      BY <1>7 DEF SearchPage, SearchInv
    <2>2. filters' = f /\ address' = NoAddress /\ UNCHANGED << catalogue, past, came >>
      BY <1>7, <2>1, QueryIsTheFilters DEF SearchPage
    <2>3. PICK units \in past : /\ shown' = Answer(f, units)
                                /\ outrun' = (pager # {} /\ units \notin pager)
      BY <1>7, <2>2 DEF SearchPage
    <2>4. units \in SUBSET Units /\ shown'.of = units
      BY <2>3 DEF SearchInv, Answer
    <2>5. EmptyMeansNone'
      <3>1. \A k \in Keys : f[k] # Visible(f)[k] => f[k] = came[k]
        BY <2>1 DEF UnseenCame
      <3>2. ASSUME Answer(f, units).items = 0, pager = {} \/ units \in pager
            PROVE  Matching(f, units) = {} /\ (units # {} => activeFilterCount(f) > 0)
        BY <2>1, <2>4, <3>2, EmptyAnswer
      <3> QED BY <2>2, <2>3, <2>4, <3>1, <3>2 DEF EmptyMeansNone
    <2> QED BY <2>1, <2>2, <2>3, <2>4, <2>5 DEF SearchInv
  <1>8. ASSUME NEW u \in Units, CatalogueChanges(u) PROVE SearchInv'
    <2>1. catalogue' \in SUBSET Units /\ past' = past \cup {catalogue'}
      BY <1>8 DEF CatalogueChanges, SearchInv
    <2>2. UNCHANGED << filters, shown, address, pager, came, outrun >>
      BY <1>8 DEF CatalogueChanges
    <2> QED BY <2>1, <2>2 DEF SearchInv, EmptyMeansNone, UnseenCame
  <1>9. CASE UNCHANGED searchvars
    BY <1>9 DEF searchvars, SearchInv, EmptyMeansNone, UnseenCame
  <1>10. ASSUME NEW c \in Listed \cup {NoFilter}, chooseCompound(c) PROVE SearchInv'
    BY <1>2, <1>10
  <1>12. ASSUME NEW n \in { filters.guests - 1, filters.guests + 1 }, Stepper(n) PROVE SearchInv'
    BY <1>4, <1>12
  <1> QED BY <1>1, <1>3, <1>12, <1>5, <1>6, <1>7, <1>8, <1>9, <1>10, <1>11 DEF SearchNext

\* No results: nothing matched the filters, and the link that clears them is
\* there; no filter is unseen but those that came so with the guest's address,
\* for any addresses, units, catalogues and page size.
THEOREM EmptyIsExplained == SearchSpec => []EmptyMeansNone
  <1>1. SearchInit => SearchInv
    <2> SUFFICES ASSUME SearchInit PROVE SearchInv
      OBVIOUS
    <2>1. PICK q \in Arrivals : filters = parseSearchParams(q)
      BY DEF SearchInit
    <2>2. Sound(filters)
      BY <2>1 DEF parseSearchParams, NoFilters, Sound
    <2>3. catalogue \in SUBSET Units /\ past \subseteq SUBSET Units
      BY DEF SearchInit
    <2>4. shown = Answer(filters, catalogue) /\ shown.of = catalogue
      BY DEF SearchInit, Answer
    <2>5. EmptyMeansNone
      <3>1. came = filters /\ outrun = (filters.page # 1)
        BY DEF SearchInit
      <3>2. ASSUME shown.items = 0, ~outrun
            PROVE  Matching(filters, catalogue) = {}
                   /\ (catalogue # {} => activeFilterCount(filters) > 0)
        <4>1. PageWasThere(filters, {})
          BY <3>1, <3>2 DEF PageWasThere
        <4> QED BY <2>2, <2>3, <2>4, <3>2, <4>1, EmptyAnswer
      <3> QED BY <2>4, <3>1, <3>2 DEF EmptyMeansNone
    <2>6. address = NoAddress
      BY DEF SearchInit
    <2> QED BY <2>2, <2>3, <2>4, <2>5, <2>6 DEF SearchInv
  <1>2. SearchInv => EmptyMeansNone
    BY DEF SearchInv
  <1> QED BY <1>1, <1>2, SearchStep_Inv, PTL DEF SearchSpec
=============================================================================
