----------------------------- MODULE MCScreens ------------------------------
(***************************************************************************)
(* Screens of the web for TLC, in one run: a record's form, its slug, the  *)
(* photos below it, a list's filters, the list of bookings, and the guests'*)
(* search.  They share no state but what UnitEditor's Rerender stands for, *)
(* so a behaviour is one of one screen and leaves the others as they began.*)
(***************************************************************************)
EXTENDS UnitEditor, SlugField, UnitImages, ListFilters, PublicSearch, MCBookingsList

VARIABLE screen

CONSTANTS sea, pool, title, emoji, draft, live, north, south,
          marina, reef, lagoon, villa, gone

TwoTexts == {sea, pool}
TwoOptions == {draft, live}

\* Two slugs, a name that makes one of them and a name that makes none.
FourInputs == {sea, pool, title, emoji, NoText}
SlugOf == [text \in FourInputs |->
             IF text = title THEN sea ELSE IF text = emoji THEN NoText ELSE text]

\* The second compound of the north comes after the page's 60.
TwoAreas == {north, south}
ThreeCompounds == {marina, reef, lagoon}
TwoListed == {marina, lagoon}
OneKind == {villa}
WhichArea == [c \in ThreeCompounds |-> IF c = lagoon THEN south ELSE north]
OneDistance == {1}
ThreeUnits == { [compound |-> marina, kind |-> villa, sleeps |-> 1, distance |-> 1],
                [compound |-> reef, kind |-> villa, sleeps |-> 1, distance |-> 3],
                [compound |-> lagoon, kind |-> villa, sleeps |-> 0, distance |-> 2] }

\* Addresses of the site's own, and of others: another area's compound, one the
\* page does not list, slugs of nothing, a distance no option has, more guests
\* than the stepper's max, no kind, and pages past the first.
Addresses ==
  { << >>, [area |-> north, compound |-> marina],
    [area |-> south, compound |-> marina], [compound |-> reef, page |-> 2],
    [area |-> gone, guests |-> 2], [distance |-> 2, kind |-> gone, page |-> 0],
    [page |-> 3] }

\* Bound: the preview, which only looks, is closed when the last image comes.
FewPreviews == ids' = MaxImages => preview' = 0

ScreensInit ==
  /\ screen \in { "form", "slug", "photos", "list", "search", "bookings" }
  /\ EditorInit /\ (screen # "form" => page = "form")
  /\ SlugInit /\ (screen # "slug" => name = NoText /\ slug = NoText)
  /\ ImagesInit /\ (screen # "photos" => ids = 0)
  /\ FiltersInit /\ (screen # "list" => params = NoQuery)
  /\ SearchInit /\ (screen # "search" => catalogue = {} /\ filters = NoFilters /\ ~outrun)
  /\ ListInit /\ (screen # "bookings" => DOMAIN state = {})

ScreensNext ==
  /\ UNCHANGED screen
  /\ \/ /\ screen = "form" /\ EditorNext
        /\ UNCHANGED << slugvars, imagevars, filtervars, searchvars, listvars >>
     \/ /\ screen = "slug" /\ SlugNext
        /\ UNCHANGED << editorvars, imagevars, filtervars, searchvars, listvars >>
     \/ /\ screen = "photos" /\ ImagesNext /\ FewPreviews
        /\ UNCHANGED << editorvars, slugvars, filtervars, searchvars, listvars >>
     \/ /\ screen = "list" /\ FiltersNext
        /\ UNCHANGED << editorvars, slugvars, imagevars, searchvars, listvars >>
     \/ /\ screen = "search" /\ SearchNext
        /\ UNCHANGED << editorvars, slugvars, imagevars, filtervars, listvars >>
     \/ /\ screen = "bookings" /\ ListNext
        /\ UNCHANGED << editorvars, slugvars, imagevars, filtervars, searchvars >>

ScreensSpec ==
  /\ ScreensInit
  /\ [][ScreensNext]_<< editorvars, slugvars, imagevars, filtervars, searchvars, listvars, screen >>
  /\ FiltersFairness
=============================================================================
