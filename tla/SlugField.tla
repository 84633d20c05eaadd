----------------------------- MODULE SlugField ------------------------------
(***************************************************************************)
(* The slug of a record's form, slug-field.tsx: filled from the English    *)
(* name, made a slug when it is left, and looked up by a server action,    *)
(* slugTaken, whose answers come one after another while typing goes on.   *)
(***************************************************************************)
EXTENDS Sequences, Naturals

CONSTANTS Inputs,    \* what may be typed into either field
          Slugify,   \* the slug each makes
          NoText,     \* no text
          MaxChecks  \* bound: lookups under way

ASSUME SlugAssumption ==
  /\ NoText \in Inputs
  /\ Slugify \in [Inputs -> Inputs] /\ Slugify[NoText] = NoText
  /\ \A text \in Inputs : Slugify[Slugify[text]] = Slugify[text]
  /\ MaxChecks \in Nat \ {0}

VARIABLES name, slug,  \* what the two fields hold
          focus,       \* the field that is being edited
          status,      \* "idle", "checking" or "told", and
          about,       \* the slug it was told about
          checks,      \* slugs looked up, oldest first
          lost         \* history: the last lookup brought no answer

slugvars == << name, slug, focus, status, about, checks, lost >>

\* check: nothing to look up, or the status "checking" until the answer.
check(value) ==
  IF value = NoText
  THEN status' = "idle" /\ UNCHANGED checks
  ELSE /\ Len(checks) < MaxChecks
       /\ status' = "checking" /\ checks' = Append(checks, value)

enter(field) ==
  /\ focus = "none"
  /\ focus' = field
  /\ UNCHANGED << name, slug, status, about, checks, lost >>

typeInto(text) ==
  /\ focus # "none"
  /\ IF focus = "name" THEN name' = text /\ UNCHANGED slug
                       ELSE slug' = text /\ UNCHANGED name
  /\ UNCHANGED << focus, status, about, checks, lost >>

\* onBlur of the slug.
leaveSlug ==
  /\ focus = "slug"
  /\ focus' = "none"
  /\ slug' = Slugify[slug]
  /\ check(slug')
  /\ UNCHANGED << name, about, lost >>

\* fill, on the name's blur.
fill_Unchecked ==
  /\ slug' = IF slug = NoText THEN Slugify[name] ELSE slug
  /\ UNCHANGED << status, checks >>

fill ==
  IF slug # NoText
  THEN UNCHANGED << slug, status, checks >>
  ELSE slug' = Slugify[name] /\ check(slug')

leaveName ==
  /\ focus = "name"
  /\ focus' = "none"
  /\ fill
  /\ UNCHANGED << name, about, lost >>

\* "taken" or "free", as the answer goes.
slugTaken ==
  /\ checks # << >>
  /\ status' = "told" /\ about' = checks[1] /\ checks' = Tail(checks)
  /\ lost' = FALSE
  /\ UNCHANGED << name, slug, focus >>

\* adminGet throws: nobody catches it, and the status stays.
LookupFails ==
  /\ checks # << >>
  /\ checks' = Tail(checks) /\ lost' = TRUE
  /\ UNCHANGED << name, slug, focus, status, about >>

\* A new record's form, and a stored one's.
SlugInit ==
  /\ name \in Inputs /\ slug \in { Slugify[text] : text \in Inputs }
  /\ focus = "none" /\ status = "idle" /\ about = NoText /\ checks = << >>
  /\ lost = FALSE

SlugNext ==
  \/ \E field \in { "name", "slug" } : enter(field)
  \/ \E text \in Inputs : typeInto(text)
  \/ leaveSlug \/ leaveName \/ slugTaken \/ LookupFails

SlugSpec == SlugInit /\ [][SlugNext]_slugvars

-----------------------------------------------------------------------------
(* Properties.                                                             *)

\* "Taken" and "free" are about the slug beside them once it has been left and
\* every answer is in, whatever was typed, filled in and looked up before.  Not
\* so after a lookup that failed, or when an answer comes to an emptied field.
ToldAboutThisSlug ==
  status = "told" /\ focus # "slug" /\ checks = << >> /\ ~lost => slug \in { about, NoText }
=============================================================================
