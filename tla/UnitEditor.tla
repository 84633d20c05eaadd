----------------------------- MODULE UnitEditor -----------------------------
(***************************************************************************)
(* The dashboard's record forms in one browser tab: entity-form.tsx, the   *)
(* guard of unsaved-changes.tsx with the history entries it parks, saving, *)
(* deleting, signing in and out.  The unit's form stands for all of them:  *)
(* the other records' forms are the same component without images.         *)
(* Other admins save and delete the unit meanwhile; the session may end.   *)
(***************************************************************************)
EXTENDS Naturals, Sequences

CONSTANT MaxHistory   \* bound: entries of the tab's history

ASSUME EditorAssumption == MaxHistory \in Nat \ {0, 1}

VARIABLES page,       \* what the tab shows
          hist, pos,  \* its history: a page an entry, and the current one
          edits,      \* inputs changed and not discarded: "none", "sent" with a
                      \* save, or "typed" since
          localDirty, \* EntityForm's dirty
          guard,      \* dirtyForms is not empty
          asking,     \* the modal "Discard unsaved changes?", and
          go,         \* what it does when the admin agrees
          kept,       \* history: the admin discarded, and the form is still there,
                      \* neither mounted anew nor marked nor submitted since
          saving,     \* the form's action has not answered
          result,     \* the result modal
          deletion,   \* DeleteDialog: "closed", "open" or "running"
          next,       \* where the sign-in leads
          exists,     \* the API has the unit
          stale,      \* and its updated_at is not the one the form has for its key
          session     \* the cookie's token verifies

formvars == << edits, localDirty, kept, saving, deletion >>
guardvars == << guard, asking, go >>
where == << page, hist, pos >>
server == << exists, session >>
editorvars == << page, hist, pos, edits, localDirty, guard, asking, go, kept, saving,
                 result, deletion, next, exists, stale, session >>

Forms == { "new", "form" }
Dashboard == { "list" } \cup Forms
Page == Dashboard \cup { "login", "error", "missing" }

\* What a redirect may tell the result modal.
Result == { "created", "saved", "deleted" }

EditorTypeOK ==
  /\ page \in Page
  /\ hist \in Seq(Page \ {"error"}) /\ pos \in 1 .. Len(hist) /\ Len(hist) <= MaxHistory
  /\ edits \in { "none", "sent", "typed" }
  /\ localDirty \in BOOLEAN /\ guard \in BOOLEAN /\ kept \in BOOLEAN /\ saving \in BOOLEAN
  /\ go \in Dashboard \cup { "none", "back" } /\ asking = (go # "none")
  /\ result \in Result \cup {"none"}
  /\ deletion \in { "closed", "open", "running" }
  /\ next \in Dashboard
  /\ exists \in BOOLEAN /\ stale \in BOOLEAN /\ session \in BOOLEAN

-----------------------------------------------------------------------------
(* Pages and the history.                                                  *)
Modals == asking \/ result # "none" \/ deletion # "closed"

Push(h, p) == Append(SubSeq(h, 1, pos), p)
Room == pos < MaxHistory

\* A form's state when it mounts, and when it is gone.
FreshForm == /\ edits' = "none" /\ localDirty' = FALSE /\ kept' = FALSE
             /\ saving' = FALSE /\ deletion' = "closed"

\* middleware: a page of the dashboard needs a session, or it is the sign-in,
\* which remembers it; getOr404 finds no record that was deleted.
Landing(p) == IF ~session THEN "login"
              ELSE IF p = "form" /\ ~exists THEN "missing" ELSE p

\* A page fetched and mounted: the form that was there cleans up its mark.
Visit(p) ==
  /\ Room
  /\ page' = Landing(p)
  /\ hist' = Push(hist, Landing(p)) /\ pos' = pos + 1
  /\ next' = IF Landing(p) = "login" THEN p ELSE "list"
  /\ FreshForm
  /\ guard' = FALSE
  /\ stale' = FALSE

\* mark(TRUE), and the provider's effect when the first form becomes dirty: a
\* copy of the entry is parked on top of it.
MarkDirty ==
  /\ localDirty' = TRUE /\ guard' = TRUE /\ kept' = FALSE
  /\ IF guard THEN UNCHANGED << hist, pos >>
     ELSE /\ Room
          /\ hist' = Push(hist, page) /\ pos' = pos + 1

-----------------------------------------------------------------------------
(* Editing and leaving.                                                    *)
\* onEdit marks a form only if it is not dirty already, by its own account.
Edit ==
  /\ page \in Forms /\ ~Modals
  /\ edits' = "typed"
  /\ IF localDirty THEN UNCHANGED << localDirty, guard, kept, hist, pos >> ELSE MarkDirty
  /\ UNCHANGED << page, asking, go, saving, result, deletion, next, stale, server >>

\* Where the page's links lead.
Links == IF page = "list" THEN Forms ELSE {"list"}

\* GuardedLink: sidebar, cancel, back to the list, a row, "new".
Link(p) ==
  /\ page \in Dashboard \cup {"missing"} /\ ~Modals
  /\ p \in Links
  /\ IF guard
     THEN /\ asking' = TRUE /\ go' = p
          /\ UNCHANGED << where, formvars, guard, next, stale >>
     ELSE /\ Visit(p)
          /\ UNCHANGED << asking, go >>
  /\ UNCHANGED << result, server >>

\* Popping an entry of another page mounts it from the router's cache; of the
\* same page it changes nothing.
Pop(n) ==
  /\ pos' = n /\ page' = hist[n]
  /\ IF hist[n] = page
     THEN UNCHANGED << formvars, next >>
     ELSE FreshForm /\ next' = "list"
  /\ UNCHANGED << hist, stale >>

\* The browser's Back.  With unsaved edits it has popped the parked copy:
\* another is parked, and the modal asks.
onPopState_NoRepark ==
  /\ asking' = TRUE /\ go' = "back"
  /\ pos' = pos - 1 /\ page' = hist[pos - 1]
  /\ UNCHANGED << hist, formvars, guard, next, stale >>

onPopState ==
  /\ asking' = TRUE /\ go' = "back"
  /\ hist' = Append(SubSeq(hist, 1, pos - 1), page)
  /\ UNCHANGED << pos, page, formvars, guard, next, stale >>

Back ==
  /\ page # "error" /\ pos > 1
  /\ IF guard
     THEN onPopState
     ELSE Pop(pos - 1) /\ UNCHANGED guardvars
  /\ UNCHANGED << result, server >>

\* Forward.  Nothing is ahead of an entry that was parked, so edits that are
\* guarded are never left this way (BackStaysOnTheForm).
Forward ==
  /\ page # "error" /\ pos < Len(hist)
  /\ Pop(pos + 1)
  /\ UNCHANGED << guardvars, result, server >>

stay_KeepsGo ==
  /\ asking
  /\ asking' = FALSE
  /\ UNCHANGED << where, formvars, guard, go, result, next, stale, server >>

stay ==
  /\ asking
  /\ asking' = FALSE /\ go' = "none"
  /\ UNCHANGED << where, formvars, guard, result, next, stale, server >>

\* leave: the provider forgets every mark, then the link is followed or the
\* history goes back over the copy.  That does nothing when there is no entry
\* that far, and comes to the same page where the form was opened from itself:
\* the form stays, and its own mark with it.
DiscardHere ==
  /\ edits' = "none" /\ kept' = TRUE
  /\ UNCHANGED << localDirty, saving, deletion, next >>

leave ==
  /\ asking
  /\ asking' = FALSE /\ go' = "none" /\ guard' = FALSE
  /\ CASE go # "back"               -> Visit(go)
       [] go = "back" /\ pos > 2    ->
            /\ pos' = pos - 2 /\ page' = hist[pos - 2]
            /\ IF page' = page
               THEN DiscardHere
               ELSE FreshForm /\ next' = "list"
            /\ UNCHANGED << hist, stale >>
       [] OTHER                     -> DiscardHere /\ UNCHANGED << where, stale >>
  /\ UNCHANGED << result, server >>

-----------------------------------------------------------------------------
(* Saving: onSubmit takes the mark off for the redirect's sake.            *)
\* The save bar's button, disabled while a save runs.
SaveBar == page \in Forms /\ ~Modals /\ ~saving

onSubmit ==
  /\ SaveBar
  /\ saving' = TRUE
  /\ edits' = IF edits = "typed" THEN "sent" ELSE edits
  /\ localDirty' = FALSE /\ guard' = FALSE /\ kept' = FALSE
  /\ UNCHANGED << where, asking, go, result, deletion, next, stale, server >>

\* createUnit, updateUnit: the record's page comes with the result in its URL,
\* and the form anew, for its key is new as well.
Saved ==
  /\ saving /\ session
  /\ page = "form" => exists
  /\ Room
  /\ page' = "form" /\ hist' = Push(hist, "form") /\ pos' = pos + 1
  /\ exists' = TRUE /\ stale' = FALSE
  /\ result' = IF page = "new" THEN "created" ELSE "saved"
  /\ FreshForm /\ guard' = FALSE
  /\ UNCHANGED << asking, go, next, session >>

\* The API refuses or is not there: the banner, and the mark is back.
Refused_LeavesClean ==
  /\ saving /\ session
  /\ saving' = FALSE
  /\ edits' = IF edits = "sent" THEN "typed" ELSE edits
  /\ UNCHANGED << where, localDirty, guard, asking, go, kept, result, deletion, next, stale, server >>

Refused ==
  /\ saving /\ session
  /\ saving' = FALSE
  /\ edits' = IF edits = "sent" THEN "typed" ELSE edits
  /\ MarkDirty
  /\ UNCHANGED << page, asking, go, result, deletion, next, stale, server >>

\* The action itself fails, for want of a session or of the network: nothing
\* of the tree catches it.
Throws ==
  /\ saving \/ deletion = "running"
  /\ page' = "error"
  /\ FreshForm /\ guard' = FALSE /\ asking' = FALSE /\ go' = "none" /\ result' = "none"
  /\ UNCHANGED << hist, pos, next, stale, server >>

ReloadForm ==
  /\ page = "error"
  /\ page' = IF hist[pos] = "login" THEN "login" ELSE Landing(hist[pos])
  /\ hist' = [hist EXCEPT ![pos] = page']
  /\ next' = IF page' = "login" /\ hist[pos] \in Dashboard THEN hist[pos] ELSE "list"
  /\ stale' = FALSE
  /\ UNCHANGED << pos, formvars, guardvars, result, server >>

\* ActionResultModal, whose own links are not guarded.
closeResult(p) ==
  /\ result # "none" /\ ~asking
  /\ result' = "none"
  /\ CASE p = "done" -> UNCHANGED << where, formvars, guard, next, stale >>
       [] p = "list" -> result = "saved" /\ Visit("list")
       [] p = "new"  -> result = "created" /\ Visit("new")
  /\ UNCHANGED << asking, go, server >>

-----------------------------------------------------------------------------
(* DeleteDialog, on the record's page.                                     *)
openDelete ==
  /\ page = "form" /\ ~Modals
  /\ deletion' = "open"
  /\ UNCHANGED << where, edits, localDirty, kept, saving, guardvars, result, next, stale, server >>

cancelDelete ==
  /\ deletion = "open" /\ ~asking
  /\ deletion' = "closed"
  /\ UNCHANGED << where, edits, localDirty, kept, saving, guardvars, result, next, stale, server >>

confirmDelete ==
  /\ deletion = "open" /\ ~asking
  /\ deletion' = "running"
  /\ UNCHANGED << where, edits, localDirty, kept, saving, guardvars, result, next, stale, server >>

Deleted ==
  /\ deletion = "running" /\ session /\ exists
  /\ exists' = FALSE
  /\ Visit("list")
  /\ result' = "deleted"
  /\ UNCHANGED << asking, go, session >>

NotDeleted ==
  /\ deletion = "running" /\ session
  /\ deletion' = "closed"
  /\ UNCHANGED << where, edits, localDirty, kept, saving, guardvars, result, next, stale, server >>

-----------------------------------------------------------------------------
(* The session.                                                            *)
\* The sidebar's form, which no guard knows of.
signOut ==
  /\ page \in Dashboard \cup {"missing"} /\ ~Modals /\ Room
  /\ session' = FALSE
  /\ page' = "login" /\ hist' = Push(hist, "login") /\ pos' = pos + 1 /\ next' = "list"
  /\ FreshForm /\ guard' = FALSE
  /\ UNCHANGED << asking, go, result, exists, stale >>

\* Signed in, or signed in already in another tab: straight through to next.
signIn ==
  /\ page = "login" /\ Room
  /\ session' = TRUE
  /\ page' = IF next = "form" /\ ~exists THEN "missing" ELSE next
  /\ hist' = Push(hist, page') /\ pos' = pos + 1
  /\ next' = "list"
  /\ FreshForm /\ guard' = FALSE /\ stale' = FALSE
  /\ UNCHANGED << asking, go, result, exists >>

SessionEnds ==
  /\ session
  /\ session' = FALSE
  /\ UNCHANGED << where, formvars, guardvars, result, next, exists, stale >>

-----------------------------------------------------------------------------
\* An image was saved below the form, and with it the page was rendered anew:
\* a form whose unit has another updated_at is replaced, whatever is in it.
Rerender ==
  /\ page = "form" /\ session
  /\ IF exists
     THEN /\ UNCHANGED page
          /\ IF stale THEN FreshForm /\ guard' = FALSE ELSE UNCHANGED << formvars, guard >>
     ELSE /\ page' = "missing"
          /\ FreshForm /\ guard' = FALSE
  /\ hist' = [hist EXCEPT ![pos] = page']
  /\ stale' = FALSE
  /\ UNCHANGED << pos, asking, go, result, next, server >>

\* Other admins.
OthersSave ==
  /\ exists
  /\ stale' = TRUE
  /\ UNCHANGED << where, formvars, guardvars, result, next, server >>

OthersDelete ==
  /\ exists
  /\ exists' = FALSE
  /\ UNCHANGED << where, formvars, guardvars, result, next, stale, session >>

EditorInit ==
  /\ page \in { "list", "form" } /\ hist = << page >> /\ pos = 1
  /\ edits = "none" /\ localDirty = FALSE /\ guard = FALSE /\ kept = FALSE
  /\ asking = FALSE /\ go = "none"
  /\ saving = FALSE /\ result = "none" /\ deletion = "closed" /\ next = "list"
  /\ exists = TRUE /\ stale = FALSE /\ session = TRUE

EditorNext ==
  \/ Edit \/ (\E p \in Dashboard : Link(p)) \/ Back \/ Forward \/ stay \/ leave
  \/ onSubmit \/ Saved \/ Refused \/ Throws \/ ReloadForm
  \/ \E p \in { "done", "list", "new" } : closeResult(p)
  \/ openDelete \/ cancelDelete \/ confirmDelete \/ Deleted \/ NotDeleted
  \/ signOut \/ signIn \/ SessionEnds
  \/ Rerender \/ OthersSave \/ OthersDelete

EditorSpec == EditorInit /\ [][EditorNext]_editorvars

-----------------------------------------------------------------------------
(* Properties.                                                             *)

\* Neither Back nor Forward can take the admin off guarded edits: the entry
\* below is the same page, whatever was saved, refused, parked, popped or asked
\* before, and none is above; and no guard outlives its form.
BackStaysOnTheForm ==
  guard => page \in Forms /\ pos > 1 /\ hist[pos - 1] = page /\ pos = Len(hist)

\* What was typed and neither saved nor discarded is flagged beside the save
\* button, and known to the guard, through saves that fail and edits made while
\* one runs.  The one hole in the guard is a form that was discarded and stayed
\* (kept): what is typed into it is flagged only, until it is saved.
UnsavedIsFlagged ==
  page \in Forms /\ edits = "typed" => localDirty /\ (guard \/ kept)

\* Not so: the redesign's "Leaving with unsaved changes (only while dirty)",
\* where Back and links ask first, and entity-form.tsx's "Tracks dirtiness for
\* the save-bar hint and the leave guard".  A form that was opened in a tab of
\* its own stays when it is discarded on Back, and its next edits are unguarded.
EditsAreGuarded ==
  page \in Forms /\ edits = "typed" => guard
=============================================================================
