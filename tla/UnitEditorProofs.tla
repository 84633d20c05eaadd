-------------------------- MODULE UnitEditorProofs --------------------------
(***************************************************************************)
(* A record's page.  The guard on unsaved changes, for a history of any    *)
(* length: Back stays on the form, and what was typed stays flagged.  The  *)
(* photos below the form, any number of them: their order and their cover. *)
(***************************************************************************)
EXTENDS UnitEditor, UnitImages, FiniteSetTheorems, TLAPS

Entries == Page \ {"error"}

HistoryOK == hist \in Seq(Entries) /\ pos \in 1 .. Len(hist) /\ Len(hist) <= MaxHistory

\* An entry of the history is what the tab showed at it.
EntryIsThePage == page # "error" => hist[pos] = page

\* Only a form saves, a form that is dirty has its mark until the admin
\* discards it, and an error page has no edits.
FormsState ==
  /\ saving => page \in Forms
  /\ localDirty /\ ~kept => guard
  /\ page = "error" => edits = "none"

\* The inductive invariant.
EditorInv ==
  EditorTypeOK /\ BackStaysOnTheForm /\ UnsavedIsFlagged /\ EntryIsThePage /\ FormsState

\* A page pushed on the history is its last entry, above those up to the
\* current one.
LEMMA PushedHistory ==
  ASSUME NEW S, NEW h \in Seq(S), NEW n \in 1 .. Len(h), NEW p \in S
  PROVE  /\ Append(SubSeq(h, 1, n), p) \in Seq(S)
         /\ Len(Append(SubSeq(h, 1, n), p)) = n + 1
         /\ Append(SubSeq(h, 1, n), p)[n + 1] = p
         /\ \A i \in 1 .. n : Append(SubSeq(h, 1, n), p)[i] = h[i]
  OBVIOUS

\* A page on which nothing is edited and nothing guarded satisfies the
\* invariant, if its entry is the page and its other parts have their types.
LEMMA FreshPage ==
  ASSUME EditorTypeOK', FreshForm, guard' = FALSE, EntryIsThePage'
  PROVE  EditorInv'
  BY DEF EditorInv, BackStaysOnTheForm, UnsavedIsFlagged, FormsState, FreshForm

\* A page that is visited is fresh.
LEMMA VisitedPage ==
  ASSUME EditorInv, NEW p \in Dashboard, Visit(p),
         asking' \in BOOLEAN, go' \in Dashboard \cup { "none", "back" }, asking' = (go' # "none"),
         result' \in Result \cup {"none"}, exists' \in BOOLEAN, session' \in BOOLEAN
  PROVE  EditorInv'
  <1>1. Landing(p) \in Entries
    BY DEF Landing, Dashboard, Forms, Entries, Page
  <1>2. /\ hist \in Seq(Entries) /\ pos \in 1 .. Len(hist) /\ MaxHistory \in Nat
    BY EditorAssumption DEF EditorInv, EditorTypeOK, Entries
  <1>3. /\ hist' \in Seq(Entries) /\ Len(hist') = pos + 1 /\ hist'[pos + 1] = Landing(p)
    BY <1>1, <1>2, PushedHistory DEF Visit, Push
  <1>4. HistoryOK'
    BY <1>2, <1>3 DEF HistoryOK, Visit, Room
  <1>5. EditorTypeOK'
    <2>1. page' \in Page /\ next' \in Dashboard
      BY <1>1 DEF Visit, Entries, Dashboard
    <2> QED BY <1>4, <2>1 DEF EditorTypeOK, Visit, FreshForm, HistoryOK, Entries
  <1>6. EntryIsThePage'
    BY <1>3 DEF EntryIsThePage, Visit
  <1> QED BY <1>5, <1>6, FreshPage DEF Visit

\* A form that is marked keeps the invariant: the copy of its entry is parked.
LEMMA MarkedForm ==
  ASSUME EditorInv, MarkDirty, page \in Forms,
         UNCHANGED << page, asking, go, result, deletion, next, stale, server >>,
         edits' \in { "none", "sent", "typed" }, saving' \in BOOLEAN
  PROVE  EditorInv'
  <1>1. /\ hist \in Seq(Entries) /\ pos \in 1 .. Len(hist) /\ MaxHistory \in Nat /\ page \in Entries
    BY EditorAssumption DEF EditorInv, EditorTypeOK, Entries, Forms, Page, Dashboard
  <1>2. CASE guard
    BY <1>2 DEF EditorInv, EditorTypeOK, BackStaysOnTheForm, UnsavedIsFlagged, EntryIsThePage, FormsState,
                MarkDirty, server, Forms
  <1>3. CASE ~guard
    <2>1. /\ hist' \in Seq(Entries) /\ Len(hist') = pos + 1 /\ pos' = pos + 1
          /\ hist'[pos + 1] = page /\ hist'[pos] = hist[pos]
      <3>1. hist' = Append(SubSeq(hist, 1, pos), page) /\ pos' = pos + 1
        BY <1>3 DEF MarkDirty, Push
      <3>2. pos \in 1 .. pos
        BY <1>1
      <3> HIDE DEF Entries
      <3> QED BY <1>1, <3>1, <3>2, PushedHistory
    <2>2. EditorTypeOK'
      <3>1. HistoryOK'
        BY <1>1, <1>3, <2>1 DEF HistoryOK, MarkDirty, Room
      <3> QED BY <3>1 DEF EditorInv, EditorTypeOK, MarkDirty, HistoryOK, server, Entries
    <2>3. hist[pos] = page
      BY DEF EditorInv, EntryIsThePage, Forms
    <2>4. BackStaysOnTheForm' /\ EntryIsThePage'
      BY <1>1, <2>1, <2>3 DEF BackStaysOnTheForm, EntryIsThePage
    <2> QED
      BY <2>2, <2>4 DEF EditorInv, UnsavedIsFlagged, FormsState, MarkDirty, Forms
  <1> QED BY <1>2, <1>3

\* A new tab satisfies the invariant.
LEMMA EditorInit_Inv == EditorInit => EditorInv
  <1> SUFFICES ASSUME EditorInit PROVE EditorInv
    OBVIOUS
  <1>1. page \in Entries
    BY DEF EditorInit, Entries, Page, Dashboard, Forms
  <1>2. HistoryOK /\ hist[pos] = page
    BY <1>1, EditorAssumption DEF EditorInit, HistoryOK
  <1>3. EditorTypeOK
    BY <1>1, <1>2 DEF EditorInit, EditorTypeOK, HistoryOK, Entries, Dashboard
  <1> QED
    BY <1>2, <1>3 DEF EditorInit, EditorInv, BackStaysOnTheForm, UnsavedIsFlagged, EntryIsThePage, FormsState

\* Steps that leave the page, the history and the form alone.
LEMMA FormStands ==
  ASSUME EditorInv, UNCHANGED << where, edits, localDirty, kept, saving, guard >>,
         deletion' \in { "closed", "open", "running" },
         go' \in Dashboard \cup { "none", "back" }, asking' = (go' # "none"),
         result' \in Result \cup {"none"}, next' \in Dashboard,
         exists' \in BOOLEAN, stale' \in BOOLEAN, session' \in BOOLEAN
  PROVE  EditorInv'
  BY DEF EditorInv, EditorTypeOK, BackStaysOnTheForm, UnsavedIsFlagged, EntryIsThePage, FormsState, where

\* Every step keeps the invariant.
LEMMA EditorStep_Inv == EditorInv /\ [EditorNext]_editorvars => EditorInv'
  <1> SUFFICES ASSUME EditorInv, [EditorNext]_editorvars
               PROVE  EditorInv'
    OBVIOUS
  <1> USE EditorAssumption
  <1>t. /\ hist \in Seq(Entries) /\ pos \in 1 .. Len(hist) /\ Len(hist) <= MaxHistory
        /\ MaxHistory \in Nat
    BY DEF EditorInv, EditorTypeOK, Entries
  <1>u. /\ go \in Dashboard \cup { "none", "back" } /\ asking = (go # "none")
        /\ result \in Result \cup {"none"} /\ next \in Dashboard /\ page \in Page
        /\ deletion \in { "closed", "open", "running" }
        /\ exists \in BOOLEAN /\ stale \in BOOLEAN /\ session \in BOOLEAN
    BY DEF EditorInv, EditorTypeOK
  <1>1. CASE Edit
    <2>1. CASE localDirty
      BY <1>1, <2>1 DEF Edit, EditorInv, EditorTypeOK, BackStaysOnTheForm, UnsavedIsFlagged,
                        EntryIsThePage, FormsState, server, Forms
    <2>2. CASE ~localDirty
      BY <1>1, <2>2, MarkedForm DEF Edit, EditorInv, EditorTypeOK
    <2> QED BY <2>1, <2>2
  <1>2. ASSUME NEW p \in Dashboard, Link(p) PROVE EditorInv'
    <2>1. CASE guard
      BY <1>u, <1>2, <2>1, FormStands DEF Link, formvars, server, Dashboard, Forms
    <2>2. CASE ~guard
      BY <1>u, <1>2, <2>2, VisitedPage DEF Link, server
    <2> QED BY <2>1, <2>2
  <1>3. CASE Back
    <2>1. CASE guard
      <3>1. /\ pos - 1 \in 1 .. Len(hist) /\ page \in Entries
        BY <1>t, <1>u, <1>3 DEF Back, Entries
      <3>2. /\ hist' \in Seq(Entries) /\ Len(hist') = pos /\ pos' = pos
            /\ hist'[pos] = page /\ hist'[pos - 1] = hist[pos - 1]
        <4>1. hist' = Append(SubSeq(hist, 1, pos - 1), page) /\ pos' = pos
          BY <1>3, <2>1 DEF Back, onPopState
        <4>2. pos - 1 + 1 = pos /\ pos - 1 \in 1 .. pos - 1
          BY <1>t, <3>1
        <4> HIDE DEF Entries
        <4> QED BY <1>t, <3>1, <4>1, <4>2, PushedHistory
      <3>3. EditorTypeOK'
        <4>1. HistoryOK'
          BY <1>t, <3>2 DEF HistoryOK
        <4> QED BY <1>3, <2>1, <4>1 DEF Back, onPopState, EditorInv, EditorTypeOK, HistoryOK, Entries, formvars, server
      <3>4. BackStaysOnTheForm' /\ EntryIsThePage' /\ UnsavedIsFlagged' /\ FormsState'
        BY <1>3, <2>1, <3>2 DEF Back, onPopState, EditorInv, BackStaysOnTheForm, EntryIsThePage,
                                UnsavedIsFlagged, FormsState, formvars
      <3> QED BY <3>3, <3>4 DEF EditorInv
    <2>2. CASE ~guard
      <3>1. /\ pos - 1 \in 1 .. Len(hist) /\ hist[pos - 1] \in Entries
        BY <1>t, <1>3 DEF Back
      <3>2. EditorTypeOK'
        BY <1>t, <1>u, <1>3, <2>2, <3>1 DEF Back, Pop, FreshForm, EditorInv, EditorTypeOK, Entries, formvars,
                                   guardvars, server, Dashboard
      <3> QED
        BY <1>3, <2>2, <3>1, <3>2 DEF Back, Pop, FreshForm, EditorInv, BackStaysOnTheForm, EntryIsThePage,
                                UnsavedIsFlagged, FormsState, formvars, guardvars, Entries
    <2> QED BY <2>1, <2>2
  <1>4. CASE stay
    BY <1>u, <1>4, FormStands DEF stay, formvars, server
  <1>5. CASE leave
    <2>1. CASE go # "back"
      BY <1>u, <1>5, <2>1, VisitedPage DEF leave, server
    <2>2. CASE go = "back" /\ pos > 2
      <3>1. /\ pos - 2 \in 1 .. Len(hist) /\ hist[pos - 2] \in Entries
        BY <1>t, <2>2
      <3>2. EditorTypeOK'
        BY <1>t, <1>u, <1>5, <2>2, <3>1 DEF leave, DiscardHere, FreshForm, EditorInv, EditorTypeOK, Entries, server, Dashboard
      <3> QED
        BY <1>5, <2>2, <3>1, <3>2 DEF leave, DiscardHere, FreshForm, EditorInv, BackStaysOnTheForm, EntryIsThePage,
                                UnsavedIsFlagged, FormsState, Entries
    <2>3. CASE go = "back" /\ ~(pos > 2)
      BY <1>u, <1>5, <2>3 DEF leave, DiscardHere, EditorInv, EditorTypeOK, BackStaysOnTheForm, EntryIsThePage,
                         UnsavedIsFlagged, FormsState, server, where
    <2> QED BY <2>1, <2>2, <2>3
  <1>19. CASE Forward
    <2>1. /\ pos + 1 \in 1 .. Len(hist) /\ hist[pos + 1] \in Entries /\ ~guard
      BY <1>t, <1>19 DEF Forward, EditorInv, BackStaysOnTheForm
    <2>2. EditorTypeOK'
      BY <1>t, <1>u, <1>19, <2>1 DEF Forward, Pop, FreshForm, EditorInv, EditorTypeOK, Entries, formvars,
                                 guardvars, server, Dashboard
    <2> QED
      BY <1>19, <2>1, <2>2 DEF Forward, Pop, FreshForm, EditorInv, BackStaysOnTheForm, EntryIsThePage,
                               UnsavedIsFlagged, FormsState, formvars, guardvars, Entries
  <1>6. CASE onSubmit
    BY <1>6 DEF onSubmit, SaveBar, EditorInv, EditorTypeOK, BackStaysOnTheForm, EntryIsThePage,
                UnsavedIsFlagged, FormsState, server, where
  <1>7. CASE Saved
    <2>1. /\ hist' \in Seq(Entries) /\ Len(hist') = pos + 1 /\ pos' = pos + 1 /\ hist'[pos + 1] = "form"
      BY <1>t, <1>7, PushedHistory DEF Saved, Push, Entries, Page, Dashboard, Forms
    <2>2. EditorTypeOK'
      <3>1. HistoryOK'
        BY <1>t, <1>7, <2>1 DEF Saved, Room, HistoryOK
      <3>2. page' \in Page /\ next' \in Dashboard /\ result' \in Result \cup {"none"}
        BY <1>u, <1>7, <2>1 DEF Saved, Page, Dashboard, Forms, Result, Entries
      <3> QED BY <1>7, <3>1, <3>2 DEF Saved, FreshForm, EditorInv, EditorTypeOK, HistoryOK, Entries
    <2> QED BY <1>7, <2>1, <2>2, FreshPage DEF Saved, EntryIsThePage
  <1>8. CASE Refused
    BY <1>8, MarkedForm DEF Refused, EditorInv, EditorTypeOK, FormsState
  <1>9. CASE Throws
    <2>1. EditorTypeOK'
      BY <1>t, <1>u, <1>9 DEF Throws, FreshForm, EditorInv, EditorTypeOK, Page, server
    <2> QED BY <1>9, <2>1, FreshPage DEF Throws, EntryIsThePage
  <1>10. CASE ReloadForm
    <2>1. hist[pos] \in Entries /\ page' \in Entries
      BY <1>t, <1>10 DEF ReloadForm, Landing, Entries, Page
    <2>2. /\ hist' \in Seq(Entries) /\ Len(hist') = Len(hist) /\ hist'[pos] = page' /\ pos' = pos
      BY <1>t, <1>10, <2>1 DEF ReloadForm
    <2>3. EditorTypeOK'
      BY <1>t, <1>u, <1>10, <2>1, <2>2 DEF ReloadForm, EditorInv, EditorTypeOK, Entries, formvars, guardvars,
                                           server, Dashboard
    <2> QED
      BY <1>10, <2>2, <2>3 DEF ReloadForm, EditorInv, BackStaysOnTheForm, EntryIsThePage, UnsavedIsFlagged,
                         FormsState, formvars, guardvars, Forms
  <1>11. ASSUME NEW p \in { "done", "list", "new" }, closeResult(p) PROVE EditorInv'
    <2>1. CASE p = "done"
      BY <1>u, <1>11, <2>1, FormStands DEF closeResult, formvars, server
    <2>2. CASE p \in { "list", "new" }
      BY <1>u, <1>11, <2>2, VisitedPage DEF closeResult, server, Dashboard, Forms
    <2> QED BY <2>1, <2>2
  <1>12. CASE openDelete \/ cancelDelete \/ confirmDelete \/ NotDeleted
    BY <1>u, <1>12, FormStands DEF openDelete, cancelDelete, confirmDelete, NotDeleted, guardvars, server
  <1>13. CASE Deleted
    BY <1>u, <1>13, VisitedPage DEF Deleted, Dashboard, Result
  <1>14. CASE signOut
    <2>1. /\ hist' \in Seq(Entries) /\ Len(hist') = pos + 1 /\ pos' = pos + 1 /\ hist'[pos + 1] = "login"
      BY <1>t, <1>14, PushedHistory DEF signOut, Push, Entries, Page, Dashboard, Forms
    <2>2. EditorTypeOK'
      <3>1. HistoryOK'
        BY <1>t, <1>14, <2>1 DEF signOut, Room, HistoryOK
      <3>2. page' \in Page /\ next' \in Dashboard /\ result' \in Result \cup {"none"}
        BY <1>u, <1>14, <2>1 DEF signOut, Page, Dashboard, Forms, Result, Entries
      <3> QED BY <1>14, <3>1, <3>2 DEF signOut, FreshForm, EditorInv, EditorTypeOK, HistoryOK, Entries
    <2> QED BY <1>14, <2>1, <2>2, FreshPage DEF signOut, EntryIsThePage
  <1>15. CASE signIn
    <2>1. page' \in Entries
      BY <1>u, <1>15 DEF signIn, Entries, Page, Dashboard, Forms
    <2>2. /\ hist' \in Seq(Entries) /\ Len(hist') = pos + 1 /\ pos' = pos + 1 /\ hist'[pos + 1] = page'
      BY <1>t, <1>15, <2>1, PushedHistory DEF signIn, Push
    <2>3. EditorTypeOK'
      <3>1. HistoryOK'
        BY <1>t, <1>15, <2>1, <2>2 DEF signIn, Room, HistoryOK
      <3>2. page' \in Page /\ next' \in Dashboard /\ result' \in Result \cup {"none"}
        BY <1>u, <1>15, <2>1, <2>2 DEF signIn, Page, Dashboard, Forms, Result, Entries
      <3> QED BY <1>15, <3>1, <3>2 DEF signIn, FreshForm, EditorInv, EditorTypeOK, HistoryOK, Entries
    <2> QED BY <1>15, <2>2, <2>3, FreshPage DEF signIn, EntryIsThePage
  <1>16. CASE SessionEnds \/ OthersSave \/ OthersDelete
    BY <1>u, <1>16, FormStands DEF SessionEnds, OthersSave, OthersDelete, formvars, guardvars, server
  <1>17. CASE Rerender
    <2>1. page' \in Entries
      BY <1>17 DEF Rerender, Entries, Page, Dashboard, Forms
    <2>2. /\ hist' \in Seq(Entries) /\ Len(hist') = Len(hist) /\ pos' = pos
          /\ \A i \in 1 .. Len(hist) : hist'[i] = IF i = pos THEN page' ELSE hist[i]
      BY <1>t, <1>17, <2>1 DEF Rerender
    <2>3. EditorTypeOK'
      BY <1>t, <1>u, <1>17, <2>1, <2>2 DEF Rerender, FreshForm, EditorInv, EditorTypeOK, Entries, formvars, server
    <2>4. EntryIsThePage'
      BY <1>t, <2>2 DEF EntryIsThePage
    <2>5. CASE exists /\ ~stale
      <3>1. hist'[pos - 1] = hist[pos - 1] \/ pos = 1
        BY <1>t, <2>2
      <3> QED
        BY <1>17, <2>2, <2>3, <2>4, <2>5, <3>1
        DEF Rerender, EditorInv, BackStaysOnTheForm, UnsavedIsFlagged, FormsState, formvars
    <2>6. CASE ~(exists /\ ~stale)
      BY <1>17, <2>3, <2>4, <2>6, FreshPage DEF Rerender
    <2> QED BY <2>5, <2>6
  <1>18. CASE UNCHANGED editorvars
    BY <1>u, <1>18, FormStands DEF editorvars, where
  <1> QED
    BY <1>1, <1>2, <1>3, <1>4, <1>5, <1>6, <1>7, <1>8, <1>9, <1>10, <1>11, <1>12, <1>13, <1>14, <1>15,
       <1>16, <1>17, <1>18, <1>19 DEF EditorNext

\* So every state of a tab does.
LEMMA EditorInvAlways == EditorSpec => []EditorInv
  BY EditorInit_Inv, EditorStep_Inv, PTL DEF EditorSpec

\* Every variable of UnitEditor keeps its type, whatever the bound on the
\* history.
THEOREM EditorTypesAreKept == EditorSpec => []EditorTypeOK
  BY EditorInvAlways, PTL DEF EditorInv

\* unsaved-changes.tsx: however often Back is pressed, the entry below a form
\* whose edits are guarded is the form's own, and nothing lies ahead of it.
THEOREM BackStays == EditorSpec => []BackStaysOnTheForm
  BY EditorInvAlways, PTL DEF EditorInv

\* entity-form.tsx: what was typed and neither saved nor discarded is flagged,
\* and guarded unless the form was discarded, stayed and was not saved since,
\* through saves that fail and edits made while one runs.
THEOREM UnsavedStaysFlagged == EditorSpec => []UnsavedIsFlagged
  BY EditorInvAlways, PTL DEF EditorInv

-----------------------------------------------------------------------------
(* A unit's photos.                                                        *)

\* Rows as they are stored, with one cover at most.
GoodRows(r) ==
  /\ \A i \in DOMAIN r : /\ r[i] = [sort |-> r[i].sort, cover |-> r[i].cover]
                         /\ r[i].sort \in Nat /\ r[i].cover \in BOOLEAN
  /\ \A i, j \in CoverIds(r) : i = j

\* No id is given twice, and of the rows there are one is the cover at most.
RowsInv == ids \in Nat /\ DOMAIN rows \subseteq 1 .. ids /\ GoodRows(rows)

\* A sort that is written keeps the covers.
LEMMA SortKeepsCovers ==
  ASSUME NEW r, GoodRows(r), NEW i \in DOMAIN r, NEW s \in Nat
  PROVE  LET t == [r EXCEPT ![i].sort = s]
         IN GoodRows(t) /\ DOMAIN t = DOMAIN r /\ CoverIds(t) = CoverIds(r)
  <1> DEFINE t == [r EXCEPT ![i].sort = s]
  <1>1. DOMAIN t = DOMAIN r
    OBVIOUS
  <1>2. \A j \in DOMAIN r : j # i => t[j] = r[j]
    OBVIOUS
  <1>3. t[i] = [r[i] EXCEPT !.sort = s]
    OBVIOUS
  <1> HIDE DEF t
  <1>4. t[i] = [sort |-> s, cover |-> r[i].cover]
    <2>1. r[i] = [sort |-> r[i].sort, cover |-> r[i].cover]
      BY DEF GoodRows
    <2> QED BY <1>3, <2>1
  <1>5. \A j \in DOMAIN r : t[j].cover = r[j].cover
    BY <1>2, <1>4
  <1>6. CoverIds(t) = CoverIds(r)
    BY <1>1, <1>5 DEF CoverIds
  <1>7. GoodRows(t)
    <2>1. ASSUME NEW j \in DOMAIN t
          PROVE  /\ t[j] = [sort |-> t[j].sort, cover |-> t[j].cover]
                 /\ t[j].sort \in Nat /\ t[j].cover \in BOOLEAN
      <3>1. /\ r[j] = [sort |-> r[j].sort, cover |-> r[j].cover]
            /\ r[j].sort \in Nat /\ r[j].cover \in BOOLEAN
        BY <1>1, <2>1 DEF GoodRows
      <3>2. CASE j = i
        BY <1>4, <3>1, <3>2
      <3>3. CASE j # i
        BY <1>1, <1>2, <2>1, <3>1, <3>3
      <3> QED BY <3>2, <3>3
    <2>2. \A j, k \in CoverIds(t) : j = k
      BY <1>6 DEF GoodRows
    <2> QED BY <2>1, <2>2 DEF GoodRows
  <1> QED BY <1>1, <1>6, <1>7 DEF t

\* An image made the cover is the only one.
LEMMA CoverIsAlone ==
  ASSUME NEW r, GoodRows(r), NEW i \in DOMAIN r
  PROVE  GoodRows(Cover(r, i)) /\ DOMAIN Cover(r, i) = DOMAIN r /\ CoverIds(Cover(r, i)) = {i}
  <1> DEFINE t == Cover(r, i)
  <1>1. DOMAIN t = DOMAIN r
    BY DEF Cover
  <1>2. ASSUME NEW j \in DOMAIN r
        PROVE  \E c \in BOOLEAN : (c <=> j = i) /\ t[j] = [sort |-> r[j].sort, cover |-> c]
    <2>1. r[j] = [sort |-> r[j].sort, cover |-> r[j].cover]
      BY DEF GoodRows
    <2>2. CASE j = i
      <3>1. t[j] = [r[j] EXCEPT !.cover = TRUE]
        BY <2>2 DEF Cover
      <3> QED BY <2>1, <2>2, <3>1
    <2>3. CASE j # i
      <3>1. t[j] = [r[j] EXCEPT !.cover = FALSE]
        BY <2>3 DEF Cover
      <3> QED BY <2>1, <2>3, <3>1
    <2> QED BY <2>2, <2>3
  <1> HIDE DEF t
  <1>3. ASSUME NEW j \in DOMAIN r
        PROVE  /\ t[j] = [sort |-> t[j].sort, cover |-> t[j].cover]
               /\ t[j].sort = r[j].sort /\ t[j].sort \in Nat
               /\ t[j].cover \in BOOLEAN /\ (t[j].cover <=> j = i)
    <2>1. PICK c \in BOOLEAN : (c <=> j = i) /\ t[j] = [sort |-> r[j].sort, cover |-> c]
      BY <1>2, <1>3
    <2>2. t[j].sort = r[j].sort /\ t[j].cover = c
      BY <2>1
    <2>3. r[j].sort \in Nat
      BY <1>3 DEF GoodRows
    <2> QED BY <2>1, <2>2, <2>3
  <1>4. CoverIds(t) = {i}
    BY <1>1, <1>3 DEF CoverIds
  <1>5. GoodRows(t)
    BY <1>1, <1>3, <1>4 DEF GoodRows
  <1> QED BY <1>1, <1>4, <1>5 DEF t

\* An image that is gone was the cover, or the cover stays.
LEMMA DropKeepsCovers ==
  ASSUME RowsInv, NEW i
  PROVE  /\ GoodRows(Drop(i)) /\ DOMAIN Drop(i) = DOMAIN rows \ {i}
         /\ CoverIds(Drop(i)) = CoverIds(rows) \ {i}
  <1> DEFINE t == Drop(i)
  <1>1. DOMAIN t = DOMAIN rows \ {i} /\ \A j \in DOMAIN rows \ {i} : t[j] = rows[j]
    BY DEF Drop
  <1> HIDE DEF t
  <1>2. CoverIds(t) = CoverIds(rows) \ {i}
    BY <1>1 DEF CoverIds
  <1>3. GoodRows(t)
    <2>1. ASSUME NEW j \in DOMAIN t
          PROVE  /\ t[j] = [sort |-> t[j].sort, cover |-> t[j].cover]
                 /\ t[j].sort \in Nat /\ t[j].cover \in BOOLEAN
      BY <1>1, <2>1 DEF RowsInv, GoodRows
    <2> QED BY <1>2, <2>1 DEF RowsInv, GoodRows
  <1> QED BY <1>1, <1>2, <1>3 DEF t

\* Among some subsets of a finite set one has no other below it.
LEMMA SmallestSet ==
  ASSUME NEW S, IsFiniteSet(S), NEW X, X \subseteq SUBSET S, X # {}
  PROVE  \E m \in X : \A y \in X : y \subseteq m => y = m
  <1>1. /\ X \subseteq FiniteSubsetsOf(S)
        /\ IsWellFoundedOn(StrictSubsetOrdering(S), FiniteSubsetsOf(S))
    BY FS_FiniteSubsetsOfFinite, FS_StrictSubsetOrderingWellFounded
  <1>2. PICK m \in X : \A y \in X : ~ (<<y, m>> \in StrictSubsetOrdering(S))
    BY <1>1, WFMin
  <1> QED BY <1>2 DEF StrictSubsetOrdering

\* A finite set of naturals has a largest one.
LEMMA MaxIsThere ==
  ASSUME NEW S, S \subseteq Nat, IsFiniteSet(S), S # {}
  PROVE  Max(S) \in S
  <1> DEFINE Has(t) == \E x \in t : \A y \in t : x >= y
             X == { t \in SUBSET S : t # {} /\ ~ Has(t) }
  <1>1. Has(S) => Max(S) \in S
    BY DEF Max
  <1>2. X \subseteq SUBSET S
    OBVIOUS
  <1>3. \A t \in SUBSET S : t \in X <=> t # {} /\ ~ Has(t)
    OBVIOUS
  <1> HIDE DEF X, Has
  <1>4. X # {} => \E m \in X : \A y \in X : y \subseteq m => y = m
    BY ONLY IsFiniteSet(S), <1>2, SmallestSet
  <1> SUFFICES ASSUME ~ Has(S) PROVE FALSE
    BY <1>1
  <1>5. PICK m \in X : \A y \in X : y \subseteq m => y = m
    BY <1>3, <1>4
  <1>6. m \subseteq S /\ m # {} /\ ~ Has(m)
    BY <1>2, <1>3
  <1>7. PICK x \in m : TRUE
    BY <1>6
  <1>8. m \ {x} = {} \/ Has(m \ {x})
    BY <1>3, <1>5, <1>6
  <1>9. CASE m \ {x} = {}
    <2>1. \A y \in m : y = x /\ y \in Nat
      BY <1>6, <1>9
    <2> QED BY <1>6, <2>1 DEF Has
  <1>10. CASE Has(m \ {x})
    <2>1. PICK z \in m \ {x} : \A y \in m \ {x} : z >= y
      BY <1>10 DEF Has
    <2>2. x \in Nat /\ z \in Nat /\ \A y \in m : y \in Nat
      BY <1>6, <2>1
    <2>3. CASE x >= z
      <3>1. \A y \in m : x >= y
        BY <2>1, <2>2, <2>3
      <3> QED BY <1>6, <3>1 DEF Has
    <2>4. CASE z >= x
      <3>1. \A y \in m : z >= y
        BY <2>1, <2>2, <2>4
      <3> QED BY <1>6, <2>1, <3>1 DEF Has
    <2> QED BY <2>2, <2>3, <2>4
  <1> QED BY <1>8, <1>9, <1>10

\* There are finitely many images.
LEMMA FiniteRows ==
  ASSUME RowsInv
  PROVE  IsFiniteSet(DOMAIN rows)
  <1>1. ids \in Nat /\ DOMAIN rows \subseteq 1 .. ids
    BY DEF RowsInv
  <1>2. IsFiniteSet(1 .. ids)
    BY <1>1, FS_Interval
  <1> QED BY <1>1, <1>2, FS_Subset

\* So the sort of an upload is a natural number.
LEMMA NextSort ==
  ASSUME RowsInv
  PROVE  Max({ rows[k].sort + 1 : k \in DOMAIN rows } \cup {0}) \in Nat
  <1> DEFINE T == { rows[k].sort + 1 : k \in DOMAIN rows }
             f == [k \in DOMAIN rows |-> rows[k].sort + 1]
  <1>1. T \subseteq Nat
    BY DEF RowsInv, GoodRows
  <1>2. f \in Surjection(DOMAIN rows, T)
    BY DEF Surjection
  <1> HIDE DEF f, T
  <1>3. IsFiniteSet(T)
    BY <1>2, FiniteRows, FS_Surjection
  <1>4. IsFiniteSet(T \cup {0}) /\ T \cup {0} \subseteq Nat /\ T \cup {0} # {}
    BY <1>1, <1>3, FS_AddElement
  <1>5. Max(T \cup {0}) \in Nat
    BY <1>4, MaxIsThere
  <1> QED BY <1>5 DEF T

\* An upload is the cover of a unit that has none, and of no other.
LEMMA UploadKeepsCovers ==
  ASSUME RowsInv
  PROVE  /\ GoodRows(Uploaded) /\ DOMAIN Uploaded = DOMAIN rows \cup {ids + 1}
         /\ CoverIds(rows) # {} => CoverIds(Uploaded) = CoverIds(rows)
  <1> DEFINE t == Uploaded
  <1>1. ids + 1 \notin DOMAIN rows
    BY DEF RowsInv
  <1>2. DOMAIN t = DOMAIN rows \cup {ids + 1} /\ \A j \in DOMAIN rows : t[j] = rows[j]
    BY <1>1 DEF Uploaded
  <1>3. PICK c \in BOOLEAN : /\ c <=> CoverIds(rows) = {}
                            /\ \E s \in Nat : t[ids + 1] = [sort |-> s, cover |-> c]
    <2>1. CASE CoverIds(rows) = {}
      <3>1. \E s \in Nat : t[ids + 1] = [sort |-> s, cover |-> TRUE]
        BY <1>1, <2>1, NextSort DEF Uploaded
      <3> QED BY <2>1, <3>1
    <2>2. CASE CoverIds(rows) # {}
      <3>1. \E s \in Nat : t[ids + 1] = [sort |-> s, cover |-> FALSE]
        BY <1>1, <2>2, NextSort DEF Uploaded
      <3> QED BY <2>2, <3>1
    <2> QED BY <2>1, <2>2
  <1> HIDE DEF t
  <1>4. CoverIds(t) = IF CoverIds(rows) = {} THEN {ids + 1} ELSE CoverIds(rows)
    BY <1>1, <1>2, <1>3 DEF CoverIds
  <1>5. GoodRows(t)
    <2>1. ASSUME NEW j \in DOMAIN t
          PROVE  /\ t[j] = [sort |-> t[j].sort, cover |-> t[j].cover]
                 /\ t[j].sort \in Nat /\ t[j].cover \in BOOLEAN
      <3>1. CASE j = ids + 1
        BY <1>3, <3>1
      <3>2. CASE j # ids + 1
        BY <1>2, <2>1, <3>2 DEF RowsInv, GoodRows
      <3> QED BY <3>1, <3>2
    <2>2. \A j, k \in CoverIds(t) : j = k
      BY <1>4 DEF RowsInv, GoodRows
    <2> QED BY <2>1, <2>2 DEF GoodRows
  <1> QED BY <1>2, <1>4, <1>5 DEF t

\* What a step may do to the rows.
CoversMoveAsAsked ==
  \A i \in CoverIds(rows) \cap DOMAIN rows' : CoverIds(rows') # {i} =>
       \/ \E j \in DOMAIN rows : OthersCover(j)
       \/ updateImage /\ CoverIds(rows') = {Oldest.id}

\* A step that leaves the covers it knows alone.
LEMMA SameCovers ==
  ASSUME RowsInv, CoverIds(rows) # {} => CoverIds(rows') = CoverIds(rows)
  PROVE  CoversMoveAsAsked
  BY DEF RowsInv, GoodRows, CoversMoveAsAsked

\* Every step keeps the rows, and moves the cover only when asked.
LEMMA RowsStep ==
  ASSUME RowsInv, [ImagesNext]_imagevars, reorderImages => Oldest.left[1][2] \in Nat
  PROVE  RowsInv' /\ CoversMoveAsAsked
  <1>1. CASE UNCHANGED << rows, ids >>
    BY <1>1, SameCovers DEF RowsInv, GoodRows, CoverIds
  <1>2. CASE rows' = Uploaded /\ ids' = ids + 1
    <2>1. DOMAIN rows' \subseteq 1 .. ids' /\ ids' \in Nat
      BY <1>2, UploadKeepsCovers DEF RowsInv
    <2>2. GoodRows(rows')
      BY <1>2, UploadKeepsCovers
    <2>3. CoverIds(rows) # {} => CoverIds(rows') = CoverIds(rows)
      BY <1>2, UploadKeepsCovers
    <2>4. CoversMoveAsAsked
      BY <2>3, SameCovers
    <2> QED BY <2>1, <2>2, <2>4 DEF RowsInv, GoodRows, CoverIds
  <1>3. ASSUME NEW i \in DOMAIN rows, NEW s \in Nat, rows' = [rows EXCEPT ![i].sort = s], ids' = ids
        PROVE  RowsInv' /\ CoversMoveAsAsked
    <2>1. GoodRows(rows') /\ DOMAIN rows' = DOMAIN rows /\ CoverIds(rows') = CoverIds(rows)
      BY <1>3, SortKeepsCovers DEF RowsInv
    <2> QED BY <1>3, <2>1, SameCovers DEF RowsInv, GoodRows, CoverIds
  <1>4. ASSUME NEW i \in DOMAIN rows, rows' = Cover(rows, i), ids' = ids
        PROVE  RowsInv' /\ CoverIds(rows') = {i}
    <2>1. GoodRows(rows') /\ DOMAIN rows' = DOMAIN rows /\ CoverIds(rows') = {i}
      BY <1>4, CoverIsAlone DEF RowsInv
    <2> QED BY <1>4, <2>1 DEF RowsInv, GoodRows, CoverIds
  <1>5. ASSUME NEW i, rows' = Drop(i), ids' = ids
        PROVE  RowsInv' /\ CoversMoveAsAsked
    <2>1. /\ GoodRows(rows') /\ DOMAIN rows' = DOMAIN rows \ {i}
          /\ CoverIds(rows') = CoverIds(rows) \ {i}
      BY <1>5, DropKeepsCovers
    <2>2. CoversMoveAsAsked
      BY <2>1 DEF RowsInv, GoodRows, CoversMoveAsAsked
    <2> QED BY <1>5, <2>1, <2>2 DEF RowsInv, GoodRows, CoverIds
  <1>6. CASE uploadImage \/ OthersUpload
    BY <1>2, <1>6 DEF uploadImage, OthersUpload
  <1>7. CASE reorderImages
    <2>1. /\ Oldest.left[1][1] \in DOMAIN rows /\ ids' = ids
          /\ rows' = Sorted(Oldest.left[1][1], Oldest.left[1][2])
      BY <1>7 DEF reorderImages
    <2> QED BY <1>3, <1>7, <2>1 DEF Sorted
  <1>8. CASE updateImage
    <2>1. Oldest.id \in DOMAIN rows /\ ids' = ids
      BY <1>8 DEF updateImage
    <2>2. CASE Oldest.kind = "cover"
      <3>1. rows' = Cover(rows, Oldest.id)
        BY <1>8, <2>2 DEF updateImage
      <3>2. RowsInv' /\ CoverIds(rows') = {Oldest.id}
        BY <1>4, <2>1, <3>1
      <3> QED BY <1>8, <3>2 DEF CoversMoveAsAsked
    <2>3. CASE Oldest.kind # "cover"
      BY <1>1, <1>8, <2>1, <2>3 DEF updateImage
    <2> QED BY <2>2, <2>3
  <1>9. CASE deleteImage
    BY <1>5, <1>9 DEF deleteImage
  <1>10. ASSUME NEW i \in DOMAIN rows, NEW s \in 0 .. MaxSort, OthersSort(i, s)
         PROVE  RowsInv' /\ CoversMoveAsAsked
    <2>1. s \in Nat
      BY ImagesAssumption
    <2> QED BY <1>3, <1>10, <2>1 DEF OthersSort
  <1>11. ASSUME NEW i \in DOMAIN rows, OthersCover(i)
         PROVE  RowsInv' /\ CoversMoveAsAsked
    <2>1. RowsInv'
      BY <1>4, <1>11 DEF OthersCover
    <2> QED BY <1>11, <2>1 DEF CoversMoveAsAsked
  <1>12. ASSUME NEW i \in DOMAIN rows, OthersDrop(i)
         PROVE  RowsInv' /\ CoversMoveAsAsked
    BY <1>5, <1>12 DEF OthersDrop
  <1>13. CASE \/ \E n \in 1 .. 2 : uploadAll(n)
              \/ \E k \in DOMAIN images : move(k) \/ makeCover(k) \/ saveAlt(k) \/ askDelete(k)
              \/ \E k \in DOMAIN images : openPreview(k) \/ stepPreview(k)
              \/ closePreview \/ confirmImage \/ closeModal \/ TaskFails \/ RefreshArrives
              \/ UNCHANGED imagevars
    <2>1. UNCHANGED << rows, ids >>
      BY <1>13 DEF uploadAll, move, makeCover, saveAlt, askDelete, openPreview, stepPreview,
                   closePreview, confirmImage, closeModal, TaskFails, RefreshArrives, Do, stored,
                   imagevars
    <2> QED BY <1>1, <2>1
  <1> QED BY <1>6, <1>7, <1>8, <1>9, <1>10, <1>11, <1>12, <1>13 DEF ImagesNext

\* Rows that can be listed: finitely many, each with a number for a sort.
Listable(r) ==
  DOMAIN r \subseteq Nat /\ IsFiniteSet(DOMAIN r) /\ \A i \in DOMAIN r : r[i].sort \in Nat

Rank(r, i) == Cardinality(Earlier(r, i))

\* An image before another has fewer before it.
LEMMA EarlierIsFewer ==
  ASSUME NEW r, Listable(r), NEW i \in DOMAIN r, NEW j \in DOMAIN r, Before(r, i, j)
  PROVE  Rank(r, i) < Rank(r, j)
  <1>1. Earlier(r, i) \subseteq Earlier(r, j) /\ i \in Earlier(r, j) /\ i \notin Earlier(r, i)
    BY DEF Listable, Earlier, Before
  <1>2. IsFiniteSet(Earlier(r, j))
    BY FS_Subset DEF Listable, Earlier
  <1> DEFINE A == Earlier(r, i)  B == Earlier(r, j)
  <1>3. A \in SUBSET B /\ A # B /\ IsFiniteSet(B)
    BY <1>1, <1>2
  <1> HIDE DEF A, B
  <1>4. IsFiniteSet(A) /\ Cardinality(A) <= Cardinality(B) /\ Cardinality(A) # Cardinality(B)
    BY <1>3, FS_Subset
  <1>5. Cardinality(A) \in Nat /\ Cardinality(B) \in Nat
    BY <1>3, <1>4, FS_CardinalityType
  <1>6. Cardinality(A) < Cardinality(B)
    BY <1>4, <1>5
  <1> QED BY <1>6 DEF A, B, Rank

\* Every place of the list has its image, and every image its place.
LEMMA PlacesAndImages ==
  ASSUME NEW r, Listable(r)
  PROVE  /\ Cardinality(DOMAIN r) \in Nat
         /\ \A i \in DOMAIN r : Rank(r, i) \in 0 .. Cardinality(DOMAIN r) - 1
         /\ \A k \in 1 .. Cardinality(DOMAIN r) : \E i \in DOMAIN r : Rank(r, i) = k - 1
         /\ \A i, j \in DOMAIN r : Rank(r, i) = Rank(r, j) => i = j
  <1> DEFINE D == DOMAIN r
             n == Cardinality(D)
             f == [i \in D |-> Rank(r, i)]
  <1>1. IsFiniteSet(D) /\ n \in Nat
    BY FS_CardinalityType DEF Listable
  <1>2. ASSUME NEW i \in D
        PROVE  Rank(r, i) \in 0 .. n - 1
    <2> DEFINE A == Earlier(r, i)
               B == D \ {i}
    <2>1. A \in SUBSET B
      BY DEF Listable, Earlier, Before
    <2>2. IsFiniteSet(B) /\ Cardinality(B) = n - 1
      <3> HIDE DEF D
      <3> QED BY <1>1, <1>2, FS_RemoveElement
    <2> HIDE DEF A, B
    <2>3. IsFiniteSet(A) /\ Cardinality(A) <= Cardinality(B)
      BY <2>1, <2>2, FS_Subset
    <2>4. Cardinality(A) \in Nat
      BY <2>3, FS_CardinalityType
    <2>5. Cardinality(A) \in 0 .. n - 1
      <3> HIDE DEF D, n
      <3> QED BY <1>1, <2>2, <2>3, <2>4
    <2> QED BY <2>5 DEF A, Rank
  <1>3. ASSUME NEW i \in D, NEW j \in D, Rank(r, i) = Rank(r, j)
        PROVE  i = j
    <2>1. Rank(r, i) \in Nat
      <3> HIDE DEF D, n
      <3> QED BY <1>1, <1>2
    <2>2. i = j \/ Before(r, i, j) \/ Before(r, j, i)
      BY DEF Listable, Before
    <2>3. CASE Before(r, i, j)
      <3>1. Rank(r, i) < Rank(r, j)
        BY <2>3, EarlierIsFewer
      <3> QED BY <1>3, <2>1, <3>1
    <2>4. CASE Before(r, j, i)
      <3>1. Rank(r, j) < Rank(r, i)
        BY <2>4, EarlierIsFewer
      <3> QED BY <1>3, <2>1, <3>1
    <2> QED BY <2>2, <2>3, <2>4
  <1>4. f \in Injection(D, 0 .. n - 1)
    BY <1>2, <1>3 DEF Injection, IsInjective
  <1>5. IsFiniteSet(0 .. n - 1) /\ Cardinality(0 .. n - 1) = n
    <2> HIDE DEF n
    <2> QED BY <1>1, FS_Interval
  <1>6. f \in Surjection(D, 0 .. n - 1)
    <2> DEFINE T == 0 .. n - 1
    <2>1. f \in Injection(D, T) /\ IsFiniteSet(T) /\ Cardinality(D) = Cardinality(T)
      BY <1>4, <1>5
    <2> HIDE DEF f, T, D, n
    <2>2. f \in Surjection(D, T)
      BY <2>1, FS_Injection
    <2> QED BY <2>2 DEF T
  <1>7. ASSUME NEW k \in 1 .. n
        PROVE  \E i \in D : Rank(r, i) = k - 1
    <2>1. k - 1 \in 0 .. n - 1
      <3> HIDE DEF n
      <3> QED BY <1>1, <1>7
    <2> QED BY <1>6, <2>1 DEF Surjection
  <1> QED BY <1>1, <1>2, <1>3, <1>7

\* What the page shows: each image once, and one before another above it.
LEMMA PageInOrder ==
  ASSUME NEW r, Listable(r)
  PROVE  LET p == OnPage(r)
         IN /\ \E n \in Nat : DOMAIN p = 1 .. n
            /\ \A k \in DOMAIN p : p[k].id \in DOMAIN r
            /\ \A i \in DOMAIN r : \E k \in DOMAIN p : p[k].id = i
            /\ \A k, l \in DOMAIN p : p[k].id = p[l].id => k = l
            /\ \A k, l \in DOMAIN p : Before(r, p[k].id, p[l].id) => k < l
  <1> DEFINE D == DOMAIN r
             n == Cardinality(D)
             p == OnPage(r)
             s == InOrder(r)
  <1>1. DOMAIN s = 1 .. n /\ DOMAIN p = 1 .. n /\ \A k \in 1 .. n : p[k].id = s[k]
    BY DEF InOrder, OnPage
  <1>2. ASSUME NEW k \in 1 .. n
        PROVE  s[k] \in D /\ Rank(r, s[k]) = k - 1
    <2>1. \E i \in D : Cardinality(Earlier(r, i)) = k - 1
      BY <1>2, PlacesAndImages DEF Rank
    <2>2. s[k] = CHOOSE i \in D : Cardinality(Earlier(r, i)) = k - 1
      BY DEF InOrder
    <2> QED BY <2>1, <2>2 DEF Rank
  <1>3. /\ n \in Nat
        /\ \A i \in D : Rank(r, i) \in 0 .. n - 1
        /\ \A i, j \in D : Rank(r, i) = Rank(r, j) => i = j
    BY PlacesAndImages
  <1> HIDE DEF n, p, s
  <1>4. \A k \in DOMAIN p : p[k].id \in D /\ Rank(r, p[k].id) = k - 1
    BY <1>1, <1>2
  <1>5. ASSUME NEW i \in D
        PROVE  \E k \in DOMAIN p : p[k].id = i
    <2> DEFINE k == Rank(r, i) + 1
    <2>1. k \in 1 .. n /\ Rank(r, i) = k - 1
      <3>1. Rank(r, i) \in 0 .. n - 1
        BY <1>3
      <3> QED BY <1>3, <3>1
    <2> HIDE DEF k
    <2>2. Rank(r, p[k].id) = Rank(r, i)
      BY <1>1, <1>4, <2>1
    <2>3. p[k].id = i
      BY <1>1, <1>3, <1>4, <2>1, <2>2
    <2> QED BY <1>1, <2>1, <2>3
  <1>6. ASSUME NEW k \in DOMAIN p, NEW l \in DOMAIN p, p[k].id = p[l].id
        PROVE  k = l
    <2>1. k - 1 = l - 1 /\ k \in Int /\ l \in Int
      BY <1>1, <1>4, <1>6
    <2> QED BY <2>1
  <1>7. ASSUME NEW k \in DOMAIN p, NEW l \in DOMAIN p, Before(r, p[k].id, p[l].id)
        PROVE  k < l
    <2>1. p[k].id \in D /\ p[l].id \in D /\ k \in Int /\ l \in Int
      BY <1>1, <1>4
    <2>2. Rank(r, p[k].id) < Rank(r, p[l].id)
      BY <1>7, <2>1, EarlierIsFewer
    <2>3. k - 1 < l - 1
      BY <1>4, <2>2
    <2> QED BY <2>1, <2>3
  <1> QED BY <1>1, <1>3, <1>4, <1>5, <1>6, <1>7 DEF p

Plain == [kind : {"upload"}, left : Nat] \cup [kind : {"cover", "alt", "delete"}, id : Nat]
Orders == [kind : {"order"}, left : Seq(Nat \X Nat), asked : Seq(Nat)]

\* The PATCHes of an order that are through.
Sent(t) == Len(t.asked) - Len(t.left)

\* An order under way: what is left are its last PATCHes, and the images of the
\* others stand where they were asked to, unless the orders were mixed.
OrderOK(t, r, last, mx) ==
  /\ Len(t.left) \in 1 .. Len(t.asked)
  /\ \A j \in DOMAIN t.asked : t.asked[j] \in 1 .. last
  /\ \A j, k \in DOMAIN t.asked : t.asked[j] = t.asked[k] => j = k
  /\ \A m \in DOMAIN t.left : t.left[m] = << t.asked[Sent(t) + m], Sent(t) + m - 1 >>
  /\ ~mx => \A j \in 1 .. Sent(t) : t.asked[j] \in DOMAIN r => r[t.asked[j]].sort = j - 1

\* Only the oldest task orders.
TasksOK(ts, r, last, mx) ==
  /\ ts \in Seq(Plain \cup Orders)
  /\ \A k \in DOMAIN ts : ts[k].kind = "order" => k = 1 /\ OrderOK(ts[k], r, last, mx)

\* A list of images, each once.
PageOK(p, last) ==
  /\ \E n \in Nat : DOMAIN p = 1 .. n
  /\ \A k \in DOMAIN p : p[k].id \in 1 .. last
  /\ \A k, l \in DOMAIN p : p[k].id = p[l].id => k = l

\* The inductive invariant.
PhotosInv ==
  /\ RowsInv
  /\ mixed \in BOOLEAN /\ confirming \in Nat
  /\ PageOK(images, ids)
  /\ TasksOK(tasks, rows, ids, mixed)

\* What does not order is no order.
LEMMA PlainOrOrder ==
  /\ \A t \in Plain : t.kind # "order"
  /\ \A t \in Orders : t.kind = "order"
  BY DEF Plain, Orders

\* If there is an order, the images it knows keep their sorts, or the change is
\* noted.
Noted(ts, r, s, last, m1, m2) ==
  (\E k \in DOMAIN ts : ts[k].kind = "order") =>
    \/ m2
    \/ ~m1 /\ \A i \in 1 .. last : i \in DOMAIN s => i \in DOMAIN r /\ s[i].sort = r[i].sort

\* Then the order stays right.
LEMMA OrderStays ==
  ASSUME NEW ts, NEW r, NEW s, NEW last \in Nat, NEW new \in Nat,
         NEW m1 \in BOOLEAN, NEW m2 \in BOOLEAN,
         TasksOK(ts, r, last, m1), last <= new, Noted(ts, r, s, last, m1, m2)
  PROVE  TasksOK(ts, s, new, m2)
  <1> SUFFICES ASSUME NEW k \in DOMAIN ts, ts[k].kind = "order"
               PROVE  OrderOK(ts[k], s, new, m2)
    BY DEF TasksOK
  <1> DEFINE t == ts[k]
  <1>1. OrderOK(t, r, last, m1)
    BY DEF TasksOK
  <1>2. \/ m2
        \/ ~m1 /\ \A i \in 1 .. last : i \in DOMAIN s => i \in DOMAIN r /\ s[i].sort = r[i].sort
    BY DEF Noted
  <1>3. t.asked \in Seq(Nat) /\ t.left \in Seq(Nat \X Nat)
    <2>1. t \in Plain \cup Orders
      BY DEF TasksOK
    <2>2. t \in Orders
      BY <2>1, PlainOrOrder
    <2> QED BY <2>2 DEF Orders
  <1> HIDE DEF t
  <1>4. 1 .. last \subseteq 1 .. new
    OBVIOUS
  <1>5. \A j \in 1 .. Sent(t) : j \in DOMAIN t.asked
    BY <1>1, <1>3 DEF OrderOK, Sent
  <1>6. ~m2 => \A j \in 1 .. Sent(t) : t.asked[j] \in DOMAIN s => s[t.asked[j]].sort = j - 1
    BY <1>1, <1>2, <1>5 DEF OrderOK
  <1>7. OrderOK(t, s, new, m2)
    BY <1>1, <1>4, <1>6 DEF OrderOK
  <1> QED BY <1>7 DEF t

\* Tasks that do not order need nothing.
LEMMA PlainTasks ==
  ASSUME NEW ts \in Seq(Plain), NEW r, NEW last, NEW mx
  PROVE  TasksOK(ts, r, last, mx)
  <1>1. \A k \in DOMAIN ts : ts[k] \in Plain
    OBVIOUS
  <1>2. ts \in Seq(Plain \cup Orders)
    OBVIOUS
  <1> QED BY <1>1, <1>2, PlainOrOrder DEF TasksOK

\* A task that does not order may come last.
LEMMA PlainComesLast ==
  ASSUME NEW ts, NEW r, NEW last, NEW mx, TasksOK(ts, r, last, mx), NEW t \in Plain
  PROVE  TasksOK(Append(ts, t), r, last, mx)
  <1> DEFINE us == Append(ts, t)
  <1>1. ts \in Seq(Plain \cup Orders) /\ t \in Plain \cup Orders /\ t.kind # "order"
    BY PlainOrOrder DEF TasksOK
  <1>2. us \in Seq(Plain \cup Orders)
    BY <1>1
  <1>3. \A k \in DOMAIN us : (k \in DOMAIN ts /\ us[k] = ts[k]) \/ us[k] = t
    BY <1>1
  <1> HIDE DEF us
  <1>4. TasksOK(us, r, last, mx)
    BY <1>1, <1>2, <1>3 DEF TasksOK
  <1> QED BY <1>4 DEF us

\* Behind the oldest task nothing orders.
LEMMA NoOrderBehind ==
  ASSUME NEW ts, NEW r, NEW last, NEW mx, TasksOK(ts, r, last, mx), ts # << >>
  PROVE  /\ Tail(ts) \in Seq(Plain)
         /\ ts[1] \in Plain \cup Orders
         /\ ts[1].kind = "order" => ts[1] \in Orders /\ OrderOK(ts[1], r, last, mx)
         /\ ts[1].kind # "order" => \A k \in DOMAIN ts : ts[k].kind # "order"
  <1>1. ts \in Seq(Plain \cup Orders) /\ Len(ts) \in Nat \ {0}
    BY DEF TasksOK
  <1>2. 1 \in DOMAIN ts /\ \A k \in DOMAIN ts : ts[k] \in Plain \cup Orders
    BY <1>1
  <1>3. Tail(ts) \in Seq(Plain \cup Orders) /\ Len(Tail(ts)) = Len(ts) - 1
        /\ \A k \in 1 .. Len(ts) - 1 : Tail(ts)[k] = ts[k + 1]
    BY <1>1
  <1>4. \A k \in 1 .. Len(ts) - 1 : k + 1 \in DOMAIN ts /\ k + 1 # 1
    BY <1>1
  <1>5. \A k \in 1 .. Len(ts) - 1 : Tail(ts)[k] \in Plain
    BY <1>2, <1>3, <1>4, PlainOrOrder DEF TasksOK
  <1>6. Tail(ts) \in Seq(Plain)
    <2> DEFINE us == Tail(ts)
    <2>1. us \in Seq(Plain \cup Orders) /\ \A k \in 1 .. Len(us) : us[k] \in Plain
      BY <1>3, <1>5
    <2> HIDE DEF us
    <2>2. us \in [1 .. Len(us) -> Plain] /\ Len(us) \in Nat
      BY <2>1
    <2>3. us \in Seq(Plain)
      BY <2>2
    <2> QED BY <2>3 DEF us
  <1> QED BY <1>2, <1>6, PlainOrOrder DEF TasksOK

\* An order that is begun: two neighbours are swapped, and nothing is sent.
LEMMA OrderBegins ==
  ASSUME PageOK(images, ids), ids \in Nat, NEW k \in DOMAIN images, k + 1 \in DOMAIN images,
         NEW r, NEW mx
  PROVE  TasksOK(<< [kind |-> "order", left |-> Patches(k), asked |-> Asked(k)] >>, r, ids, mx)
  <1> DEFINE a == Asked(k)
             l == Patches(k)
             t == [kind |-> "order", left |-> l, asked |-> a]
  <1>1. PICK n \in Nat : DOMAIN images = 1 .. n
    BY DEF PageOK
  <1>2. n >= 2 /\ k \in 1 .. n - 1
    BY <1>1
  <1>3. a = [j \in 1 .. n |-> a[j]] /\ l = [j \in 1 .. n |-> l[j]]
    BY <1>1 DEF Asked, Patches
  <1>4. \A j \in 1 .. n : a[j] = images[IF j = k THEN k + 1 ELSE IF j = k + 1 THEN k ELSE j].id
    BY <1>1 DEF Asked
  <1>5. \A j \in 1 .. n : l[j] = << a[j], j - 1 >>
    BY <1>1 DEF Patches
  <1> HIDE DEF a, l
  <1>6. \A j \in 1 .. n : a[j] \in 1 .. ids
    BY <1>1, <1>2, <1>4 DEF PageOK
  <1>7. ASSUME NEW i \in 1 .. n, NEW j \in 1 .. n, a[i] = a[j]
        PROVE  i = j
    <2> DEFINE at(x) == IF x = k THEN k + 1 ELSE IF x = k + 1 THEN k ELSE x
    <2>1. at(i) \in DOMAIN images /\ at(j) \in DOMAIN images
      BY <1>1, <1>2
    <2>2. images[at(i)].id = images[at(j)].id
      BY <1>4, <1>7
    <2>3. at(i) = at(j)
      <3> HIDE DEF at
      <3> QED BY <2>1, <2>2 DEF PageOK
    <2> QED BY <1>2, <2>3
  <1>8. a \in Seq(Nat) /\ Len(a) = n
    <2>1. \A j \in 1 .. n : a[j] \in Nat
      BY <1>6
    <2>2. a \in [1 .. n -> Nat]
      BY <1>3, <2>1
    <2> QED BY <2>2
  <1>9. l \in Seq(Nat \X Nat) /\ Len(l) = n
    <2>1. \A j \in 1 .. n : a[j] \in Nat /\ j - 1 \in Nat
      BY <1>6
    <2>2. ASSUME NEW j \in 1 .. n
          PROVE  l[j] \in Nat \X Nat
      <3>1. l[j] = << a[j], j - 1 >> /\ a[j] \in Nat /\ j - 1 \in Nat
        BY <1>5, <2>1
      <3> QED BY <3>1
    <2>3. l \in [1 .. n -> Nat \X Nat]
      BY <1>3, <2>2
    <2> QED BY <2>3
  <1>10. t \in Orders /\ t.left = l /\ t.asked = a
    BY <1>8, <1>9 DEF Orders
  <1> HIDE DEF t
  <1>11. Sent(t) = 0
    BY <1>8, <1>9, <1>10 DEF Sent
  <1>12. OrderOK(t, r, ids, mx)
    <2>1. \A m \in DOMAIN l : l[m] = << a[0 + m], 0 + m - 1 >>
      BY <1>3, <1>5
    <2>2. Len(l) \in 1 .. Len(a)
      BY <1>2, <1>8, <1>9
    <2>3. DOMAIN a = 1 .. n /\ DOMAIN l = 1 .. n
      BY <1>3
    <2>4. \A m \in DOMAIN t.left : t.left[m] = << t.asked[Sent(t) + m], Sent(t) + m - 1 >>
      BY <1>10, <1>11, <2>1
    <2>5. \A j \in 1 .. Sent(t) : FALSE
      BY <1>11
    <2> QED BY <1>6, <1>7, <1>10, <2>2, <2>3, <2>4, <2>5 DEF OrderOK
  <1>13. << t >> \in Seq(Plain \cup Orders) /\ DOMAIN << t >> = {1} /\ << t >>[1] = t
    BY <1>10
  <1>14. TasksOK(<< t >>, r, ids, mx)
    BY <1>12, <1>13 DEF TasksOK
  <1> QED BY <1>14 DEF t, a, l

\* A PATCH that is through gives an image its place and leaves the others.
LEMMA PatchPlaces ==
  ASSUME NEW t \in Orders, NEW r, NEW last, NEW mx, OrderOK(t, r, last, mx),
         t.left[1][1] \in DOMAIN r,
         \A i \in DOMAIN r : r[i] = [sort |-> r[i].sort, cover |-> r[i].cover]
  PROVE  LET s == [r EXCEPT ![t.left[1][1]].sort = t.left[1][2]]
         IN ~mx => \A j \in 1 .. Sent(t) + 1 :
                     t.asked[j] \in DOMAIN s => s[t.asked[j]].sort = j - 1
  <1> DEFINE d == Sent(t)
             s == [r EXCEPT ![t.left[1][1]].sort = t.left[1][2]]
  <1>1. t.asked \in Seq(Nat) /\ t.left \in Seq(Nat \X Nat) /\ Len(t.left) \in 1 .. Len(t.asked)
    BY DEF Orders, OrderOK
  <1>2. d \in Nat /\ d + 1 \in 1 .. Len(t.asked) /\ 1 \in DOMAIN t.left
    <2>1. /\ Len(t.asked) \in Nat /\ DOMAIN t.asked = 1 .. Len(t.asked)
          /\ Len(t.left) \in Nat /\ DOMAIN t.left = 1 .. Len(t.left)
      BY <1>1
    <2>2. d = Len(t.asked) - Len(t.left)
      BY DEF Sent
    <2>3. PICK x \in Nat : x = Len(t.asked)
      BY <2>1
    <2>4. PICK y \in Nat : y = Len(t.left)
      BY <2>1
    <2>5. y \in 1 .. x
      BY <1>1, <2>3, <2>4
    <2>6. x - y \in Nat /\ x - y + 1 \in 1 .. x /\ 1 \in 1 .. y
      BY <2>5
    <2> HIDE DEF d
    <2> QED BY <2>1, <2>2, <2>3, <2>4, <2>6
  <1> HIDE DEF d
  <1>3. t.left[1] = << t.asked[d + 1], d + 1 - 1 >>
    BY <1>2 DEF OrderOK, d
  <1> DEFINE i == t.asked[d + 1]
  <1>4. i \in DOMAIN r /\ s = [r EXCEPT ![i].sort = d]
    <2>1. t.left[1][1] = i /\ t.left[1][2] = d
      BY <1>2, <1>3
    <2> QED BY <2>1
  <1>5. /\ DOMAIN s = DOMAIN r /\ s[i] = [r[i] EXCEPT !.sort = d]
        /\ \A x \in DOMAIN r : x # i => s[x] = r[x]
    BY <1>4
  <1> HIDE DEF s
  <1>6. s[i].sort = d
    <2>1. r[i] = [sort |-> r[i].sort, cover |-> r[i].cover]
      BY <1>4
    <2> QED BY <1>5, <2>1
  <1> HIDE DEF i
  <1>7. \A j \in 1 .. d : j \in DOMAIN t.asked /\ d + 1 \in DOMAIN t.asked /\ j # d + 1
    <2>1. DOMAIN t.asked = 1 .. Len(t.asked) /\ Len(t.asked) \in Nat
      BY <1>1
    <2> QED BY <1>2, <2>1
  <1>8. \A j \in 1 .. d : t.asked[j] # i
    BY <1>7 DEF OrderOK, i
  <1>9. ~mx => \A j \in 1 .. d : t.asked[j] \in DOMAIN r => r[t.asked[j]].sort = j - 1
    BY DEF OrderOK, d
  <1> SUFFICES ASSUME ~mx, NEW j \in 1 .. d + 1, t.asked[j] \in DOMAIN s
               PROVE  s[t.asked[j]].sort = j - 1
    BY DEF d, s
  <1>10. CASE j = d + 1
    BY <1>2, <1>6, <1>10 DEF i
  <1>11. CASE j # d + 1
    <2>1. j \in 1 .. d
      BY <1>2, <1>11
    <2> QED BY <1>5, <1>8, <1>9, <2>1
  <1> QED BY <1>10, <1>11

\* Rows can be listed, and a page of them shows each once.
LEMMA PageOfRows ==
  ASSUME NEW r, NEW last \in Nat, DOMAIN r \subseteq 1 .. last, GoodRows(r)
  PROVE  Listable(r) /\ PageOK(OnPage(r), last)
  <1>1. IsFiniteSet(1 .. last)
    BY FS_Interval
  <1>2. IsFiniteSet(DOMAIN r)
    BY <1>1, FS_Subset
  <1>3. Listable(r)
    BY <1>2 DEF GoodRows, Listable
  <1> DEFINE p == OnPage(r)
  <1>4. /\ \E n \in Nat : DOMAIN p = 1 .. n
        /\ \A k \in DOMAIN p : p[k].id \in DOMAIN r
        /\ \A k, l \in DOMAIN p : p[k].id = p[l].id => k = l
    BY <1>3, PageInOrder
  <1> HIDE DEF p
  <1>5. PageOK(p, last)
    BY <1>4 DEF PageOK
  <1> QED BY <1>3, <1>5 DEF p

\* What the last PATCH of an order leaves on the page.
OrderIsShown ==
  reorderImages /\ tasks' = Tail(tasks) /\ ~mixed =>
    /\ \A i \in DOMAIN rows' : \E m \in DOMAIN images' : images'[m].id = i
    /\ \A j, k \in DOMAIN Oldest.asked, m, n \in DOMAIN images' :
         j < k /\ images'[m].id = Oldest.asked[j] /\ images'[n].id = Oldest.asked[k]
         => m < n

\* A PATCH of an order: it is shown when the last is through, and stays right
\* until then.
LEMMA PatchStep ==
  ASSUME PhotosInv, RowsInv', reorderImages
  PROVE  OrderIsShown /\ TasksOK(tasks, rows, ids, mixed)'
  <1> DEFINE t == Oldest
             d == Sent(t)
  <1>1. tasks # << >> /\ t.kind = "order" /\ TasksOK(tasks, rows, ids, mixed)
    BY DEF reorderImages, busyImages, PhotosInv
  <1>2. t \in Orders /\ OrderOK(t, rows, ids, mixed) /\ Tail(tasks) \in Seq(Plain)
    BY <1>1, NoOrderBehind DEF Oldest
  <1>3. /\ t.left[1][1] \in DOMAIN rows
        /\ rows' = [rows EXCEPT ![t.left[1][1]].sort = t.left[1][2]]
        /\ ids' = ids
    BY DEF reorderImages, Sorted
  <1>4. \A i \in DOMAIN rows : rows[i] = [sort |-> rows[i].sort, cover |-> rows[i].cover]
    BY DEF PhotosInv, RowsInv, GoodRows
  <1>5. /\ t.asked \in Seq(Nat) /\ Len(t.asked) \in Nat /\ DOMAIN t.asked = 1 .. Len(t.asked)
        /\ t.left \in Seq(Nat \X Nat) /\ Len(t.left) \in 1 .. Len(t.asked)
        /\ DOMAIN t.left = 1 .. Len(t.left)
        /\ d = Len(t.asked) - Len(t.left)
    BY <1>2 DEF Orders, OrderOK, Sent
  <1> HIDE DEF t, d
  <1>6. ~mixed => \A j \in 1 .. d + 1 :
                    t.asked[j] \in DOMAIN rows' => rows'[t.asked[j]].sort = j - 1
    <2> DEFINE s == [rows EXCEPT ![t.left[1][1]].sort = t.left[1][2]]
    <2>1. ~mixed => \A j \in 1 .. Sent(t) + 1 :
                      t.asked[j] \in DOMAIN s => s[t.asked[j]].sort = j - 1
      BY <1>2, <1>3, <1>4, PatchPlaces
    <2> QED BY <1>3, <2>1 DEF d
  <1>7. CASE Len(t.left) > 1
    <2>1. tasks' = [tasks EXCEPT ![1].left = Tail(@)] /\ UNCHANGED mixed
      BY <1>7 DEF reorderImages, t
    <2> DEFINE u == [t EXCEPT !.left = Tail(t.left)]
    <2>2. /\ u = [kind |-> "order", left |-> Tail(t.left), asked |-> t.asked]
          /\ u.left = Tail(t.left) /\ u.asked = t.asked /\ u.kind = "order"
      <3>1. PICK l, a : t = [kind |-> "order", left |-> l, asked |-> a]
        BY <1>2 DEF Orders
      <3>2. t.left = l /\ t.asked = a
        BY <3>1
      <3>3. \A x : [t EXCEPT !.left = x] = [kind |-> "order", left |-> x, asked |-> a]
        BY <3>1
      <3>4. u = [kind |-> "order", left |-> Tail(t.left), asked |-> t.asked]
        BY <3>2, <3>3 DEF u
      <3> HIDE DEF u
      <3> QED BY <3>4
    <2> HIDE DEF u
    <2>3. /\ Tail(t.left) \in Seq(Nat \X Nat) /\ Len(Tail(t.left)) = Len(t.left) - 1
          /\ DOMAIN Tail(t.left) = 1 .. Len(t.left) - 1
          /\ \A m \in 1 .. Len(t.left) - 1 : Tail(t.left)[m] = t.left[m + 1]
      BY <1>5, <1>7
    <2>4. u \in Orders
      BY <1>5, <2>2, <2>3 DEF Orders
    <2>5. Sent(u) = d + 1
      <3>1. PICK x, y \in Nat : x = Len(t.asked) /\ y = Len(t.left)
        BY <1>5
      <3>2. Sent(u) = x - (y - 1)
        BY <2>2, <2>3, <3>1 DEF Sent
      <3> QED BY <1>5, <3>1, <3>2
    <2>6. \A m \in DOMAIN u.left : u.left[m] = << u.asked[Sent(u) + m], Sent(u) + m - 1 >>
      <3> SUFFICES ASSUME NEW m \in 1 .. Len(t.left) - 1
                   PROVE  t.left[m + 1] = << t.asked[d + 1 + m], d + 1 + m - 1 >>
        BY <2>2, <2>3, <2>5
      <3>1. m + 1 \in DOMAIN t.left /\ d \in Int /\ m \in Int
        BY <1>5
      <3>2. t.left[m + 1] = << t.asked[d + (m + 1)], d + (m + 1) - 1 >>
        BY <1>2, <3>1 DEF OrderOK, d
      <3>3. d + (m + 1) = d + 1 + m /\ d + (m + 1) - 1 = d + 1 + m - 1
        BY <3>1
      <3> QED BY <3>2, <3>3, Zenon
    <2>7. OrderOK(u, rows', ids', mixed')
      <3>1. Len(u.left) \in 1 .. Len(u.asked)
        <4>1. PICK x, y \in Nat : x = Len(t.asked) /\ y = Len(t.left)
          BY <1>5
        <4> QED BY <1>5, <1>7, <2>2, <2>3, <4>1
      <3>2. /\ \A j \in DOMAIN u.asked : u.asked[j] \in 1 .. ids'
            /\ \A j, k \in DOMAIN u.asked : u.asked[j] = u.asked[k] => j = k
        BY <1>2, <1>3, <2>2 DEF OrderOK
      <3>3. ~mixed' => \A j \in 1 .. Sent(u) :
                         u.asked[j] \in DOMAIN rows' => rows'[u.asked[j]].sort = j - 1
        BY <1>6, <2>1, <2>2, <2>5
      <3> QED BY <2>6, <3>1, <3>2, <3>3 DEF OrderOK
    <2>8. /\ tasks \in Seq(Plain \cup Orders) /\ 1 \in DOMAIN tasks
          /\ \A k \in DOMAIN tasks : tasks[k].kind = "order" => k = 1
      BY <1>1 DEF TasksOK
    <2>9. /\ DOMAIN tasks' = DOMAIN tasks /\ tasks'[1] = u
          /\ \A k \in DOMAIN tasks \ {1} : tasks'[k] = tasks[k]
      BY <2>1, <2>8 DEF u, t, Oldest
    <2>10. tasks' \in Seq(Plain \cup Orders)
      <3>1. tasks' = [tasks EXCEPT ![1] = u]
        BY <2>1, <2>8 DEF u, t, Oldest
      <3> QED BY <2>4, <2>8, <3>1
    <2>11. TasksOK(tasks', rows', ids', mixed')
      <3>1. \A k \in DOMAIN tasks' : tasks'[k].kind = "order" => k = 1
        BY <2>8, <2>9
      <3> QED BY <2>7, <2>9, <2>10, <3>1 DEF TasksOK
    <2>12. tasks' # Tail(tasks)
      BY <2>8, <2>9
    <2> QED BY <2>11, <2>12 DEF OrderIsShown
  <1>8. CASE ~ (Len(t.left) > 1)
    <2>1. tasks' = Tail(tasks) /\ images' = OnPage(rows')
      BY <1>8 DEF reorderImages, Done, t
    <2>2. TasksOK(tasks', rows', ids', mixed')
      BY <1>2, <2>1, PlainTasks
    <2>3. d + 1 = Len(t.asked)
      <3>1. PICK x, y \in Nat : x = Len(t.asked) /\ y = Len(t.left)
        BY <1>5
      <3>2. y \in 1 .. x /\ ~ (y > 1) /\ d = x - y
        BY <1>5, <1>8, <3>1
      <3>3. y = 1
        BY <3>2
      <3>4. d + 1 = x
        BY <3>2, <3>3
      <3> QED BY <3>1, <3>4
    <2>4. Listable(rows')
      BY PageOfRows DEF RowsInv
    <2> DEFINE r == rows'
               p == OnPage(r)
    <2>5. /\ \A k \in DOMAIN p : p[k].id \in DOMAIN r
          /\ \A i \in DOMAIN r : \E k \in DOMAIN p : p[k].id = i
          /\ \A k, l \in DOMAIN p : Before(r, p[k].id, p[l].id) => k < l
      BY <2>4, PageInOrder
    <2>6. p = images'
      BY <2>1
    <2> HIDE DEF p
    <2>7. ASSUME ~mixed, NEW j \in DOMAIN t.asked, NEW k \in DOMAIN t.asked,
                 NEW m \in DOMAIN p, NEW n \in DOMAIN p,
                 j < k, p[m].id = t.asked[j], p[n].id = t.asked[k]
          PROVE  m < n
      <3>1. r[t.asked[j]].sort = j - 1 /\ r[t.asked[k]].sort = k - 1
        BY <1>5, <1>6, <2>3, <2>5, <2>7
      <3>2. j - 1 < k - 1
        BY <1>5, <2>7
      <3>3. Before(r, p[m].id, p[n].id)
        BY <2>7, <3>1, <3>2 DEF Before
      <3> QED BY <2>5, <3>3
    <2>8. OrderIsShown
      BY <2>5, <2>6, <2>7 DEF OrderIsShown, t
    <2> QED BY <2>2, <2>8
  <1> QED BY <1>7, <1>8

\* A task begins at the end of the queue; its kind of step changes nothing else
\* that the invariant is about.
LEMMA TasksBegin ==
  ASSUME PhotosInv,
         \/ \E n \in 1 .. 2 : uploadAll(n)
         \/ \E k \in DOMAIN images : move(k) \/ makeCover(k) \/ saveAlt(k)
         \/ confirmImage
  PROVE  TasksOK(tasks', rows, ids, mixed) /\ UNCHANGED << rows, ids, images, mixed, confirming >>
  <1>1. TasksOK(tasks, rows, ids, mixed) /\ PageOK(images, ids) /\ ids \in Nat /\ confirming \in Nat
    BY DEF PhotosInv, RowsInv
  <1>2. ASSUME NEW t \in Plain, Do(t)
        PROVE  TasksOK(tasks', rows, ids, mixed)
    BY <1>1, <1>2, PlainComesLast DEF Do
  <1>3. UNCHANGED << rows, ids, images, mixed, confirming >>
    BY DEF uploadAll, move, makeCover, saveAlt, confirmImage, Do, stored, dialogs
  <1>4. ASSUME NEW n \in 1 .. 2, uploadAll(n)
        PROVE  TasksOK(tasks', rows, ids, mixed)
    <2>1. [kind |-> "upload", left |-> n] \in Plain
      BY DEF Plain
    <2> QED BY <1>2, <1>4, <2>1 DEF uploadAll
  <1>5. ASSUME NEW k \in DOMAIN images, makeCover(k) \/ saveAlt(k)
        PROVE  TasksOK(tasks', rows, ids, mixed)
    <2>1. images[k].id \in Nat
      BY <1>1 DEF PageOK
    <2>2. /\ [kind |-> "cover", id |-> images[k].id] \in Plain
          /\ [kind |-> "alt", id |-> images[k].id] \in Plain
      BY <2>1 DEF Plain
    <2> QED BY <1>2, <1>5, <2>2 DEF makeCover, saveAlt
  <1>6. CASE confirmImage
    <2> DEFINE t == [kind |-> "delete", id |-> confirming]
    <2>1. t \in Plain
      BY <1>1 DEF Plain
    <2>2. Do(t)
      BY <1>6 DEF confirmImage
    <2> HIDE DEF t
    <2> QED BY <1>2, <1>3, <2>1, <2>2
  <1>7. ASSUME NEW k \in DOMAIN images, move(k)
        PROVE  TasksOK(tasks', rows, ids, mixed)
    <2> DEFINE t == [kind |-> "order", left |-> Patches(k), asked |-> Asked(k)]
    <2>1. k + 1 \in DOMAIN images /\ tasks = << >> /\ tasks' = Append(tasks, t)
      BY <1>7 DEF move, Do, busyImages
    <2>2. TasksOK(<< t >>, rows, ids, mixed)
      BY <1>1, <2>1, OrderBegins
    <2> HIDE DEF t
    <2>3. Append(tasks, t) = << t >>
      BY <2>1
    <2> QED BY <2>1, <2>2, <2>3
  <1> QED BY <1>3, <1>4, <1>5, <1>6, <1>7

\* A task that ends, or goes on to its next file, leaves no order behind.
LEMMA TasksEnd ==
  ASSUME PhotosInv, uploadImage \/ updateImage \/ deleteImage \/ TaskFails
  PROVE  TasksOK(tasks, rows, ids, mixed)'
  <1>1. TasksOK(tasks, rows, ids, mixed) /\ tasks # << >>
    BY DEF PhotosInv, uploadImage, updateImage, deleteImage, TaskFails, busyImages
  <1>2. Tail(tasks) \in Seq(Plain) /\ Oldest \in Plain \cup Orders
    BY <1>1, NoOrderBehind DEF Oldest
  <1>3. tasks' \in Seq(Plain)
    <2>1. CASE tasks' = Tail(tasks)
      BY <1>2, <2>1
    <2>2. CASE uploadImage /\ Oldest.left > 1
      <3> DEFINE t == [Oldest EXCEPT !.left = @ - 1]
      <3>1. tasks' = Append(Tail(tasks), t)
        BY <2>2 DEF uploadImage
      <3>2. Oldest \in [kind : {"upload"}, left : Nat]
        BY <1>2, <2>2 DEF uploadImage, Plain, Orders
      <3>3. t \in Plain
        <4>1. PICK n \in Nat : Oldest = [kind |-> "upload", left |-> n]
          BY <3>2
        <4>2. n > 1 /\ \A x : [Oldest EXCEPT !.left = x] = [kind |-> "upload", left |-> x]
          BY <2>2, <4>1
        <4>3. t = [kind |-> "upload", left |-> n - 1]
          BY <4>1, <4>2
        <4> HIDE DEF t
        <4> QED BY <4>2, <4>3 DEF Plain
      <3> HIDE DEF t
      <3> QED BY <1>2, <3>1, <3>3
    <2> QED BY <2>1, <2>2 DEF uploadImage, updateImage, deleteImage, TaskFails, Done
  <1> QED BY <1>3, PlainTasks

\* What others do to the images leaves an order right, or is noted.
LEMMA OthersAreNoted ==
  ASSUME PhotosInv, RowsInv',
         \/ OthersUpload
         \/ \E i \in DOMAIN rows : \/ OthersCover(i) \/ OthersDrop(i)
                                   \/ \E s \in 0 .. MaxSort : OthersSort(i, s)
  PROVE  /\ TasksOK(tasks, rows, ids, mixed)'
         /\ ids' >= ids /\ mixed' \in BOOLEAN /\ UNCHANGED << images, confirming >>
  <1>1. /\ TasksOK(tasks, rows, ids, mixed) /\ mixed \in BOOLEAN
        /\ ids \in Nat /\ DOMAIN rows \subseteq 1 .. ids /\ GoodRows(rows)
    BY DEF PhotosInv, RowsInv
  <1>2. UNCHANGED << tasks, images, confirming >>
    BY DEF OthersUpload, OthersCover, OthersDrop, OthersSort, dialogs
  <1>3. ASSUME UNCHANGED mixed, ids' \in Nat, ids' >= ids,
               \A i \in 1 .. ids :
                 i \in DOMAIN rows' => i \in DOMAIN rows /\ rows'[i].sort = rows[i].sort
        PROVE  TasksOK(tasks', rows', ids', mixed')
    <2>1. Noted(tasks, rows, rows', ids, mixed, mixed)
      BY <1>1, <1>3 DEF Noted
    <2>2. ids <= ids'
      BY <1>1, <1>3
    <2>3. TasksOK(tasks, rows', ids', mixed)
      BY <1>1, <1>3, <2>1, <2>2, OrderStays
    <2> QED BY <1>2, <1>3, <2>3
  <1>4. CASE OthersUpload
    <2>1. rows' = Uploaded /\ ids' = ids + 1 /\ UNCHANGED mixed
      BY <1>4 DEF OthersUpload
    <2>2. \A i \in 1 .. ids : i \in DOMAIN rows' => i \in DOMAIN rows /\ rows'[i] = rows[i]
      BY <1>1, <2>1 DEF Uploaded
    <2>3. ids' \in Nat /\ ids' >= ids
      BY <1>1, <2>1
    <2>4. TasksOK(tasks', rows', ids', mixed')
      BY <1>3, <2>1, <2>2, <2>3
    <2> QED BY <1>1, <1>2, <2>1, <2>3, <2>4
  <1>5. ASSUME NEW i \in DOMAIN rows, OthersCover(i)
        PROVE  TasksOK(tasks', rows', ids', mixed') /\ UNCHANGED << ids, mixed >>
    <2>1. rows' = Cover(rows, i) /\ UNCHANGED << ids, mixed >>
      BY <1>5 DEF OthersCover
    <2>2. ASSUME NEW j \in DOMAIN rows
          PROVE  rows'[j].sort = rows[j].sort
      <3>1. PICK s, c : rows[j] = [sort |-> s, cover |-> c]
        BY <1>1 DEF GoodRows
      <3>2. rows'[j] = [rows[j] EXCEPT !.cover = (j = i)]
        BY <2>1 DEF Cover
      <3> QED BY <3>1, <3>2
    <2>3. DOMAIN rows' = DOMAIN rows
      BY <2>1 DEF Cover
    <2>4. ids' \in Nat /\ ids' >= ids
      BY <1>1, <2>1
    <2> QED BY <1>3, <2>1, <2>2, <2>3, <2>4
  <1>6. ASSUME NEW i \in DOMAIN rows, OthersDrop(i)
        PROVE  TasksOK(tasks', rows', ids', mixed') /\ UNCHANGED << ids, mixed >>
    <2>1. rows' = Drop(i) /\ UNCHANGED << ids, mixed >>
      BY <1>6 DEF OthersDrop
    <2>2. \A j \in DOMAIN rows' : j \in DOMAIN rows /\ rows'[j] = rows[j]
      BY <2>1 DEF Drop
    <2>3. ids' \in Nat /\ ids' >= ids
      BY <1>1, <2>1
    <2> QED BY <1>3, <2>1, <2>2, <2>3
  <1>7. ASSUME NEW i \in DOMAIN rows, NEW s \in 0 .. MaxSort, OthersSort(i, s)
        PROVE  TasksOK(tasks', rows', ids', mixed') /\ UNCHANGED ids /\ mixed' \in BOOLEAN
    <2>1. /\ UNCHANGED ids
          /\ mixed' = (mixed \/ \E k \in DOMAIN tasks : tasks[k].kind = "order")
      BY <1>7 DEF OthersSort
    <2>2. mixed' \in BOOLEAN /\ ((\E k \in DOMAIN tasks : tasks[k].kind = "order") => mixed')
      BY <2>1
    <2>3. ids' \in Nat /\ ids <= ids'
      BY <1>1, <2>1
    <2>4. Noted(tasks, rows, rows', ids, mixed, mixed')
      BY <2>2 DEF Noted
    <2>5. TasksOK(tasks, rows', ids', mixed')
      BY <1>1, <2>2, <2>3, <2>4, OrderStays
    <2> QED BY <1>2, <2>1, <2>2, <2>5
  <1>8. ids' >= ids
    BY <1>1, <1>4, <1>5, <1>6, <1>7 DEF OthersUpload
  <1> QED BY <1>1, <1>2, <1>4, <1>5, <1>6, <1>7, <1>8

\* Every step keeps the invariant; the cover moves only when asked, and an
\* order that is through is shown.
LEMMA PhotosStep ==
  ASSUME PhotosInv, [ImagesNext]_imagevars
  PROVE  PhotosInv' /\ CoversMoveAsAsked /\ OrderIsShown
  <1>1. RowsInv' /\ CoversMoveAsAsked
    <2>1. reorderImages => Oldest.left[1][2] \in Nat
      <3> SUFFICES ASSUME reorderImages PROVE Oldest.left[1][2] \in Nat
        OBVIOUS
      <3>1. tasks # << >> /\ Oldest.kind = "order" /\ TasksOK(tasks, rows, ids, mixed)
        BY DEF reorderImages, busyImages, PhotosInv
      <3>2. Oldest \in Orders /\ OrderOK(Oldest, rows, ids, mixed)
        BY <3>1, NoOrderBehind DEF Oldest
      <3>3. Oldest.left \in Seq(Nat \X Nat) /\ Oldest.asked \in Seq(Nat) /\ Len(Oldest.left) >= 1
        BY <3>2 DEF Orders, OrderOK
      <3>4. Oldest.left[1] \in Nat \X Nat
        BY <3>3
      <3> QED BY <3>4
    <2> QED BY <2>1, RowsStep DEF PhotosInv
  <1>2. /\ mixed \in BOOLEAN /\ confirming \in Nat /\ PageOK(images, ids)
        /\ TasksOK(tasks, rows, ids, mixed) /\ ids \in Nat
    BY DEF PhotosInv, RowsInv
  <1>3. PageOK(OnPage(rows'), ids') /\ ids' \in Nat
    BY <1>1, PageOfRows DEF RowsInv
  <1>4. ASSUME UNCHANGED images, ids' >= ids
        PROVE  PageOK(images', ids')
    <2>1. \A i \in 1 .. ids : i \in 1 .. ids'
      BY <1>2, <1>3, <1>4
    <2> QED BY <1>2, <1>4, <2>1 DEF PageOK
  <1>5. OrderIsShown /\ (reorderImages => TasksOK(tasks, rows, ids, mixed)')
    BY <1>1, PatchStep DEF OrderIsShown
  <1> SUFFICES /\ mixed' \in BOOLEAN /\ confirming' \in Nat /\ PageOK(images', ids')
               /\ TasksOK(tasks', rows', ids', mixed')
    BY <1>1, <1>5 DEF PhotosInv
  <1>6. CASE \/ \E n \in 1 .. 2 : uploadAll(n)
             \/ \E k \in DOMAIN images : move(k) \/ makeCover(k) \/ saveAlt(k)
             \/ confirmImage
    <2>1. TasksOK(tasks', rows, ids, mixed) /\ UNCHANGED << rows, ids, images, mixed, confirming >>
      BY <1>6, TasksBegin
    <2> QED BY <1>2, <2>1
  <1>7. CASE reorderImages
    <2>1. UNCHANGED << ids, confirming >> /\ (images' = images \/ images' = OnPage(rows'))
          /\ (mixed' = mixed \/ mixed' = FALSE)
      BY <1>7 DEF reorderImages, Done, dialogs
    <2>2. PageOK(images', ids')
      BY <1>2, <1>3, <2>1
    <2> QED BY <1>2, <1>5, <1>7, <2>1, <2>2
  <1>8. CASE uploadImage \/ updateImage \/ deleteImage
    <2>1. /\ images' = OnPage(rows') /\ UNCHANGED mixed
          /\ confirming' = confirming \/ confirming' = 0
      BY <1>8 DEF uploadImage, updateImage, deleteImage, Done, dialogs
    <2>2. TasksOK(tasks', rows', ids', mixed')
      BY <1>8, TasksEnd
    <2>3. PageOK(images', ids')
      BY <1>3, <2>1
    <2> QED BY <1>2, <2>1, <2>2, <2>3
  <1>9. CASE TaskFails
    <2>1. /\ UNCHANGED << images, ids >> /\ (confirming' = confirming \/ confirming' = 0)
          /\ mixed' = (mixed /\ Oldest.kind # "order")
      BY <1>9 DEF TaskFails, stored
    <2>2. TasksOK(tasks', rows', ids', mixed')
      BY <1>9, TasksEnd
    <2> QED BY <1>2, <2>1, <2>2
  <1>10. CASE \/ OthersUpload
              \/ \E i \in DOMAIN rows : \/ OthersCover(i) \/ OthersDrop(i)
                                        \/ \E s \in 0 .. MaxSort : OthersSort(i, s)
    <2>1. /\ TasksOK(tasks, rows, ids, mixed)'
          /\ ids' >= ids /\ mixed' \in BOOLEAN /\ UNCHANGED << images, confirming >>
      BY <1>1, <1>10, OthersAreNoted
    <2> QED BY <1>2, <1>4, <2>1
  <1>11. ASSUME NEW k \in DOMAIN images, askDelete(k)
         PROVE  /\ UNCHANGED << rows, ids, images, tasks, mixed >> /\ confirming' \in Nat
    <2>1. UNCHANGED << rows, ids, images, tasks, mixed >> /\ confirming' = images[k].id
      BY <1>11 DEF askDelete, stored
    <2>2. images[k].id \in 1 .. ids
      BY <1>2 DEF PageOK
    <2> QED BY <1>2, <2>1, <2>2
  <1>12. CASE \/ \E k \in DOMAIN images : openPreview(k) \/ stepPreview(k)
              \/ closePreview \/ closeModal \/ UNCHANGED imagevars
    <2>1. /\ UNCHANGED << rows, ids, images, tasks, mixed >>
          /\ confirming' = confirming \/ confirming' = 0
      BY <1>12 DEF openPreview, stepPreview, closePreview, closeModal, imagevars, stored, dialogs
    <2> QED BY <1>2, <2>1
  <1>13. CASE RefreshArrives
    <2>1. UNCHANGED << rows, ids, tasks, mixed, confirming >> /\ images' = OnPage(rows')
      BY <1>13 DEF RefreshArrives, stored, dialogs
    <2> QED BY <1>2, <1>3, <2>1
  <1>14. ASSUME NEW k \in DOMAIN images, askDelete(k)
         PROVE  /\ mixed' \in BOOLEAN /\ confirming' \in Nat /\ PageOK(images', ids')
                /\ TasksOK(tasks', rows', ids', mixed')
    BY <1>2, <1>11, <1>14
  <1> QED BY <1>6, <1>7, <1>8, <1>9, <1>10, <1>12, <1>13, <1>14 DEF ImagesNext

\* The invariant holds of every state, and the step of a PATCH and of a cover
\* is what PhotosStep says.
LEMMA PhotosHold ==
  ImagesSpec => [][PhotosInv /\ PhotosInv' /\ CoversMoveAsAsked /\ OrderIsShown]_imagevars
  <1>1. ImagesInit => PhotosInv
    <2> SUFFICES ASSUME ImagesInit PROVE PhotosInv
      OBVIOUS
    <2>1. /\ ids \in Nat /\ rows = [i \in 1 .. ids |-> [sort |-> i - 1, cover |-> i = 1]]
          /\ images = OnPage(rows) /\ tasks = << >> /\ confirming = 0 /\ mixed = FALSE
      BY DEF ImagesInit
    <2>2. CoverIds(rows) \subseteq {1}
      BY <2>1 DEF CoverIds
    <2>3. DOMAIN rows = 1 .. ids
      BY <2>1
    <2>4. ASSUME NEW i \in 1 .. ids
          PROVE  /\ rows[i] = [sort |-> rows[i].sort, cover |-> rows[i].cover]
                 /\ rows[i].sort \in Nat /\ rows[i].cover \in BOOLEAN
      <3>1. PICK c \in BOOLEAN : c <=> i = 1
        OBVIOUS
      <3>2. rows[i] = [sort |-> i - 1, cover |-> c]
        BY <2>1, <3>1
      <3>3. i - 1 \in Nat
        BY <2>1
      <3> QED BY <3>2, <3>3
    <2>5. RowsInv
      BY <2>1, <2>2, <2>3, <2>4 DEF RowsInv, GoodRows
    <2>6. PageOK(images, ids)
      BY <2>1, <2>5, PageOfRows DEF RowsInv
    <2>7. TasksOK(tasks, rows, ids, mixed)
      <3>1. tasks \in Seq(Plain)
        BY <2>1
      <3> QED BY <3>1, PlainTasks
    <2> QED BY <2>1, <2>5, <2>6, <2>7 DEF PhotosInv
  <1>2. PhotosInv /\ [ImagesNext]_imagevars
          => PhotosInv' /\ CoversMoveAsAsked /\ OrderIsShown
    BY PhotosStep
  <1>3. PhotosInv /\ [ImagesNext]_imagevars
          => [PhotosInv /\ PhotosInv' /\ CoversMoveAsAsked /\ OrderIsShown]_imagevars
    BY <1>2
  <1> QED BY <1>1, <1>2, <1>3, PTL DEF ImagesSpec

\* The cover is given away, or taken, only where that was asked for.
THEOREM CoversChangeWhenAsked == ImagesSpec => CoverChangesWhenAsked
  <1>1. CoverChangesWhenAsked <=> [][CoversMoveAsAsked]_imagevars
    BY DEF CoverChangesWhenAsked, CoversMoveAsAsked
  <1> QED BY <1>1, PhotosHold, PTL

\* An order that is said to be saved is on the page, whole and as it was asked
\* for.
THEOREM OrdersAreShown == ImagesSpec => OrderSavedIsTrue
  <1>1. OrderSavedIsTrue <=> [][OrderIsShown]_imagevars
    BY DEF OrderSavedIsTrue, OrderIsShown
  <1> QED BY <1>1, PhotosHold, PTL
=============================================================================
