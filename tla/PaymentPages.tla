---------------------------- MODULE PaymentPages ----------------------------
(***************************************************************************)
(* The two pages that meet in the payment ledger: the guest's booking page *)
(* with its countdown and receipt form (payment-panel.tsx), and an admin's *)
(* booking page with its dialogs (payment-actions.tsx, cancel-booking.tsx).*)
(* Each acts on the row it was last rendered from; the ledger moves under  *)
(* both, by other tabs, other admins and the sweep.                        *)
(***************************************************************************)
EXTENDS PaymentLedger

CONSTANTS Ours,   \* the booking both pages show
          NoOne   \* no payment

ASSUME PagesAssumption == Ours \in Bookings /\ NoOne \notin Payments

VARIABLES gpage,       \* the guest's page: "booking", or "error" after a thrown answer
          shown,       \* the booking the guest's page was rendered from
          over,        \* left.over: the countdown has reached its end
          refreshing,  \* router.refresh was called and has not rendered yet
          sending,     \* the receipt whose upload has not answered
          sent,        \* receipts the page was told have arrived
          seen,        \* the booking the admin's page was rendered from
          seenPending, \* the receipts it listed as to check
          mode,        \* the open dialog, and
          target,      \* the receipt it is about
          running,     \* the dialog's server action has not answered
          toast        \* what the admin was last told: an action and its receipt

gvars == << gpage, shown, over, refreshing, sending, sent >>
avars == << seen, seenPending, mode, target, running, toast >>
pagevars == << vars, gvars, avars >>

Mode == { "none", "verify", "reject", "record", "cancel" }
Row == booking[Ours]

-----------------------------------------------------------------------------
(* The guest's page.                                                       *)
waiting(row) == row.status = "awaiting_verification"
PanelFor(row) == row.status \in Payable

\* remaining: a hold that is NULL or past is over.
remainingOver(row) == row.hold # "running"

\* BookingPage renders the row; the panel's effect asks for a refresh when it
\* finds the countdown over, but only when it is new there or one of the two
\* values it watches has changed.
Rendered(row, mounted) ==
  /\ shown' = row
  /\ over' = (PanelFor(row) /\ remainingOver(row))
  /\ refreshing' = /\ over' /\ ~waiting(row)
                   /\ ~mounted \/ ~PanelFor(shown) \/ over' # over \/ waiting(row) # waiting(shown)

\* The countdown ticks each second while no receipt waits; when it passes the
\* hold on show it asks for a refresh.  It knows the time and the row on show
\* alone: the booking may long have another hold, or be settled.
Tick ==
  /\ gpage = "booking" /\ PanelFor(shown) /\ ~waiting(shown) /\ ~over
  /\ Row.hold # "running" \/ Row.rejections # shown.rejections \/ Row.status \notin Payable
  /\ over' = TRUE
  /\ refreshing' = TRUE
  /\ UNCHANGED << vars, gpage, shown, sending, sent, avars >>

Refresh ==
  /\ gpage = "booking" /\ refreshing
  /\ Rendered(Row, TRUE)
  /\ UNCHANGED << vars, gpage, sending, sent, avars >>

submit(p) ==
  /\ gpage = "booking" /\ PanelFor(shown) /\ ~waiting(shown)
  /\ sending = NoOne /\ payment[p].status = "none"
  /\ sending' = p
  /\ UNCHANGED << vars, gpage, shown, over, refreshing, sent, avars >>

UploadReceived_NoRefresh(amount) ==
  /\ sending # NoOne
  /\ Upload(Ours, sending, amount)
  /\ sending' = NoOne
  /\ sent' = sent \cup {sending}
  /\ UNCHANGED << gpage, shown, over, refreshing, avars >>

UploadReceived(amount) ==
  /\ sending # NoOne
  /\ Upload(Ours, sending, amount)
  /\ sending' = NoOne
  /\ sent' = sent \cup {sending}
  /\ refreshing' = TRUE
  /\ UNCHANGED << gpage, shown, over, avars >>

\* The form shows the API's code and stays.
UploadRefused ==
  /\ sending # NoOne
  /\ \/ Row.status \notin Payable \/ Row.hold = "lapsed"
     \/ payment[sending].status # "none"
  /\ sending' = NoOne
  /\ UNCHANGED << vars, gpage, shown, over, refreshing, sent, avars >>

\* A 5xx, or an answer that does not come: uploadReceipt throws, whether or
\* not the receipt is there.
UploadLost ==
  /\ sending # NoOne
  /\ (\E amount \in Amounts : Upload(Ours, sending, amount)) \/ UNCHANGED vars
  /\ sending' = NoOne
  /\ refreshing' = FALSE
  /\ gpage' = "error"
  /\ UNCHANGED << shown, over, sent, avars >>

Reload ==
  /\ gpage = "error"
  /\ gpage' = "booking"
  /\ Rendered(Row, FALSE)
  /\ UNCHANGED << vars, sending, sent, avars >>

UploadAnswered == (\E amount \in Amounts : UploadReceived(amount)) \/ UploadRefused \/ UploadLost

GuestStep == Tick \/ Refresh \/ (\E p \in Payments : submit(p)) \/ UploadAnswered \/ Reload

-----------------------------------------------------------------------------
(* The admin's page: one modal at a time, inert while its action runs.     *)
Pending == PendingFor(Ours)

Offered(m, p) ==
  \/ m \in { "verify", "reject" } /\ p \in seenPending
  \/ m \in { "record", "cancel" } /\ p = NoOne /\ seen.status \in Open

setMode(m, p) ==
  /\ mode = "none" /\ Offered(m, p)
  /\ mode' = m /\ target' = p
  /\ UNCHANGED << vars, gvars, seen, seenPending, running, toast >>

close ==
  /\ mode # "none" /\ ~running
  /\ mode' = "none" /\ target' = NoOne
  /\ UNCHANGED << vars, gvars, seen, seenPending, running, toast >>

run ==
  /\ mode # "none" /\ ~running
  /\ running' = TRUE
  /\ UNCHANGED << vars, gvars, seen, seenPending, mode, target, toast >>

\* What the API does with the dialog's request, on the rows as they are now.
AtApi(amount) ==
  \/ mode = "verify" /\ Verify(target, amount)
  \/ mode = "reject" /\ Reject(target)
  \/ mode = "cancel" /\ Cancel(Ours)
  \/ mode = "record" /\ \E p \in Payments \ {sending} : Record(Ours, p, amount)

CanDo == CASE mode \in { "verify", "reject" } -> payment[target].status = "pending"
           [] OTHER                           -> Row.status \in Open

\* A toast, which replaces the one before it and is read before it goes.
Told(m, p) == toast' = [did |-> m, payment |-> p]

\* Success: the toast, the dialog closes, and revalidatePath has the page
\* rendered anew.
Succeeds ==
  /\ running
  /\ \E amount \in Amounts : AtApi(amount)
  /\ Told(mode, target)
  /\ mode' = "none" /\ target' = NoOne /\ running' = FALSE
  /\ seen' = booking'[Ours]
  /\ seenPending' = { p \in Payments : payment'[p].status = "pending" /\ payment'[p].booking = Ours }
  /\ UNCHANGED gvars

\* attempt: any failure becomes the dialog's error; the page stays as it was.
Fails_ButSaysSo ==
  /\ running /\ ~CanDo
  /\ Told(mode, target)
  /\ mode' = "none" /\ target' = NoOne /\ running' = FALSE
  /\ UNCHANGED << vars, gvars, seen, seenPending >>

Fails ==
  /\ running /\ ~CanDo
  /\ running' = FALSE
  /\ UNCHANGED << vars, gvars, seen, seenPending, mode, target, toast >>

\* The answer is lost on its way: an error as well, done or not.
AnswerLost ==
  /\ running
  /\ (\E amount \in Amounts : AtApi(amount)) \/ UNCHANGED vars
  /\ running' = FALSE
  /\ UNCHANGED << gvars, seen, seenPending, mode, target, toast >>

OpenPage ==
  /\ mode = "none"
  /\ seen' = Row /\ seenPending' = Pending
  /\ UNCHANGED << vars, gvars, mode, target, running, toast >>

AdminStep ==
  \/ \E m \in Mode \ {"none"}, p \in Payments \cup {NoOne} : setMode(m, p)
  \/ close \/ run \/ Succeeds \/ Fails \/ AnswerLost \/ OpenPage

-----------------------------------------------------------------------------
PagesInit ==
  /\ Init
  /\ gpage = "booking" /\ shown = Row
  /\ over = (PanelFor(Row) /\ remainingOver(Row))
  /\ refreshing = FALSE /\ sending = NoOne /\ sent = {}
  /\ seen = Row /\ seenPending = {}
  /\ mode = "none" /\ target = NoOne /\ running = FALSE
  /\ toast = [did |-> "none", payment |-> NoOne]

\* Other tabs, other admins, the clock and the sweep move the ledger as well;
\* a receipt under way is a row of its own.
Elsewhere == Next /\ UNCHANGED << gvars, avars >>
             /\ (sending # NoOne => payment'[sending] = payment[sending])

PagesNext == GuestStep \/ AdminStep \/ Elsewhere

PagesSpec == PagesInit /\ [][PagesNext]_pagevars

\* The browser's timer fires, and what was asked for is answered and rendered.
PagesFairSpec == /\ PagesSpec
                 /\ WF_pagevars(Tick) /\ WF_pagevars(Refresh) /\ WF_pagevars(UploadAnswered)

-----------------------------------------------------------------------------
(* Properties.                                                             *)

\* A toast tells the truth although the dialog was opened on an old page and
\* others judged the same receipt: what it says was done to that receipt, or
\* to the booking, is what the ledger says.
ToastIsTrue ==
  /\ toast.did = "verify" => payment[toast.payment].status = "verified"
  /\ toast.did = "reject" => payment[toast.payment].status = "rejected"
  /\ toast.did = "cancel" => Row.status = "cancelled"

\* A guest who was told that the receipt arrived is not left with the form:
\* the page comes to show it waits, unless it is judged first or the page failed.
SentReceiptShows ==
  (sent \cap Pending # {})
    ~> (shown.status # "pending_payment" \/ sent \cap Pending = {} \/ gpage = "error")

\* payment-panel.tsx: "The server expires the hold within a minute; show that
\* without a reload."
ExpiryShowsWithoutReload ==
  (gpage = "booking" /\ shown.status = "pending_payment" /\ Row.status = "expired")
    ~> (gpage = "error" \/ shown.status = "expired")
=============================================================================
