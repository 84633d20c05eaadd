------------------------- MODULE PaymentPagesProofs -------------------------
(***************************************************************************)
(* The two pages of a booking's payments, for any number of bookings and   *)
(* payments and any amounts: whatever the tabs do, the ledger moves as it  *)
(* may, and what the admin was told stays true.                            *)
(***************************************************************************)
EXTENDS PaymentPages, PaymentLedgerProofs

\* A dialog on a receipt has one, and so has a toast about one.
DialogsHaveReceipts ==
  /\ sending \in Payments \cup {NoOne}
  /\ seenPending \subseteq Payments
  /\ mode \in { "verify", "reject" } => target \in Payments
  /\ toast.did \in { "verify", "reject" } => toast.payment \in Payments

\* The inductive invariant.
PagesInv == LedgerInv /\ DialogsHaveReceipts /\ ToastIsTrue

\* An admin's request that succeeds is a step of the ledger.
LEMMA ApiMovesLedger ==
  ASSUME DialogsHaveReceipts, NEW amount \in Amounts, AtApi(amount)
  PROVE  Next
  BY PagesAssumption DEF AtApi, DialogsHaveReceipts, Next

\* So is a receipt that arrives.
LEMMA UploadMovesLedger ==
  ASSUME DialogsHaveReceipts, sending # NoOne, NEW amount \in Amounts, Upload(Ours, sending, amount)
  PROVE  Next
  BY PagesAssumption DEF DialogsHaveReceipts, Next

\* Whatever a page does, the ledger moves as it may or not at all.
LEMMA PagesMoveLedger == DialogsHaveReceipts /\ [PagesNext]_pagevars => [Next]_vars
  <1> SUFFICES ASSUME DialogsHaveReceipts, [PagesNext]_pagevars PROVE [Next]_vars
    OBVIOUS
  <1>1. CASE GuestStep
    BY <1>1, UploadMovesLedger DEF GuestStep, Tick, Refresh, submit, UploadAnswered, UploadReceived,
                                   UploadRefused, UploadLost, Reload
  <1>2. CASE AdminStep
    BY <1>2, ApiMovesLedger DEF AdminStep, setMode, close, run, Succeeds, Fails, AnswerLost, OpenPage
  <1> QED BY <1>1, <1>2 DEF PagesNext, Elsewhere, pagevars

\* A verdict and a cancellation stand, so a toast that was true stays so.
LEMMA ToldStaysTrue ==
  ASSUME PagesInv, [Next]_vars, toast' = toast
  PROVE  ToastIsTrue'
  <1>1. CASE UNCHANGED vars
    BY <1>1 DEF PagesInv, ToastIsTrue, Row, vars
  <1>2. CASE Next /\ ~UNCHANGED vars
    <2>1. CheckedStep /\ ReleaseStep
      BY <1>2, StepsCheckOnce, StepsRelease DEF PagesInv
    <2>2. "cancelled" \notin Occupying
      BY DEF Occupying
    <2> QED BY <2>1, <2>2, PagesAssumption
            DEF PagesInv, ToastIsTrue, DialogsHaveReceipts, CheckedStep, ReleaseStep, Row
  <1> QED BY <1>1, <1>2

\* The toast of a request that succeeded is true.
LEMMA NewToastIsTrue ==
  ASSUME PagesInv, NEW amount \in Amounts, AtApi(amount), Told(mode, target)
  PROVE  ToastIsTrue'
  <1> USE DEF PagesInv, LedgerInv, TypeOK
  <1>1. toast'.did = mode /\ toast'.payment = target
    BY DEF Told
  <1>2. CASE mode = "verify"
    <2>1. target \in Payments /\ Verify(target, amount)
      BY <1>2 DEF AtApi, DialogsHaveReceipts
    <2>2. payment[target] \in PaymentRow
      BY <2>1
    <2>3. payment'[target] = [payment[target] EXCEPT !.status = "verified", !.amount = amount]
      BY <2>1 DEF Verify
    <2>4. payment'[target].status = "verified"
      BY <2>2, <2>3 DEF PaymentRow
    <2> QED BY <1>1, <1>2, <2>4 DEF ToastIsTrue
  <1>3. CASE mode = "reject"
    <2>1. target \in Payments /\ Reject(target)
      BY <1>3 DEF AtApi, DialogsHaveReceipts
    <2>2. payment[target] \in PaymentRow
      BY <2>1
    <2>3. payment'[target] = [payment[target] EXCEPT !.status = "rejected"]
      BY <2>1 DEF Reject
    <2>4. payment'[target].status = "rejected"
      BY <2>2, <2>3 DEF PaymentRow
    <2> QED BY <1>1, <1>3, <2>4 DEF ToastIsTrue
  <1>4. CASE mode = "cancel"
    <2>1. Cancel(Ours) /\ booking[Ours] \in BookingRow
      BY <1>4, PagesAssumption DEF AtApi
    <2>2. booking'[Ours] = [booking[Ours] EXCEPT !.status = "cancelled", !.reason = "admin"]
      BY <2>1, PagesAssumption DEF Cancel
    <2>3. booking'[Ours].status = "cancelled"
      BY <2>1, <2>2 DEF BookingRow
    <2> QED BY <1>1, <1>4, <2>3 DEF ToastIsTrue, Row
  <1>5. CASE mode \notin { "verify", "reject", "cancel" }
    BY <1>1, <1>5 DEF ToastIsTrue
  <1> QED BY <1>2, <1>3, <1>4, <1>5

LEMMA PagesInit_Inv == PagesInit => PagesInv
  BY LedgerInitInv DEF PagesInit, PagesInv, DialogsHaveReceipts, ToastIsTrue

\* Every step keeps the invariant.
LEMMA PagesStep_Inv == PagesInv /\ [PagesNext]_pagevars => PagesInv'
  <1> SUFFICES ASSUME PagesInv, [PagesNext]_pagevars PROVE PagesInv'
    OBVIOUS
  <1>1. [Next]_vars
    BY PagesMoveLedger DEF PagesInv
  <1>2. LedgerInv'
    BY <1>1, LedgerNextInv DEF PagesInv
  <1>3. CASE toast' = toast
    <2>1. ToastIsTrue'
      BY <1>1, <1>3, ToldStaysTrue
    <2>2. DialogsHaveReceipts'
      <3>1. CASE GuestStep
        BY <1>3, <3>1 DEF PagesInv, DialogsHaveReceipts, GuestStep, Tick, Refresh, submit, avars,
                          UploadAnswered, UploadReceived, UploadRefused, UploadLost, Reload
      <3>2. CASE AdminStep
        BY <1>3, <3>2 DEF PagesInv, DialogsHaveReceipts, AdminStep, setMode, Offered, close, run, Succeeds,
                          Fails, AnswerLost, OpenPage, Pending, PendingFor, gvars
      <3>3. CASE Elsewhere \/ UNCHANGED pagevars
        BY <3>3 DEF PagesInv, DialogsHaveReceipts, Elsewhere, pagevars, gvars, avars
      <3> QED BY <3>1, <3>2, <3>3 DEF PagesNext
    <2> QED BY <1>2, <2>1, <2>2 DEF PagesInv
  <1>4. CASE toast' # toast
    <2>1. Succeeds
      BY <1>4 DEF PagesNext, GuestStep, AdminStep, Tick, Refresh, submit, UploadAnswered, UploadReceived,
                  UploadRefused, UploadLost, Reload, setMode, close, run, Fails, AnswerLost, OpenPage,
                  Elsewhere, pagevars, avars
    <2>2. ToastIsTrue'
      BY <2>1, NewToastIsTrue DEF Succeeds
    <2>3. DialogsHaveReceipts'
      BY <2>1 DEF Succeeds, Told, PagesInv, DialogsHaveReceipts, gvars
    <2> QED BY <1>2, <2>2, <2>3 DEF PagesInv
  <1> QED BY <1>3, <1>4

\* So it holds always.
LEMMA PagesInvHolds == PagesSpec => []PagesInv
  BY PagesInit_Inv, PagesStep_Inv, PTL DEF PagesSpec

-----------------------------------------------------------------------------
(* The theorems.                                                           *)

\* What an admin was told of a receipt or of the booking is what the ledger
\* says, for as long as the toast stands.
THEOREM ToastsAreTrue == PagesSpec => []ToastIsTrue
  BY PagesInvHolds, PTL DEF PagesInv

\* The pages implement the ledger: whatever tabs, dialogs and answers that are
\* lost do to its rows, it may do.
THEOREM PagesImplementLedger == PagesSpec => Spec
  <1>1. PagesInit => Init
    BY DEF PagesInit
  <1>2. PagesInv /\ [PagesNext]_pagevars => [Next]_vars
    BY PagesMoveLedger DEF PagesInv
  <1> QED BY <1>1, <1>2, PagesInvHolds, PTL DEF PagesSpec, Spec
=============================================================================
