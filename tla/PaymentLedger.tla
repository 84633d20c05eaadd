--------------------------- MODULE PaymentLedger ----------------------------
(***************************************************************************)
(* What the payment code promises about bookings and receipts: each        *)
(* operation happens at once, on the rows as they are committed.  Module   *)
(* Payments is the transactions that implement it, with their locks and    *)
(* reads; the rules about money and dates are stated, and proved, here.    *)
(***************************************************************************)
EXTENDS BookingRules, FiniteSets, FiniteSetsExt

CONSTANTS Bookings,  \* bookings, each already inserted
          Manual,    \* those an admin made: confirmed from the start
          Payments,  \* rows of payments that may be inserted
          Deposit,   \* deposit_due: one night's price
          Amounts,   \* amounts a guest states or an admin enters
          NoBooking

ASSUME LedgerAssumption ==
  /\ Manual \subseteq Bookings
  /\ NoBooking \notin Bookings
  /\ IsFiniteSet(Payments)
  /\ Deposit \in Nat \ {0}
  /\ Amounts \subseteq Nat \ {0}

VARIABLES booking,   \* the bookings' rows, what payments move of them
          payment    \* the payments' rows

vars == << booking, payment >>

\* cancel_reason: none, what the admin typed, or "payment rejected twice".
Reason == { "none", "admin", "rejected twice" }

BookingRow == [status : Reachable, deposit : {Deposit}, paid : Nat, rejections : Nat,
               hold : Hold, reason : Reason]
PaymentRow == [status : { "none", "pending", "verified", "rejected" },
               booking : Bookings \cup {NoBooking}, amount : Amounts \cup {0}]

TypeOK == /\ booking \in [Bookings -> BookingRow]
          /\ payment \in [Payments -> PaymentRow]

\* A row as createBooking or adminCreateBooking inserted it.
NewBooking(b) ==
  [status |-> IF b \in Manual THEN "confirmed" ELSE "pending_payment",
   deposit |-> Deposit, paid |-> 0, rejections |-> 0,
   hold |-> IF b \in Manual THEN "none" ELSE "running", reason |-> "none"]

NoPayment == [status |-> "none", booking |-> NoBooking, amount |-> 0]

Init == /\ booking = [b \in Bookings |-> NewBooking(b)]
        /\ payment = [p \in Payments |-> NoPayment]

-----------------------------------------------------------------------------
\* CountPendingPaymentsForBooking, and the same without p itself.
PendingFor(b) == { p \in Payments : payment[p].status = "pending" /\ payment[p].booking = b }
OthersPending(p) == Cardinality(PendingFor(payment[p].booking) \ {p})

\* SetBookingPayment: the row as a rule left it, with its hold, and with its
\* cancel_reason overwritten when (and each time) it is cancelled.
SetBookingPayment(next, hold, reason) ==
  [next EXCEPT !.hold = hold,
               !.reason = IF next.status = "cancelled" THEN reason ELSE next.reason]

\* uploadPayment: the row after a receipt, whose hold stops while it waits.
WithReceipt(row) ==
  SetBookingPayment([row EXCEPT !.status = AfterUpload(row.status)], "none", "none")

\* settle: the row after a verified amount.
Settled_Forgets(row, amount) ==
  LET next == AfterVerified(row, amount)
  IN SetBookingPayment([next EXCEPT !.paid = amount],
                       IF next.status = "confirmed" THEN "none" ELSE row.hold, "none")

Settled(row, amount) ==
  LET next == AfterVerified(row, amount)
  IN SetBookingPayment(next, IF next.status = "confirmed" THEN "none" ELSE row.hold, "none")

\* adminRejectPayment: the row after a rejected receipt.
WithRejection_NoHold(row, otherPending) ==
  SetBookingPayment(AfterRejected(row, otherPending), row.hold, "rejected twice")

WithRejection(row, otherPending) ==
  SetBookingPayment(AfterRejected(row, otherPending),
                    IF NewHold(row, otherPending) THEN "running" ELSE row.hold,
                    "rejected twice")

-----------------------------------------------------------------------------
Upload(b, p, amount) ==
  /\ payment[p].status = "none"
  /\ booking[b].status \in Payable
  /\ payment' = [payment EXCEPT ![p] =
                   [status |-> "pending", booking |-> b, amount |-> amount]]
  /\ booking' = [booking EXCEPT ![b] = WithReceipt(booking[b])]

\* A receipt is checked once: it must still be pending.
Verify_Twice(p, amount) ==
  /\ payment[p].status \in { "pending", "rejected" }
  /\ payment' = [payment EXCEPT ![p].status = "verified", ![p].amount = amount]
  /\ LET b == payment[p].booking
     IN booking' = [booking EXCEPT ![b] = Settled(booking[b], amount)]

Verify(p, amount) ==
  /\ payment[p].status = "pending"
  /\ payment' = [payment EXCEPT ![p].status = "verified", ![p].amount = amount]
  /\ LET b == payment[p].booking
     IN booking' = [booking EXCEPT ![b] = Settled(booking[b], amount)]

Reject(p) ==
  /\ payment[p].status = "pending"
  /\ payment' = [payment EXCEPT ![p].status = "rejected"]
  /\ LET b == payment[p].booking
     IN booking' = [booking EXCEPT ![b] = WithRejection(booking[b], OthersPending(p))]

\* Money that came without a receipt: verified straight away.
Record(b, p, amount) ==
  /\ payment[p].status = "none"
  /\ booking[b].status \in Open
  /\ payment' = [payment EXCEPT ![p] =
                   [status |-> "verified", booking |-> b, amount |-> amount]]
  /\ booking' = [booking EXCEPT ![b] = Settled(booking[b], amount)]

Cancel(b) ==
  /\ booking[b].status \in Open
  /\ booking' = [booking EXCEPT ![b].status = "cancelled", ![b].reason = "admin"]
  /\ UNCHANGED payment

\* The clock passes hold_expires_at.
HoldLapses(b) ==
  /\ booking[b].status = "pending_payment"
  /\ booking[b].hold = "running"
  /\ booking' = [booking EXCEPT ![b].hold = "lapsed"]
  /\ UNCHANGED payment

\* ExpireHolds: the rows its UPDATE may touch, and the UPDATE on some of them.
Lapsed_AnyHold(b) == booking[b].status \in Payable /\ booking[b].hold # "running"

Lapsed(b) == booking[b].status = "pending_payment" /\ booking[b].hold = "lapsed"

ExpireHolds(bs) ==
  /\ bs # {}
  /\ \A b \in bs : Lapsed(b)
  /\ booking' = [b \in Bookings |-> IF b \in bs THEN [booking[b] EXCEPT !.status = "expired"]
                                                ELSE booking[b]]
  /\ UNCHANGED payment

Next ==
  \/ \E p \in Payments, amount \in Amounts :
       \/ Verify(p, amount)
       \/ \E b \in Bookings : Upload(b, p, amount) \/ Record(b, p, amount)
  \/ \E p \in Payments : Reject(p)
  \/ \E b \in Bookings : Cancel(b) \/ HoldLapses(b)
  \/ \E bs \in SUBSET Bookings : ExpireHolds(bs)

Spec == Init /\ [][Next]_vars

-----------------------------------------------------------------------------
(* Properties.                                                             *)

VerifiedFor(b) == { p \in Payments : payment[p].status = "verified" /\ payment[p].booking = b }
RejectedFor(b) == { p \in Payments : payment[p].status = "rejected" /\ payment[p].booking = b }

\* While a receipt waits for an admin nothing runs against the guest: the
\* booking is not pending_payment, has not expired, and its hold stands still.
\* It holds although a rejection puts the booking back to pending_payment, as
\* long as every such move counts the other receipts first.
WaitingReceiptStopsTheHold ==
  \A b \in Bookings :
    /\ PendingFor(b) # {} => booking[b].status \in { "awaiting_verification", "confirmed", "cancelled" }
    /\ booking[b].status = "awaiting_verification" => booking[b].hold = "none"

\* Money is neither lost nor counted twice: paid_total is the sum of the
\* verified payments, through partial payments, corrections of the amount and
\* money recorded by hand.
PaidTotalIsWhatWasVerified ==
  \A b \in Bookings :
    booking[b].paid = MapThenSumSet(LAMBDA p : payment[p].amount, VerifiedFor(b))

\* A guest's booking is confirmed exactly when its verified money covers the
\* deposit: it never waits for a deposit that was paid in parts, and no part
\* of it confirms too early.
DepositDecides ==
  \A b \in Bookings \ Manual :
    /\ booking[b].status = "confirmed" => booking[b].paid >= booking[b].deposit
    /\ booking[b].status \in Payable => booking[b].paid < booking[b].deposit

\* The rejection counter on the booking agrees with the rejected receipts,
\* and no booking outlives its second one.
TwoRejectionsCancel ==
  \A b \in Bookings :
    /\ booking[b].rejections = Cardinality(RejectedFor(b))
    /\ booking[b].rejections >= MaxPaymentRejections => booking[b].status = "cancelled"

\* Dates are released only by the sweep of a lapsed hold for which no receipt
\* waits, by an admin's cancellation, or by the second rejection.  The first
\* rejection never does, and what was released is never held again.
DatesReleasedOnlyForAReason ==
  [][\A b \in Bookings :
       /\ booking[b].status \in Occupying /\ booking'[b].status \notin Occupying
          => \/ /\ booking'[b].status = "expired"
                /\ booking[b].status = "pending_payment"
                /\ booking[b].hold = "lapsed"
                /\ PendingFor(b) = {}
             \/ booking'[b].status = "cancelled" /\ booking'[b].reason = "admin"
             \/ /\ booking'[b].status = "cancelled"
                /\ booking'[b].rejections >= MaxPaymentRejections
       /\ booking[b].status \notin Occupying => booking'[b].status = booking[b].status]_vars

\* A receipt is verified or rejected once: afterwards neither its verdict nor
\* its amount ever changes, so no amount is settled twice.
CheckedOnce ==
  [][\A p \in Payments :
       payment[p].status \in { "verified", "rejected" } => payment'[p] = payment[p]]_vars

(* What documents and comments say, and the code does not do. *)

\* payments.sql, on ExpireHolds: "Unpaid bookings past their hold".
ExpiredMeansUnpaid ==
  \A b \in Bookings : booking[b].status = "expired" => booking[b].paid = 0
=============================================================================
