---------------------------- MODULE BookingRules ----------------------------
(***************************************************************************)
(* The booking entity's pure rules (api/internal/domain/booking): its      *)
(* statuses, which of them hold dates, and what a receipt does to a        *)
(* booking.  No state lives here; the other modules share it.              *)
(*                                                                         *)
(* Throughout, a definition whose name ends in _Something is the plausible *)
(* bug of the definition it precedes; nothing uses it.                     *)
(***************************************************************************)
EXTENDS Integers

\* booking.All, and the row that has not been inserted yet.
Status == { "draft", "pending_payment", "awaiting_verification", "confirmed",
            "checked_in", "completed", "expired", "cancelled",
            "refund_pending", "refunded" }

\* The statuses some statement of the program writes.  The others exist in
\* the enum only: no handler, query or migration ever sets them.
Reachable == { "pending_payment", "awaiting_verification", "confirmed",
               "expired", "cancelled" }

\* booking.Occupying: the statuses whose booking owns its dates.
Occupying == { "pending_payment", "awaiting_verification", "confirmed",
               "checked_in", "completed" }

\* CancelBooking's status list, which is also adminRecordPayment's switch.
Open == { "pending_payment", "awaiting_verification", "confirmed" }

\* hold_expires_at, reduced to what the queries ask of it: NULL, in the
\* future, or before now().
Hold == { "none", "running", "lapsed" }

-----------------------------------------------------------------------------
MaxPaymentRejections == 2

\* The statuses AfterUpload accepts; any other one is ErrNotPayable.
Payable == { "pending_payment", "awaiting_verification" }

AfterUpload_NewStatus(s) == IF s \in Payable THEN "receipt_uploaded" ELSE s

AfterUpload(s) == IF s \in Payable THEN "awaiting_verification" ELSE s

\* A verified amount adds up, and confirms a waiting booking once the
\* deposit is covered.
AfterVerified_AnyAmount(b, amount) ==
  [b EXCEPT !.paid = b.paid + amount,
            !.status = IF b.status \in Payable THEN "confirmed" ELSE b.status]

AfterVerified(b, amount) ==
  [b EXCEPT !.paid = b.paid + amount,
            !.status = IF /\ b.paid + amount >= b.deposit
                          /\ b.status \in Payable
                       THEN "confirmed" ELSE b.status]

\* The rejection that sends the guest back to pay again, with a fresh hold.
NewHold_OtherWaiting(b, otherPending) ==
  /\ b.rejections + 1 < MaxPaymentRejections
  /\ b.status = "awaiting_verification"

NewHold(b, otherPending) ==
  /\ b.rejections + 1 < MaxPaymentRejections
  /\ otherPending = 0
  /\ b.status = "awaiting_verification"

AfterRejected_OneTooMany(b, otherPending) ==
  [b EXCEPT !.rejections = b.rejections + 1,
            !.status = CASE b.rejections >= MaxPaymentRejections -> "cancelled"
                         [] NewHold(b, otherPending)             -> "pending_payment"
                         [] OTHER                                -> b.status]

AfterRejected(b, otherPending) ==
  [b EXCEPT !.rejections = b.rejections + 1,
            !.status = CASE b.rejections + 1 >= MaxPaymentRejections -> "cancelled"
                         [] NewHold(b, otherPending)                 -> "pending_payment"
                         [] OTHER                                    -> b.status]

-----------------------------------------------------------------------------
\* Half-open date ranges [from, to), as Postgres' daterange(..., '[)').
RangesOf(days) == { s \in [from : days, to : days] : s.from < s.to }

\* The && of two non-empty half-open ranges.
Overlaps(s, t) == s.from < t.to /\ t.from < s.to

\* A stay with the unit's turnover days after its check-out.
WithTurnover(s, buffer) == [from |-> s.from, to |-> s.to + buffer]

NightsOf(s) == s.from .. (s.to - 1)
=============================================================================
