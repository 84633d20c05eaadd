--------------------------- MODULE PaymentsProofs ---------------------------
(***************************************************************************)
(* Proofs about Payments, for any number of handlers, bookings, payments   *)
(* and amounts: what a transaction has read is still so when it commits,   *)
(* and so every one of them is an operation of PaymentLedger.              *)
(***************************************************************************)
EXTENDS Payments, PaymentLedgerProofs

Writing == { "booking locked", "counted" }
Judging == { "verify", "reject" }
Entering == { "upload", "record" }

\* How far a handler of each kind gets, and with what.
StageOK(h) ==
  /\ req[h].op = "upload" => req[h].at \in { "viewed", "stored", "booking locked" }
  /\ req[h].op = "verify" => req[h].at \in { "payment locked", "booking locked" }
  /\ req[h].op = "reject" => req[h].at \in { "payment locked", "booking locked", "counted" }
  /\ req[h].op = "record" => req[h].at = "booking locked"
  /\ req[h].op \in { "upload", "verify", "record" } => req[h].amount \in Amounts

\* The locks that belong to h.
LocksOf(h) ==
  /\ \A b \in Bookings : bookingLock[b] = h <=> req[h].at \in Writing /\ req[h].booking = b
  /\ \A p \in Payments : paymentLock[p] = h <=> req[h].op \in Judging /\ req[h].payment = p

\* The booking that h has locked is as it was read, but for the clock.
RowStillTrue(h) ==
  req[h].at \in Writing =>
    /\ [req[h].row EXCEPT !.hold = booking[req[h].booking].hold] = booking[req[h].booking]
    /\ \/ req[h].row.hold = booking[req[h].booking].hold
       \/ req[h].row.hold = "running" /\ booking[req[h].booking].hold = "lapsed"
    /\ req[h].op = "upload" => req[h].row.status \in Payable
    /\ req[h].op = "record" => req[h].row.status \in Open

\* The payment that h judges still waits, and h counted the others of its booking.
JudgedStillTrue(h) ==
  /\ req[h].op \in Judging =>
       /\ payment[req[h].payment].status = "pending"
       /\ payment[req[h].payment].booking = req[h].booking
  /\ req[h].at = "counted" => req[h].others = OthersPending(req[h].payment)

\* The payment that h enters is not there yet; its receipt is, once it was stored.
EnteredStillNew(h) ==
  /\ req[h].op \in Entering =>
       /\ payment[req[h].payment].status = "none"
       /\ \A g \in Handlers \ {h} : req[g].op \in Entering => req[g].payment # req[h].payment
  /\ req[h].op = "upload" /\ req[h].at # "viewed" => req[h].payment \in objects

HandlerInv(h) ==
  StageOK(h) /\ LocksOf(h) /\ RowStillTrue(h) /\ JudgedStillTrue(h) /\ EnteredStillNew(h)

\* A row that the sweep has reached stays lapsed.
SweptStayLapsed == \A b \in Swept : Lapsed(b)

\* The inductive invariant: the ledger's, and what the transactions know.
PaymentsInv ==
  /\ LedgerInv
  /\ RequestsTypeOK
  /\ ReceiptIsStored
  /\ \A h \in Handlers : HandlerInv(h)
  /\ SweptStayLapsed

-----------------------------------------------------------------------------
(* What is written is what the ledger's operation makes of the row.        *)

\* Of two rows that differ in the hold alone, one is the other with its hold.
LEMMA SameButHold ==
  ASSUME NEW r \in BookingRow, NEW c \in BookingRow, [r EXCEPT !.hold = c.hold] = c
  PROVE  /\ r.status = c.status /\ r.paid = c.paid /\ r.deposit = c.deposit
         /\ r.rejections = c.rejections /\ r.reason = c.reason
  BY DEF BookingRow

\* SetBookingPayment's values written into the row are the row they were for.
LEMMA WriteIs ==
  ASSUME TypeOK, NEW b \in Bookings, NEW r \in BookingRow,
         NEW n \in BookingRow, NEW m \in BookingRow,
         r.reason = booking[b].reason,
         n.status = m.status, n.paid = m.paid, n.rejections = m.rejections,
         n.status = "cancelled" => n.reason = m.reason,
         n.status # "cancelled" => m.reason = booking[b].reason,
         m.hold = IF n.hold = r.hold THEN booking[b].hold ELSE n.hold
  PROVE  Write(b, r, n) = m
  <1> DEFINE c == booking[b]
             hold == IF n.hold = r.hold THEN c.hold ELSE n.hold
             reason == IF n.status = "cancelled" THEN n.reason ELSE c.reason
  <1>1. c \in BookingRow
    BY DEF TypeOK
  <1>2. Write(b, r, n) = [c EXCEPT !.status = n.status, !.paid = n.paid, !.rejections = n.rejections,
                                   !.hold = hold, !.reason = reason]
    BY DEF Write
  <1>3. hold = m.hold /\ reason = m.reason
    OBVIOUS
  <1> HIDE DEF c, hold, reason
  <1>4. Write(b, r, n) = [c EXCEPT !.status = m.status, !.paid = m.paid, !.rejections = m.rejections,
                                   !.hold = m.hold, !.reason = m.reason]
    BY <1>2, <1>3
  <1>5. Write(b, r, n) = [status |-> m.status, deposit |-> c.deposit, paid |-> m.paid,
                          rejections |-> m.rejections, hold |-> m.hold, reason |-> m.reason]
    BY <1>1, <1>4 DEF BookingRow
  <1>6. m = [status |-> m.status, deposit |-> m.deposit, paid |-> m.paid,
             rejections |-> m.rejections, hold |-> m.hold, reason |-> m.reason]
    BY DEF BookingRow
  <1>7. c.deposit = m.deposit
    BY <1>1 DEF BookingRow
  <1> QED BY <1>5, <1>6, <1>7

LEMMA WriteReceipt ==
  ASSUME TypeOK, NEW b \in Bookings, NEW r \in BookingRow, r.status \in Payable,
         [r EXCEPT !.hold = booking[b].hold] = booking[b],
         r.hold = booking[b].hold \/ (r.hold = "running" /\ booking[b].hold = "lapsed")
  PROVE  Write(b, r, WithReceipt(r)) = WithReceipt(booking[b])
  <1>1. booking[b] \in BookingRow
    BY DEF TypeOK
  <1>2. /\ r.status = booking[b].status /\ r.paid = booking[b].paid
        /\ r.rejections = booking[b].rejections /\ r.reason = booking[b].reason
    BY <1>1, SameButHold
  <1>3. /\ WithReceipt(r) \in BookingRow /\ WithReceipt(booking[b]) \in BookingRow
        /\ WithReceipt(r).status = "awaiting_verification"
        /\ WithReceipt(booking[b]).status = "awaiting_verification"
        /\ WithReceipt(r).hold = "none" /\ WithReceipt(booking[b]).hold = "none"
        /\ WithReceipt(r).paid = r.paid /\ WithReceipt(booking[b]).paid = booking[b].paid
        /\ WithReceipt(r).rejections = r.rejections
        /\ WithReceipt(booking[b]).rejections = booking[b].rejections
    BY <1>1, <1>2, ReceiptRow
  <1>4. WithReceipt(booking[b]).reason = booking[b].reason
    BY <1>1, <1>2 DEF WithReceipt, SetBookingPayment, AfterUpload, BookingRow
  <1> QED BY <1>2, <1>3, <1>4, WriteIs

LEMMA WriteSettled ==
  ASSUME TypeOK, NEW b \in Bookings, NEW r \in BookingRow, NEW amount \in Amounts,
         [r EXCEPT !.hold = booking[b].hold] = booking[b],
         r.hold = booking[b].hold \/ (r.hold = "running" /\ booking[b].hold = "lapsed")
  PROVE  Write(b, r, Settled(r, amount)) = Settled(booking[b], amount)
  <1> DEFINE c == booking[b]
  <1>1. c \in BookingRow
    BY DEF TypeOK
  <1>2. /\ r.status = c.status /\ r.paid = c.paid /\ r.deposit = c.deposit
        /\ r.rejections = c.rejections /\ r.reason = c.reason
    BY <1>1, SameButHold
  <1> HIDE DEF c
  <1>3. /\ Settled(r, amount) \in BookingRow /\ Settled(c, amount) \in BookingRow
        /\ Settled(r, amount).status = Settled(c, amount).status
        /\ Settled(r, amount).paid = Settled(c, amount).paid
        /\ Settled(r, amount).rejections = Settled(c, amount).rejections
        /\ Settled(r, amount).status # "confirmed" =>
             Settled(r, amount).hold = r.hold /\ Settled(c, amount).hold = c.hold
    BY <1>1, <1>2, SettledRow
  <1>4. ASSUME NEW row \in BookingRow
        PROVE  /\ Settled(row, amount).status = "confirmed" => Settled(row, amount).hold = "none"
               /\ Settled(row, amount).reason =
                    IF Settled(row, amount).status = "cancelled" THEN "none" ELSE row.reason
    <2> DEFINE n == AfterVerified(row, amount)
    <2>1. /\ n = [row EXCEPT !.paid = n.paid, !.status = n.status]
      BY DEF AfterVerified, BookingRow
    <2> HIDE DEF n
    <2>2. n.reason = row.reason
      BY <2>1 DEF BookingRow
    <2>3. Settled(row, amount) =
            [n EXCEPT !.hold = IF n.status = "confirmed" THEN "none" ELSE row.hold,
                      !.reason = IF n.status = "cancelled" THEN "none" ELSE n.reason]
      BY DEF Settled, SetBookingPayment, n
    <2>4. n = [status |-> n.status, deposit |-> n.deposit, paid |-> n.paid, rejections |-> n.rejections,
               hold |-> n.hold, reason |-> n.reason]
      BY <2>1 DEF BookingRow
    <2> QED BY <2>2, <2>3, <2>4
  <1>5. /\ Settled(r, amount).reason = Settled(c, amount).reason
        /\ Settled(c, amount).status # "cancelled" => Settled(c, amount).reason = c.reason
        /\ Settled(c, amount).hold = IF Settled(r, amount).hold = r.hold THEN c.hold
                                                                       ELSE Settled(r, amount).hold
    BY <1>1, <1>2, <1>3, <1>4 DEF c
  <1> QED BY <1>2, <1>3, <1>5, WriteIs DEF c

LEMMA WriteRejection ==
  ASSUME TypeOK, NEW b \in Bookings, NEW r \in BookingRow, NEW k \in Nat,
         [r EXCEPT !.hold = booking[b].hold] = booking[b],
         r.hold = booking[b].hold \/ (r.hold = "running" /\ booking[b].hold = "lapsed"),
         booking[b].status = "awaiting_verification" => booking[b].hold = "none"
  PROVE  Write(b, r, WithRejection(r, k)) = WithRejection(booking[b], k)
  <1> DEFINE c == booking[b]
  <1>1. c \in BookingRow
    BY DEF TypeOK
  <1>2. /\ r.status = c.status /\ r.paid = c.paid /\ r.deposit = c.deposit
        /\ r.rejections = c.rejections /\ r.reason = c.reason
    BY <1>1, SameButHold
  <1> HIDE DEF c
  <1>3. NewHold(r, k) = NewHold(c, k)
    BY <1>2 DEF NewHold
  <1>4. ASSUME NEW row \in BookingRow
        PROVE  /\ WithRejection(row, k).hold = IF NewHold(row, k) THEN "running" ELSE row.hold
               /\ WithRejection(row, k).reason =
                    IF WithRejection(row, k).status = "cancelled" THEN "rejected twice" ELSE row.reason
    <2> DEFINE n == AfterRejected(row, k)
    <2>1. n = [row EXCEPT !.rejections = n.rejections, !.status = n.status]
      BY DEF AfterRejected, BookingRow
    <2> HIDE DEF n
    <2>2. n.reason = row.reason
      BY <2>1 DEF BookingRow
    <2>3. WithRejection(row, k) =
            [n EXCEPT !.hold = IF NewHold(row, k) THEN "running" ELSE row.hold,
                      !.reason = IF n.status = "cancelled" THEN "rejected twice" ELSE n.reason]
      BY DEF WithRejection, SetBookingPayment, n
    <2>4. n = [status |-> n.status, deposit |-> n.deposit, paid |-> n.paid, rejections |-> n.rejections,
               hold |-> n.hold, reason |-> n.reason]
      BY <2>1 DEF BookingRow
    <2> QED BY <2>2, <2>3, <2>4
  <1>5. /\ WithRejection(r, k) \in BookingRow /\ WithRejection(c, k) \in BookingRow
        /\ WithRejection(r, k).paid = WithRejection(c, k).paid
        /\ WithRejection(r, k).rejections = WithRejection(c, k).rejections
    BY <1>1, <1>2, RejectedRow
  <1>6. WithRejection(r, k).status = WithRejection(c, k).status
    <2>1. AfterRejected(r, k).status = AfterRejected(c, k).status
      BY <1>1, <1>2, <1>3 DEF AfterRejected, BookingRow
    <2>2. ASSUME NEW row \in BookingRow PROVE WithRejection(row, k).status = AfterRejected(row, k).status
      <3> DEFINE n == AfterRejected(row, k)
      <3>1. n = [row EXCEPT !.rejections = n.rejections, !.status = n.status]
        BY DEF AfterRejected, BookingRow
      <3> HIDE DEF n
      <3>2. n = [status |-> n.status, deposit |-> n.deposit, paid |-> n.paid, rejections |-> n.rejections,
                 hold |-> n.hold, reason |-> n.reason]
        BY <3>1 DEF BookingRow
      <3>3. WithRejection(row, k).status = n.status
        BY <3>2 DEF WithRejection, SetBookingPayment, n
      <3> QED BY <3>3 DEF n
    <2> QED BY <1>1, <2>1, <2>2
  <1>7. /\ WithRejection(r, k).reason = WithRejection(c, k).reason
        /\ WithRejection(c, k).status # "cancelled" => WithRejection(c, k).reason = c.reason
    BY <1>1, <1>2, <1>4, <1>6
  <1>8. WithRejection(c, k).hold = IF WithRejection(r, k).hold = r.hold THEN c.hold
                                                                       ELSE WithRejection(r, k).hold
    <2>1. CASE NewHold(c, k)
      <3>1. c.status = "awaiting_verification" /\ r.hold = "none"
        BY <1>2, <2>1 DEF NewHold, c
      <3> QED BY <1>1, <1>3, <1>4, <2>1, <3>1
    <2>2. CASE ~NewHold(c, k)
      BY <1>1, <1>3, <1>4, <2>2
    <2> QED BY <2>1, <2>2
  <1> QED BY <1>2, <1>5, <1>6, <1>7, <1>8, WriteIs DEF c

-----------------------------------------------------------------------------
(* Every step is an operation of the ledger, or leaves its rows alone.     *)

\* A handler that is not idle has a request.
LEMMA BusyHandler ==
  ASSUME PaymentsInv, NEW h \in Handlers, req[h].at # "idle" \/ req[h].op # "none"
  PROVE  /\ req[h] \in Requests /\ req[h].op \in Ops
         /\ req[h].booking \in Bookings /\ req[h].payment \in Payments
         /\ req[h].row \in BookingRow /\ req[h].others \in Nat
         /\ req[h].amount \in Amounts \cup {0}
  <1>1. req[h] \in Requests \cup {Idle}
    BY DEF PaymentsInv, RequestsTypeOK
  <1>2. Idle.at = "idle" /\ Idle.op = "none"
    BY DEF Idle
  <1>3. req[h] \in Requests
    BY <1>1, <1>2
  <1>4. Cardinality(Payments) \in Nat
    BY LedgerAssumption, FS_CardinalityType
  <1>5. req[h].others \in 0 .. Cardinality(Payments)
    BY <1>3 DEF Requests
  <1>6. req[h].others \in Nat
    BY <1>4, <1>5
  <1> QED BY <1>3, <1>6 DEF Requests

\* What a handler knows that has locked its booking.
LEMMA LockedBooking ==
  ASSUME PaymentsInv, NEW h \in Handlers, req[h].at \in Writing
  PROVE  LET b == req[h].booking
         IN /\ bookingLock[b] = h
            /\ [req[h].row EXCEPT !.hold = booking[b].hold] = booking[b]
            /\ \/ req[h].row.hold = booking[b].hold
               \/ req[h].row.hold = "running" /\ booking[b].hold = "lapsed"
            /\ req[h].row.status = booking[b].status
  <1>1. /\ req[h].booking \in Bookings /\ req[h].row \in BookingRow
    BY BusyHandler DEF Writing
  <1>2. HandlerInv(h) /\ TypeOK
    BY DEF PaymentsInv, RequestsTypeOK
  <1>3. /\ [req[h].row EXCEPT !.hold = booking[req[h].booking].hold] = booking[req[h].booking]
        /\ \/ req[h].row.hold = booking[req[h].booking].hold
           \/ req[h].row.hold = "running" /\ booking[req[h].booking].hold = "lapsed"
    BY <1>2 DEF HandlerInv, RowStillTrue
  <1>4. bookingLock[req[h].booking] = h
    BY <1>1, <1>2 DEF HandlerInv, LocksOf
  <1>5. booking[req[h].booking] \in BookingRow
    BY <1>1, <1>2 DEF TypeOK
  <1>6. req[h].row.status = booking[req[h].booking].status
    BY <1>1, <1>3, <1>5, SameButHold
  <1> QED BY <1>3, <1>4, <1>6

\* At its COMMIT a transaction is its operation of the ledger, at once.
LEMMA UploadCommits ==
  ASSUME PaymentsInv, NEW h \in Handlers, CommitUpload(h)
  PROVE  \E b \in Bookings, p \in Payments, amount \in Amounts : Upload(b, p, amount)
  <1> DEFINE b == req[h].booking
             p == req[h].payment
             amount == req[h].amount
             row == req[h].row
  <1>1. req[h].op = "upload" /\ req[h].at = "booking locked" /\ req[h].at \in Writing
    BY DEF CommitUpload, Writing
  <1>2. b \in Bookings /\ p \in Payments /\ row \in BookingRow /\ TypeOK
    BY <1>1, BusyHandler DEF PaymentsInv, RequestsTypeOK
  <1>3. amount \in Amounts /\ payment[p].status = "none" /\ row.status \in Payable
    BY <1>1 DEF PaymentsInv, HandlerInv, StageOK, EnteredStillNew, RowStillTrue, Entering
  <1>4. booking[b].status \in Payable
    BY <1>1, <1>3, LockedBooking
  <1>5. Write(b, row, WithReceipt(row)) = WithReceipt(booking[b])
    BY <1>1, <1>2, <1>3, LockedBooking, WriteReceipt
  <1>6. /\ payment' = [payment EXCEPT ![p] = [status |-> "pending", booking |-> b, amount |-> amount]]
        /\ booking' = [booking EXCEPT ![b] = WithReceipt(booking[b])]
    BY <1>5 DEF CommitUpload, CommitRows
  <1>7. Upload(b, p, amount)
    BY <1>3, <1>4, <1>6 DEF Upload
  <1> QED BY <1>2, <1>3, <1>7

LEMMA VerifyCommits ==
  ASSUME PaymentsInv, NEW h \in Handlers, CommitVerify(h)
  PROVE  \E p \in Payments, amount \in Amounts : Verify(p, amount)
  <1> DEFINE b == req[h].booking
             p == req[h].payment
             amount == req[h].amount
             row == req[h].row
  <1>1. req[h].op = "verify" /\ req[h].at = "booking locked" /\ req[h].at \in Writing
    BY DEF CommitVerify, Writing
  <1>2. b \in Bookings /\ p \in Payments /\ row \in BookingRow /\ TypeOK
    BY <1>1, BusyHandler DEF PaymentsInv, RequestsTypeOK
  <1>3. amount \in Amounts /\ payment[p].status = "pending" /\ payment[p].booking = b
    BY <1>1 DEF PaymentsInv, HandlerInv, StageOK, JudgedStillTrue, Judging
  <1>4. Write(b, row, Settled(row, amount)) = Settled(booking[b], amount)
    BY <1>1, <1>2, <1>3, LockedBooking, WriteSettled
  <1>5. /\ payment' = [payment EXCEPT ![p] = [payment[p] EXCEPT !.status = "verified", !.amount = amount]]
        /\ booking' = [booking EXCEPT ![b] = Settled(booking[b], amount)]
    BY <1>4 DEF CommitVerify, CommitRows
  <1>6. payment' = [payment EXCEPT ![p].status = "verified", ![p].amount = amount]
    BY <1>2, <1>5 DEF TypeOK
  <1>7. Verify(p, amount)
    BY <1>3, <1>5, <1>6 DEF Verify
  <1> QED BY <1>2, <1>3, <1>7

LEMMA RejectCommits ==
  ASSUME PaymentsInv, NEW h \in Handlers, CommitReject(h)
  PROVE  \E p \in Payments : Reject(p)
  <1> DEFINE b == req[h].booking
             p == req[h].payment
             row == req[h].row
             others == req[h].others
  <1>1. req[h].op = "reject" /\ req[h].at = "counted" /\ req[h].at \in Writing
    BY DEF CommitReject, Writing
  <1>2. b \in Bookings /\ p \in Payments /\ row \in BookingRow /\ others \in Nat /\ TypeOK
    BY <1>1, BusyHandler DEF PaymentsInv, RequestsTypeOK
  <1>3. payment[p].status = "pending" /\ payment[p].booking = b /\ others = OthersPending(p)
    BY <1>1 DEF PaymentsInv, HandlerInv, JudgedStillTrue, Judging
  <1>4. booking[b].status = "awaiting_verification" => booking[b].hold = "none"
    BY <1>2 DEF PaymentsInv, LedgerInv, WaitingReceiptStopsTheHold
  <1>5. Write(b, row, WithRejection(row, others)) = WithRejection(booking[b], others)
    <2>1. /\ [row EXCEPT !.hold = booking[b].hold] = booking[b]
          /\ row.hold = booking[b].hold \/ (row.hold = "running" /\ booking[b].hold = "lapsed")
      BY <1>1, LockedBooking
    <2> HIDE DEF b, row, others
    <2> QED BY <1>2, <1>4, <2>1, WriteRejection
  <1>6. /\ payment' = [payment EXCEPT ![p] = [payment[p] EXCEPT !.status = "rejected"]]
        /\ booking' = [booking EXCEPT ![b] = WithRejection(booking[b], others)]
    BY <1>5 DEF CommitReject, CommitRows
  <1>7. payment' = [payment EXCEPT ![p].status = "rejected"]
    BY <1>2, <1>6 DEF TypeOK
  <1>8. Reject(p)
    BY <1>3, <1>6, <1>7 DEF Reject
  <1> QED BY <1>2, <1>8

LEMMA RecordCommits ==
  ASSUME PaymentsInv, NEW h \in Handlers, CommitRecord(h)
  PROVE  \E b \in Bookings, p \in Payments, amount \in Amounts : Record(b, p, amount)
  <1> DEFINE b == req[h].booking
             p == req[h].payment
             amount == req[h].amount
             row == req[h].row
  <1>1. req[h].op = "record" /\ req[h].at = "booking locked" /\ req[h].at \in Writing
    BY DEF CommitRecord, Writing
  <1>2. b \in Bookings /\ p \in Payments /\ row \in BookingRow /\ TypeOK
    BY <1>1, BusyHandler DEF PaymentsInv, RequestsTypeOK
  <1>3. amount \in Amounts /\ payment[p].status = "none" /\ row.status \in Open
    BY <1>1 DEF PaymentsInv, HandlerInv, StageOK, EnteredStillNew, RowStillTrue, Entering
  <1>4. booking[b].status \in Open
    BY <1>1, <1>3, LockedBooking
  <1>5. Write(b, row, Settled(row, amount)) = Settled(booking[b], amount)
    BY <1>1, <1>2, <1>3, LockedBooking, WriteSettled
  <1>6. /\ payment' = [payment EXCEPT ![p] = [status |-> "verified", booking |-> b, amount |-> amount]]
        /\ booking' = [booking EXCEPT ![b] = Settled(booking[b], amount)]
    BY <1>5 DEF CommitRecord, CommitRows
  <1>7. Record(b, p, amount)
    BY <1>3, <1>4, <1>6 DEF Record
  <1> QED BY <1>2, <1>3, <1>7

\* What the sweep commits it still may expire.
LEMMA SweepIsLedger ==
  ASSUME PaymentsInv, Sweep
  PROVE  [Next]_vars
  <1>1. booking = [b \in Bookings |-> booking[b]]
    BY DEF PaymentsInv, RequestsTypeOK, TypeOK
  <1>2. CASE SweepCommit
    <2>1. ExpireHolds(Swept)
      BY <1>2 DEF SweepCommit, SweepEnd, ExpireHolds, PaymentsInv, SweptStayLapsed
    <2>2. Swept \in SUBSET Bookings
      BY DEF Swept
    <2> QED BY <2>1, <2>2 DEF Next
  <1>3. CASE SweepAbort
    BY <1>1, <1>3 DEF SweepAbort, SweepEnd, vars
  <1>4. CASE SweepStart \/ \E b \in Bookings : SweepReach(b)
    BY <1>4 DEF SweepStart, SweepReach, ledger, vars
  <1> QED BY <1>2, <1>3, <1>4 DEF Sweep

LEMMA StepIsLedger ==
  ASSUME PaymentsInv, [PNext]_pvars
  PROVE  [Next]_vars
  <1>1. ASSUME NEW h \in Handlers, Handle(h) PROVE [Next]_vars
    <2>1. CASE CommitUpload(h)
      BY <2>1, UploadCommits DEF Next
    <2>2. CASE CommitVerify(h)
      BY <2>2, VerifyCommits DEF Next
    <2>3. CASE CommitReject(h)
      BY <2>3, RejectCommits DEF Next
    <2>4. CASE CommitRecord(h)
      BY <2>4, RecordCommits DEF Next
    <2>5. CASE PutReceipt(h) \/ LockBooking(h) \/ CountOthers(h) \/ Abort(h)
      BY <2>5 DEF PutReceipt, LockBooking, CountOthers, Abort, Rollback, ledger, vars
    <2>6. ASSUME NEW p \in Payments, NEW amount, NEW op, LockPayment(h, p, op, amount) PROVE [Next]_vars
      BY <2>6 DEF LockPayment, ledger, vars
    <2>7. ASSUME NEW p \in Payments, NEW amount \in Amounts, NEW b \in Bookings,
                 ViewBooking(h, b, p, amount) \/ LockToRecord(h, b, p, amount)
          PROVE  [Next]_vars
      BY <2>7 DEF ViewBooking, LockToRecord, ledger, vars
    <2> QED BY <1>1, <2>1, <2>2, <2>3, <2>4, <2>5, <2>6, <2>7 DEF Handle, Goes
  <1>2. ASSUME NEW b \in Bookings, CancelBooking(b) \/ Lapse(b) PROVE [Next]_vars
    BY <1>2 DEF CancelBooking, Lapse, Next
  <1>3. CASE UNCHANGED pvars
    BY <1>3 DEF pvars, vars
  <1> QED BY <1>1, <1>2, <1>3, SweepIsLedger DEF PNext

-----------------------------------------------------------------------------
(* What a transaction knows outlives the steps of everybody else.          *)

\* A booking that a handler has locked is not written by others; the clock
\* may pass its hold.
StandsOrLapses(b) ==
  \/ booking'[b] = booking[b]
  \/ booking[b].hold = "running" /\ booking'[b] = [booking[b] EXCEPT !.hold = "lapsed"]

\* The row that was read is as its booking, or the clock has passed its hold.
LEMMA RowOutlives ==
  ASSUME PaymentsInv, NEW g \in Handlers, req'[g] = req[g],
         req[g].at \in Writing => StandsOrLapses(req[g].booking)
  PROVE  RowStillTrue(g)'
  <1> SUFFICES ASSUME req[g].at \in Writing PROVE RowStillTrue(g)'
    BY DEF RowStillTrue
  <1> DEFINE b == req[g].booking
             row == req[g].row
  <1>1. b \in Bookings /\ row \in BookingRow
    BY BusyHandler DEF Writing
  <1>2. booking[b] \in BookingRow
    BY <1>1 DEF PaymentsInv, RequestsTypeOK, TypeOK
  <1>3. RowStillTrue(g)
    BY DEF PaymentsInv, HandlerInv
  <1>4. /\ [row EXCEPT !.hold = booking[b].hold] = booking[b]
        /\ \/ row.hold = booking[b].hold
           \/ row.hold = "running" /\ booking[b].hold = "lapsed"
    BY LockedBooking
  <1>5. CASE booking'[b] = booking[b]
    BY <1>3, <1>5 DEF RowStillTrue
  <1>6. CASE booking[b].hold = "running" /\ booking'[b] = [booking[b] EXCEPT !.hold = "lapsed"]
    <2>1. booking'[b].hold = "lapsed" /\ row.hold = "running"
      BY <1>2, <1>4, <1>6 DEF BookingRow
    <2>2. [row EXCEPT !.hold = "lapsed"] = booking'[b]
      <3>1. /\ row.status = booking[b].status /\ row.paid = booking[b].paid
            /\ row.deposit = booking[b].deposit
            /\ row.rejections = booking[b].rejections /\ row.reason = booking[b].reason
        BY <1>1, <1>2, <1>4, SameButHold
      <3> HIDE DEF row, b
      <3> QED BY <1>1, <1>2, <1>6, <3>1 DEF BookingRow
    <2> QED BY <1>3, <2>1, <2>2 DEF RowStillTrue
  <1> QED BY <1>5, <1>6 DEF StandsOrLapses

\* What a handler knows stays true under a step of another that leaves its
\* row, its payment and its locks alone.
LEMMA Unaffected ==
  ASSUME PaymentsInv, NEW g \in Handlers, req'[g] = req[g], objects \subseteq objects',
         \A b \in Bookings : bookingLock'[b] = g <=> bookingLock[b] = g,
         \A p \in Payments : paymentLock'[p] = g <=> paymentLock[p] = g,
         req[g].at \in Writing =>
           StandsOrLapses(req[g].booking) /\ PendingFor(req[g].booking)' = PendingFor(req[g].booking),
         req[g].op \in Judging => payment'[req[g].payment] = payment[req[g].payment],
         req[g].op \in Entering =>
           /\ payment'[req[g].payment].status = "none"
           /\ \A k \in Handlers \ {g} : req'[k].op \in Entering => req'[k].payment # req[g].payment
  PROVE  HandlerInv(g)'
  <1>1. HandlerInv(g)
    BY DEF PaymentsInv
  <1>2. StageOK(g)'
    BY <1>1 DEF HandlerInv, StageOK
  <1>3. LocksOf(g)'
    BY <1>1 DEF HandlerInv, LocksOf
  <1>4. RowStillTrue(g)'
    BY RowOutlives
  <1>5. JudgedStillTrue(g)'
    <2>1. JudgedStillTrue(g)
      BY <1>1 DEF HandlerInv
    <2>2. CASE req[g].at = "counted"
      <3>1. req[g].op = "reject" /\ req[g].op \in Judging /\ req[g].at \in Writing
        BY <1>1, <2>2, BusyHandler DEF HandlerInv, StageOK, Ops, Judging, Writing
      <3>2. payment[req[g].payment].booking = req[g].booking
        BY <2>1, <3>1 DEF JudgedStillTrue
      <3>3. OthersPending(req[g].payment)' = OthersPending(req[g].payment)
        BY <3>1, <3>2 DEF OthersPending
      <3> QED BY <2>1, <3>1, <3>3 DEF JudgedStillTrue
    <2>3. CASE req[g].at # "counted"
      BY <2>1, <2>3 DEF JudgedStillTrue
    <2> QED BY <2>2, <2>3
  <1>6. EnteredStillNew(g)'
    BY <1>1 DEF HandlerInv, EnteredStillNew
  <1> QED BY <1>2, <1>3, <1>4, <1>5, <1>6 DEF HandlerInv

\* Of two handlers, neither enters nor judges the payment of the other.
LEMMA PaymentsApart ==
  ASSUME PaymentsInv, NEW g \in Handlers, NEW h \in Handlers, g # h,
         req[g].op \in Ops, req[h].op \in Ops
  PROVE  req[g].payment # req[h].payment
  <1>1. HandlerInv(g) /\ HandlerInv(h)
    BY DEF PaymentsInv
  <1>2. req[g].payment \in Payments /\ req[h].payment \in Payments
    BY BusyHandler DEF Ops
  <1>3. CASE req[g].op \in Judging /\ req[h].op \in Judging
    BY <1>1, <1>2, <1>3 DEF HandlerInv, LocksOf
  <1>4. CASE req[g].op \in Entering /\ req[h].op \in Entering
    BY <1>1, <1>4 DEF HandlerInv, EnteredStillNew
  <1>5. CASE req[g].op \in Judging /\ req[h].op \in Entering
    BY <1>1, <1>5 DEF HandlerInv, JudgedStillTrue, EnteredStillNew
  <1>6. CASE req[g].op \in Entering /\ req[h].op \in Judging
    BY <1>1, <1>6 DEF HandlerInv, JudgedStillTrue, EnteredStillNew
  <1> QED BY <1>3, <1>4, <1>5, <1>6 DEF Ops, Judging, Entering

\* The types of what is not in the ledger.
SessionOK ==
  /\ objects \subseteq Payments
  /\ bookingLock \in [Bookings -> Handlers \cup {NoOne, Sweeper}]
  /\ paymentLock \in [Payments -> Handlers \cup {NoOne}]
  /\ req \in [Handlers -> Requests \cup {Idle}]
  /\ todo \subseteq Bookings

\* A handler that has finished holds nothing and knows nothing.
LEMMA FinishedHandler ==
  ASSUME PaymentsInv, NEW h \in Handlers, Finish(h)
  PROVE  /\ HandlerInv(h)'
         /\ \A g \in Handlers \ {h} :
              /\ req'[g] = req[g]
              /\ \A b \in Bookings : bookingLock'[b] = g <=> bookingLock[b] = g
              /\ \A p \in Payments : paymentLock'[p] = g <=> paymentLock[p] = g
         /\ objects' \subseteq Payments /\ todo' \subseteq Bookings => SessionOK'
         /\ Swept' = Swept
  <1>1. SessionOK
    BY DEF PaymentsInv, RequestsTypeOK, SessionOK
  <1>2. /\ req' = [req EXCEPT ![h] = Idle]
        /\ bookingLock' = [b \in Bookings |-> IF bookingLock[b] = h THEN NoOne ELSE bookingLock[b]]
        /\ paymentLock' = [p \in Payments |-> IF paymentLock[p] = h THEN NoOne ELSE paymentLock[p]]
    BY DEF Finish
  <1>3. NoOne \notin Handlers /\ Sweeper \notin Handlers /\ NoOne # Sweeper
    BY HandlersAssumption
  <1>4. req'[h].op = "none" /\ req'[h].at = "idle"
    BY <1>1, <1>2 DEF SessionOK, Idle
  <1>5. HandlerInv(h)'
    BY <1>2, <1>3, <1>4 DEF HandlerInv, StageOK, LocksOf, RowStillTrue, JudgedStillTrue, EnteredStillNew,
                      Writing, Judging, Entering
  <1>6. \A g \in Handlers \ {h} :
          /\ req'[g] = req[g]
          /\ \A b \in Bookings : bookingLock'[b] = g <=> bookingLock[b] = g
          /\ \A p \in Payments : paymentLock'[p] = g <=> paymentLock[p] = g
    BY <1>1, <1>2, <1>3 DEF SessionOK
  <1>7. objects' \subseteq Payments /\ todo' \subseteq Bookings => SessionOK'
    BY <1>1, <1>2 DEF SessionOK
  <1>8. Swept' = Swept
    BY <1>2, <1>3 DEF Swept
  <1> QED BY <1>5, <1>6, <1>7, <1>8

-----------------------------------------------------------------------------
(* Every step keeps the invariant.  First the ends of transactions.        *)

LEMMA RollbackInv ==
  ASSUME PaymentsInv, LedgerInv', NEW h \in Handlers, Rollback(h)
  PROVE  PaymentsInv'
  <1>1. Finish(h) /\ UNCHANGED << booking, payment, objects, todo >>
    BY DEF Rollback, ledger
  <1>2. SessionOK' /\ TypeOK' /\ HandlerInv(h)' /\ Swept' = Swept
    BY <1>1, FinishedHandler DEF PaymentsInv, RequestsTypeOK, LedgerInv
  <1>3. ASSUME NEW g \in Handlers \ {h} PROVE HandlerInv(g)'
    <2>1. EnteredStillNew(g)
      BY DEF PaymentsInv, HandlerInv
    <2>2. req[g].op \in Entering =>
            /\ payment'[req[g].payment].status = "none"
            /\ \A k \in Handlers \ {g} : req'[k].op \in Entering => req'[k].payment # req[g].payment
      <3>1. req'[h].op \notin Entering
        BY <1>1, <1>2 DEF Finish, SessionOK, PaymentsInv, RequestsTypeOK, Idle, Entering
      <3> QED BY <1>1, <2>1, <3>1, FinishedHandler DEF EnteredStillNew
    <2>3. PendingFor(req[g].booking)' = PendingFor(req[g].booking)
      BY <1>1, FinishedHandler DEF PendingFor
    <2> QED BY <1>1, <2>2, <2>3, FinishedHandler, Unaffected DEF StandsOrLapses
  <1>4. ReceiptIsStored' /\ SweptStayLapsed'
    BY <1>1, <1>2 DEF PaymentsInv, ReceiptIsStored, SweptStayLapsed, Lapsed
  <1> QED BY <1>2, <1>3, <1>4 DEF PaymentsInv, RequestsTypeOK, SessionOK

\* A commit touches the rows its locks are for, and the payment that nobody
\* else has.
LEMMA CommitInv ==
  ASSUME PaymentsInv, LedgerInv', NEW h \in Handlers, NEW row, NEW next,
         req[h].at \in Writing, row.booking = req[h].booking,
         row.status = "pending" => req[h].payment \in objects,
         CommitRows(h, req[h].payment, row, next)
  PROVE  PaymentsInv'
  <1> DEFINE p == req[h].payment
             b == req[h].booking
  <1>1. /\ Finish(h) /\ UNCHANGED << objects, todo >>
        /\ payment' = [payment EXCEPT ![p] = row]
        /\ \A c \in Bookings \ {b} : booking'[c] = booking[c]
    BY DEF CommitRows, PaymentsInv, RequestsTypeOK, TypeOK
  <1>2. /\ p \in Payments /\ b \in Bookings /\ req[h].op \in Ops /\ bookingLock[b] = h
        /\ payment \in [Payments -> PaymentRow]
    BY BusyHandler, LockedBooking DEF Writing, PaymentsInv, RequestsTypeOK, TypeOK
  <1>3. SessionOK' /\ TypeOK' /\ HandlerInv(h)' /\ Swept' = Swept
    BY <1>1, FinishedHandler DEF PaymentsInv, RequestsTypeOK, LedgerInv
  <1>4. payment'[p] = row /\ \A q \in Payments \ {p} : payment'[q] = payment[q]
    BY <1>1, <1>2
  <1>5. payment[p].status = "none" \/ payment[p].booking = b
    BY <1>2 DEF PaymentsInv, HandlerInv, JudgedStillTrue, EnteredStillNew, Ops, Judging, Entering
  <1>6. ASSUME NEW g \in Handlers \ {h} PROVE HandlerInv(g)'
    <2>1. HandlerInv(g)
      BY DEF PaymentsInv
    <2>2. ASSUME req[g].at \in Writing
          PROVE  /\ StandsOrLapses(req[g].booking)
                 /\ PendingFor(req[g].booking)' = PendingFor(req[g].booking)
      <3>1. req[g].booking \in Bookings \ {b}
        <4>1. bookingLock[req[g].booking] = g
          BY <2>2, LockedBooking
        <4>2. req[g].booking \in Bookings
          BY <2>2, BusyHandler DEF Writing
        <4> QED BY <1>2, <4>1, <4>2
      <3>2. StandsOrLapses(req[g].booking)
        BY <1>1, <3>1 DEF StandsOrLapses
      <3>3. p \notin PendingFor(req[g].booking) /\ p \notin PendingFor(req[g].booking)'
        <4>1. req'[g].booking = req[g].booking
          BY <1>1, FinishedHandler
        <4> QED BY <1>4, <1>5, <3>1, <4>1 DEF PendingFor
      <3>4. \A q \in Payments \ {p} :
              q \in PendingFor(req[g].booking)' <=> q \in PendingFor(req[g].booking)
        <4>1. req'[g].booking = req[g].booking
          BY <1>1, FinishedHandler
        <4> QED BY <1>4, <4>1 DEF PendingFor
      <3>5. /\ PendingFor(req[g].booking) \subseteq Payments
            /\ PendingFor(req[g].booking)' \subseteq Payments
        BY DEF PendingFor
      <3> QED BY <3>2, <3>3, <3>4, <3>5
    <2>3. req[g].op \in Ops => req[g].payment \in Payments \ {p}
      BY <1>2, BusyHandler, PaymentsApart DEF Ops
    <2>4. req[g].op \in Judging => payment'[req[g].payment] = payment[req[g].payment]
      BY <1>4, <2>3 DEF Judging, Ops
    <2>5. req[g].op \in Entering =>
            /\ payment'[req[g].payment].status = "none"
            /\ \A k \in Handlers \ {g} : req'[k].op \in Entering => req'[k].payment # req[g].payment
      <3>1. req'[h].op \notin Entering
        BY <1>1, <1>3 DEF Finish, PaymentsInv, RequestsTypeOK, Idle, Entering
      <3>2. EnteredStillNew(g)
        BY <2>1 DEF HandlerInv
      <3>3. req[g].op \in Entering => payment'[req[g].payment].status = "none"
        BY <1>4, <2>3, <3>2 DEF EnteredStillNew, Entering, Ops
      <3>4. ASSUME req[g].op \in Entering, NEW k \in Handlers \ {g}, req'[k].op \in Entering
            PROVE  req'[k].payment # req[g].payment
        <4>1. k # h
          BY <3>1, <3>4
        <4>2. req'[k] = req[k]
          BY <1>1, <4>1, FinishedHandler
        <4> QED BY <3>2, <3>4, <4>2 DEF EnteredStillNew
      <3> QED BY <3>3, <3>4
    <2>6. /\ req'[g] = req[g]
          /\ \A c \in Bookings : bookingLock'[c] = g <=> bookingLock[c] = g
          /\ \A q \in Payments : paymentLock'[q] = g <=> paymentLock[q] = g
          /\ objects \subseteq objects'
      BY <1>1, FinishedHandler
    <2> HIDE DEF p, b
    <2> QED BY <2>2, <2>4, <2>5, <2>6, Unaffected
  <1>7. ReceiptIsStored'
    BY <1>1, <1>4 DEF PaymentsInv, ReceiptIsStored
  <1>8. SweptStayLapsed'
    <2>1. b \notin Swept
      BY <1>2, HandlersAssumption DEF Swept
    <2> QED BY <1>1, <1>3, <2>1 DEF PaymentsInv, SweptStayLapsed, Lapsed, Swept
  <1> QED BY <1>3, <1>6, <1>7, <1>8 DEF PaymentsInv, RequestsTypeOK, SessionOK

\* A step by which a handler reads, locks or stores, and writes no row.
LEMMA OwnStepInv ==
  ASSUME PaymentsInv, NEW h \in Handlers, UNCHANGED << booking, payment >>,
         SessionOK', HandlerInv(h)', Swept' = Swept, objects \subseteq objects',
         \A g \in Handlers \ {h} :
           /\ req'[g] = req[g]
           /\ \A b \in Bookings : bookingLock'[b] = g <=> bookingLock[b] = g
           /\ \A p \in Payments : paymentLock'[p] = g <=> paymentLock[p] = g,
         req'[h].op \in Entering =>
           \A g \in Handlers \ {h} : req[g].op \in Entering => req[g].payment # req'[h].payment
  PROVE  PaymentsInv'
  <1>1. LedgerInv'
    BY LedgerNextInv DEF PaymentsInv, vars
  <1>2. ASSUME NEW g \in Handlers \ {h} PROVE HandlerInv(g)'
    <2>1. EnteredStillNew(g)
      BY DEF PaymentsInv, HandlerInv
    <2>2. req[g].op \in Entering =>
            /\ payment'[req[g].payment].status = "none"
            /\ \A k \in Handlers \ {g} : req'[k].op \in Entering => req'[k].payment # req[g].payment
      BY <2>1 DEF EnteredStillNew
    <2>3. PendingFor(req[g].booking)' = PendingFor(req[g].booking)
      BY DEF PendingFor
    <2> QED BY <2>2, <2>3, Unaffected DEF StandsOrLapses
  <1>3. ReceiptIsStored' /\ SweptStayLapsed'
    BY DEF PaymentsInv, ReceiptIsStored, SweptStayLapsed, Lapsed
  <1> QED BY <1>1, <1>2, <1>3 DEF PaymentsInv, RequestsTypeOK, SessionOK, LedgerInv

LEMMA ZeroUpTo ==
  ASSUME NEW n \in Nat
  PROVE  0 \in 0 .. n
  OBVIOUS

LEMMA RequestFields ==
  ASSUME NEW r, NEW op, NEW at, NEW b, NEW p, NEW amount, NEW row,
         r = [op |-> op, at |-> at, booking |-> b, payment |-> p, amount |-> amount,
              row |-> row, others |-> 0]
  PROVE  /\ r.op = op /\ r.at = at /\ r.booking = b /\ r.payment = p
         /\ r.amount = amount /\ r.row = row
  OBVIOUS

\* A request that has begun.
Begun(h, op, at, b, p, amount) ==
  /\ req' \in [Handlers -> Requests \cup {Idle}]
  /\ req'[h].op = op /\ req'[h].at = at /\ req'[h].booking = b /\ req'[h].payment = p
  /\ req'[h].amount = amount /\ req'[h].row = booking[b]
  /\ \A g \in Handlers \ {h} : req'[g] = req[g]

LEMMA Started ==
  ASSUME PaymentsInv, NEW h \in Handlers, NEW op \in Ops, NEW at, NEW b \in Bookings,
         NEW p \in Payments, NEW amount \in Amounts \cup {0},
         at \in { "viewed", "stored", "payment locked", "booking locked", "counted" },
         Start(h, op, at, b, p, amount)
  PROVE  Begun(h, op, at, b, p, amount)
  <1>1. Cardinality(Payments) \in Nat
    BY LedgerAssumption, FS_CardinalityType
  <1>2. 0 \in 0 .. Cardinality(Payments)
    BY <1>1, ZeroUpTo
  <1>3. booking[b] \in BookingRow
    BY DEF PaymentsInv, RequestsTypeOK, TypeOK
  <1> DEFINE r == [op |-> op, at |-> at, booking |-> b, payment |-> p, amount |-> amount,
                   row |-> booking[b], others |-> 0]
  <1>4. r \in Requests
    BY <1>2, <1>3 DEF Requests
  <1>5. req' = [req EXCEPT ![h] = r]
    BY DEF Start
  <1> HIDE DEF r
  <1>6. /\ req' \in [Handlers -> Requests \cup {Idle}] /\ req'[h] = r
        /\ \A g \in Handlers \ {h} : req'[g] = req[g]
    BY <1>4, <1>5 DEF PaymentsInv, RequestsTypeOK
  <1>7. /\ r.op = op /\ r.at = at /\ r.booking = b /\ r.payment = p
        /\ r.amount = amount /\ r.row = booking[b]
    BY RequestFields DEF r
  <1> QED BY <1>6, <1>7 DEF Begun

\* An idle handler holds no lock.
LEMMA IdleHandler ==
  ASSUME PaymentsInv, NEW h \in Handlers, req[h] = Idle
  PROVE  /\ \A b \in Bookings : bookingLock[b] # h
         /\ \A p \in Payments : paymentLock[p] # h
  <1>1. req[h].op = "none" /\ req[h].at = "idle"
    BY DEF Idle
  <1>2. LocksOf(h)
    BY DEF PaymentsInv, HandlerInv
  <1> QED BY <1>1, <1>2 DEF LocksOf, Writing, Judging

LEMMA ViewInv ==
  ASSUME PaymentsInv, NEW h \in Handlers, NEW b \in Bookings, NEW p \in Payments,
         NEW amount \in Amounts, ViewBooking(h, b, p, amount)
  PROVE  PaymentsInv'
  <1>1. /\ req[h] = Idle /\ payment[p].status = "none"
        /\ \A g \in Handlers : req[g].payment # p
        /\ Start(h, "upload", "viewed", b, p, amount)
        /\ UNCHANGED << booking, payment, objects, bookingLock, paymentLock, todo >>
    BY DEF ViewBooking, Fresh, ledger, locks
  <1>2. "upload" \in Ops /\ amount \in Amounts \cup {0}
    BY DEF Ops
  <1>3. /\ req' \in [Handlers -> Requests \cup {Idle}]
        /\ req'[h].op = "upload" /\ req'[h].at = "viewed" /\ req'[h].payment = p
        /\ req'[h].amount = amount
        /\ \A g \in Handlers \ {h} : req'[g] = req[g]
    <2>1. Begun(h, "upload", "viewed", b, p, amount)
      BY <1>1, <1>2, Started
    <2> QED BY <2>1 DEF Begun
  <1>4. req'[h].at \notin Writing /\ req'[h].op \notin Judging /\ req'[h].at # "counted"
    BY <1>3 DEF Writing, Judging
  <1>5. SessionOK' /\ Swept' = Swept
    BY <1>1, <1>3 DEF SessionOK, Swept, PaymentsInv, RequestsTypeOK
  <1>6. HandlerInv(h)'
    BY <1>1, <1>3, <1>4, IdleHandler DEF HandlerInv, StageOK, LocksOf, RowStillTrue, JudgedStillTrue,
                                   EnteredStillNew, Writing, Judging, Entering
  <1> QED BY <1>1, <1>3, <1>4, <1>5, <1>6, OwnStepInv

LEMMA PutReceiptInv ==
  ASSUME PaymentsInv, NEW h \in Handlers, PutReceipt(h)
  PROVE  PaymentsInv'
  <1>1. /\ req[h].at = "viewed" /\ req' = [req EXCEPT ![h].at = "stored"]
        /\ objects' = objects \cup {req[h].payment}
        /\ UNCHANGED << booking, payment, bookingLock, paymentLock, todo >>
    BY DEF PutReceipt, ledger, locks
  <1>2. req[h] \in Requests /\ req[h].payment \in Payments /\ req[h].op \in Ops
    BY <1>1, BusyHandler
  <1>3. [req[h] EXCEPT !.at = "stored"] \in Requests
    BY <1>2 DEF Requests
  <1>4. /\ req' \in [Handlers -> Requests \cup {Idle}]
        /\ req'[h].op = req[h].op /\ req'[h].at = "stored" /\ req'[h].payment = req[h].payment
        /\ req'[h].amount = req[h].amount
        /\ \A g \in Handlers \ {h} : req'[g] = req[g]
    BY <1>1, <1>2, <1>3 DEF PaymentsInv, RequestsTypeOK, Requests
  <1>5. SessionOK' /\ Swept' = Swept
    BY <1>1, <1>2, <1>4 DEF SessionOK, Swept, PaymentsInv, RequestsTypeOK
  <1>6. HandlerInv(h) /\ req[h].op = "upload"
    BY <1>1, <1>2 DEF PaymentsInv, HandlerInv, StageOK, Ops
  <1>7. HandlerInv(h)'
    BY <1>1, <1>4, <1>6 DEF HandlerInv, StageOK, LocksOf, RowStillTrue, JudgedStillTrue,
                            EnteredStillNew, Writing, Judging, Entering
  <1>8. \A g \in Handlers \ {h} : req[g].op \in Entering => req[g].payment # req'[h].payment
    BY <1>4, <1>6 DEF HandlerInv, EnteredStillNew, Entering
  <1> QED BY <1>1, <1>4, <1>5, <1>7, <1>8, OwnStepInv

LEMMA LockPaymentInv ==
  ASSUME PaymentsInv, NEW h \in Handlers, NEW p \in Payments, NEW op \in Judging,
         NEW amount \in Amounts \cup {0}, op = "verify" => amount \in Amounts,
         LockPayment(h, p, op, amount)
  PROVE  PaymentsInv'
  <1> DEFINE b == payment[p].booking
  <1>1. /\ req[h] = Idle /\ payment[p].status = "pending" /\ paymentLock[p] = NoOne
        /\ paymentLock' = [paymentLock EXCEPT ![p] = h]
        /\ Start(h, op, "payment locked", b, p, amount)
        /\ UNCHANGED << booking, payment, objects, bookingLock, todo >>
    BY DEF LockPayment, ledger
  <1>2. op \in Ops /\ b \in Bookings
    BY <1>1 DEF Ops, Judging, PaymentsInv, LedgerInv, NamesItsBooking
  <1>3. /\ req' \in [Handlers -> Requests \cup {Idle}]
        /\ req'[h].op = op /\ req'[h].at = "payment locked" /\ req'[h].payment = p
        /\ req'[h].booking = b /\ req'[h].amount = amount
        /\ \A g \in Handlers \ {h} : req'[g] = req[g]
    <2>1. Begun(h, op, "payment locked", b, p, amount)
      BY <1>1, <1>2, Started
    <2> QED BY <2>1 DEF Begun
  <1>5. /\ NoOne \notin Handlers /\ paymentLock \in [Payments -> Handlers \cup {NoOne}]
    BY HandlersAssumption DEF PaymentsInv, RequestsTypeOK
  <1>6. SessionOK' /\ Swept' = Swept
    BY <1>1, <1>3, <1>5 DEF SessionOK, Swept, PaymentsInv, RequestsTypeOK
  <1>7. \A q \in Payments : paymentLock'[q] = h <=> q = p
    BY <1>1, <1>5, IdleHandler
  <1>8. HandlerInv(h)'
    BY <1>1, <1>3, <1>7, IdleHandler DEF HandlerInv, StageOK, LocksOf, RowStillTrue, JudgedStillTrue,
                                   EnteredStillNew, Writing, Judging, Entering
  <1>9. \A g \in Handlers \ {h} : \A q \in Payments : paymentLock'[q] = g <=> paymentLock[q] = g
    BY <1>1, <1>5
  <1>10. req'[h].op \notin Entering
    BY <1>3 DEF Judging, Entering
  <1> QED BY <1>1, <1>3, <1>6, <1>8, <1>9, <1>10, OwnStepInv

LEMMA LockBookingInv ==
  ASSUME PaymentsInv, NEW h \in Handlers, LockBooking(h)
  PROVE  PaymentsInv'
  <1> DEFINE b == req[h].booking
  <1>1. CASE Rollback(h)
    <2>1. LedgerInv'
      BY <1>1, LedgerNextInv DEF PaymentsInv, Rollback, ledger, vars
    <2> QED BY <1>1, <2>1, RollbackInv
  <1>2. CASE ~Rollback(h)
    <2>1. /\ req[h].at \in { "stored", "payment locked" } /\ bookingLock[b] = NoOne
          /\ req[h].op = "upload" => booking[b].status \in Payable
          /\ bookingLock' = [bookingLock EXCEPT ![b] = h]
          /\ req' = [req EXCEPT ![h].at = "booking locked", ![h].row = booking[b]]
          /\ UNCHANGED << booking, payment, objects, paymentLock, todo >>
      BY <1>2 DEF LockBooking, ledger
    <2>2. req[h] \in Requests /\ b \in Bookings /\ req[h].payment \in Payments /\ req[h].op \in Ops
      BY <2>1, BusyHandler
    <2>3. booking[b] \in BookingRow
      BY <2>2 DEF PaymentsInv, RequestsTypeOK, TypeOK
    <2> DEFINE r == [req[h] EXCEPT !.at = "booking locked", !.row = booking[b]]
    <2>4. /\ r \in Requests
          /\ r.op = req[h].op /\ r.at = "booking locked" /\ r.payment = req[h].payment
          /\ r.booking = b /\ r.amount = req[h].amount /\ r.row = booking[b]
      BY <2>2, <2>3 DEF Requests
    <2>5. req' = [req EXCEPT ![h] = r] /\ req \in [Handlers -> Requests \cup {Idle}]
      BY <2>1, <2>2 DEF PaymentsInv, RequestsTypeOK
    <2> HIDE DEF r
    <2>6. /\ req' \in [Handlers -> Requests \cup {Idle}] /\ req'[h] = r
          /\ \A g \in Handlers \ {h} : req'[g] = req[g]
      BY <2>4, <2>5
    <2>7. /\ NoOne \notin Handlers /\ Sweeper # h /\ NoOne # Sweeper
          /\ bookingLock \in [Bookings -> Handlers \cup {NoOne, Sweeper}]
      BY HandlersAssumption DEF PaymentsInv, RequestsTypeOK
    <2>8. SessionOK'
      BY <2>1, <2>6, <2>7 DEF SessionOK, PaymentsInv, RequestsTypeOK
    <2>9. Swept' = Swept
      BY <2>1, <2>7 DEF Swept
    <2>10. HandlerInv(h) /\ req[h].op # "record"
      BY <2>1 DEF PaymentsInv, HandlerInv, StageOK
    <2>11. \A c \in Bookings : bookingLock[c] # h
      BY <2>1, <2>10 DEF HandlerInv, LocksOf, Writing
    <2>12. \A c \in Bookings : bookingLock'[c] = h <=> c = b
      BY <2>1, <2>7, <2>11
    <2>13. StageOK(h)' /\ LocksOf(h)'
      BY <2>1, <2>4, <2>6, <2>10, <2>12 DEF HandlerInv, StageOK, LocksOf, Writing
    <2>14. RowStillTrue(h)'
      <3>1. [booking[b] EXCEPT !.hold = booking[b].hold] = booking[b]
        BY <2>3 DEF BookingRow
      <3> QED BY <2>1, <2>4, <2>6, <2>10, <3>1 DEF RowStillTrue
    <2>15. JudgedStillTrue(h)' /\ EnteredStillNew(h)'
      <3>1. req'[h].op \in Judging => req[h].op \in Judging
        BY <2>4, <2>6
      <3>2. JudgedStillTrue(h)'
        BY <2>1, <2>4, <2>6, <2>10, <3>1 DEF HandlerInv, JudgedStillTrue
      <3>3. req[h].op = "upload" => req[h].at # "viewed"
        BY <2>1
      <3>4. EnteredStillNew(h)
        BY <2>10 DEF HandlerInv
      <3>5. /\ req'[h].op = req[h].op /\ req'[h].payment = req[h].payment
            /\ req'[h].at # "viewed"
            /\ \A g \in Handlers \ {h} : req'[g] = req[g]
        BY <2>4, <2>6
      <3>6. payment' = payment /\ objects' = objects
        BY <2>1
      <3>7. EnteredStillNew(h)'
        BY <3>3, <3>4, <3>5, <3>6 DEF EnteredStillNew
      <3> QED BY <3>2, <3>7
    <2>16. HandlerInv(h)'
      BY <2>13, <2>14, <2>15 DEF HandlerInv
    <2>17. \A g \in Handlers \ {h} : req[g].op \in Entering /\ req[h].op \in Entering
                                     => req[g].payment # req[h].payment
      BY <2>10 DEF HandlerInv, EnteredStillNew
    <2>18. \A g \in Handlers \ {h} : \A c \in Bookings : bookingLock'[c] = g <=> bookingLock[c] = g
      BY <2>1, <2>7
    <2>19. /\ UNCHANGED << booking, payment >> /\ objects \subseteq objects'
           /\ \A g \in Handlers \ {h} : \A q \in Payments : paymentLock'[q] = g <=> paymentLock[q] = g
           /\ req'[h].op \in Entering =>
                \A g \in Handlers \ {h} : req[g].op \in Entering => req[g].payment # req'[h].payment
      BY <2>1, <2>4, <2>6, <2>17
    <2> QED BY <2>6, <2>8, <2>9, <2>16, <2>18, <2>19, OwnStepInv
  <1> QED BY <1>1, <1>2

LEMMA CountOthersInv ==
  ASSUME PaymentsInv, NEW h \in Handlers, CountOthers(h)
  PROVE  PaymentsInv'
  <1> DEFINE p == req[h].payment
             n == OthersPending(p)
             r == [req[h] EXCEPT !.at = "counted", !.others = n]
  <1>1. /\ req[h].op = "reject" /\ req[h].at = "booking locked"
        /\ req' = [req EXCEPT ![h].at = "counted", ![h].others = n]
        /\ UNCHANGED << booking, payment, objects, bookingLock, paymentLock, todo >>
    BY DEF CountOthers, ledger, locks
  <1>2. req[h] \in Requests /\ req[h].booking \in Bookings /\ p \in Payments
    BY <1>1, BusyHandler
  <1>3. n \in 0 .. Cardinality(Payments)
    <2> DEFINE S == PendingFor(payment[p].booking) \ {p}
               k == Cardinality(S)
               m == Cardinality(Payments)
    <2>1. S \subseteq Payments
      BY DEF PendingFor
    <2> HIDE DEF S
    <2>2. k \in Nat /\ m \in Nat /\ k <= m
      BY <2>1, LedgerAssumption, FS_Subset, FS_CardinalityType
    <2> HIDE DEF k, m
    <2>3. k \in 0 .. m
      BY <2>2
    <2> QED BY <2>3 DEF k, m, S, OthersPending
  <1> HIDE DEF n
  <1>4. /\ r \in Requests
        /\ r.op = "reject" /\ r.at = "counted" /\ r.payment = p
        /\ r.booking = req[h].booking /\ r.row = req[h].row /\ r.others = n
    BY <1>1, <1>2, <1>3 DEF Requests
  <1>5. req' = [req EXCEPT ![h] = r] /\ req \in [Handlers -> Requests \cup {Idle}]
    BY <1>1, <1>2 DEF PaymentsInv, RequestsTypeOK
  <1> HIDE DEF r
  <1>6. /\ req' \in [Handlers -> Requests \cup {Idle}] /\ req'[h] = r
        /\ \A g \in Handlers \ {h} : req'[g] = req[g]
    BY <1>4, <1>5
  <1>7. SessionOK' /\ Swept' = Swept
    BY <1>1, <1>6 DEF SessionOK, Swept, PaymentsInv, RequestsTypeOK
  <1>8. HandlerInv(h)
    BY DEF PaymentsInv
  <1>9. StageOK(h)' /\ LocksOf(h)' /\ RowStillTrue(h)' /\ EnteredStillNew(h)'
    <2>1. StageOK(h)' /\ EnteredStillNew(h)'
      BY <1>1, <1>4, <1>6 DEF StageOK, EnteredStillNew, Entering
    <2>2. LocksOf(h)'
      <3>1. LocksOf(h) /\ req[h].at \in Writing /\ req'[h].at \in Writing
        BY <1>1, <1>4, <1>6, <1>8 DEF HandlerInv, Writing
      <3>2. /\ req'[h].op = req[h].op /\ req'[h].payment = req[h].payment
            /\ req'[h].booking = req[h].booking
            /\ bookingLock' = bookingLock /\ paymentLock' = paymentLock
        BY <1>1, <1>4, <1>6
      <3> QED BY <3>1, <3>2 DEF LocksOf
    <2>3. RowStillTrue(h)'
      <3>1. RowStillTrue(h) /\ req[h].at \in Writing
        BY <1>1, <1>8 DEF HandlerInv, Writing
      <3>2. /\ req'[h].op = req[h].op /\ req'[h].row = req[h].row
            /\ req'[h].booking = req[h].booking /\ booking' = booking
        BY <1>1, <1>4, <1>6
      <3> QED BY <3>1, <3>2 DEF RowStillTrue
    <2> QED BY <2>1, <2>2, <2>3
  <1>10. JudgedStillTrue(h)'
    <2>1. OthersPending(p)' = n /\ p' = p
      BY <1>1, <1>4, <1>6 DEF OthersPending, PendingFor, n
    <2> QED BY <1>1, <1>4, <1>6, <1>8, <2>1 DEF HandlerInv, JudgedStillTrue
  <1>11. HandlerInv(h)' /\ req'[h].op \notin Entering
    BY <1>4, <1>6, <1>9, <1>10 DEF HandlerInv, Entering
  <1> QED BY <1>1, <1>6, <1>7, <1>11, OwnStepInv

LEMMA LockToRecordInv ==
  ASSUME PaymentsInv, NEW h \in Handlers, NEW b \in Bookings, NEW p \in Payments,
         NEW amount \in Amounts, LockToRecord(h, b, p, amount)
  PROVE  PaymentsInv'
  <1>1. /\ req[h] = Idle /\ payment[p].status = "none"
        /\ \A g \in Handlers : req[g].payment # p
        /\ bookingLock[b] = NoOne /\ booking[b].status \in Open
        /\ bookingLock' = [bookingLock EXCEPT ![b] = h]
        /\ Start(h, "record", "booking locked", b, p, amount)
        /\ UNCHANGED << booking, payment, objects, paymentLock, todo >>
    BY DEF LockToRecord, Fresh, ledger
  <1>2. "record" \in Ops /\ amount \in Amounts \cup {0}
    BY DEF Ops
  <1>3. /\ req' \in [Handlers -> Requests \cup {Idle}]
        /\ req'[h].op = "record" /\ req'[h].at = "booking locked" /\ req'[h].payment = p
        /\ req'[h].booking = b /\ req'[h].amount = amount /\ req'[h].row = booking[b]
        /\ \A g \in Handlers \ {h} : req'[g] = req[g]
    <2>1. Begun(h, "record", "booking locked", b, p, amount)
      BY <1>1, <1>2, Started
    <2> QED BY <2>1 DEF Begun
  <1>5. /\ NoOne \notin Handlers /\ Sweeper # h /\ NoOne # Sweeper
        /\ bookingLock \in [Bookings -> Handlers \cup {NoOne, Sweeper}]
    BY HandlersAssumption DEF PaymentsInv, RequestsTypeOK
  <1>6. SessionOK'
    BY <1>1, <1>3, <1>5 DEF SessionOK, PaymentsInv, RequestsTypeOK
  <1>7. Swept' = Swept
    BY <1>1, <1>5 DEF Swept
  <1>8. \A c \in Bookings : bookingLock'[c] = h <=> c = b
    BY <1>1, <1>5, IdleHandler
  <1>9. StageOK(h)' /\ LocksOf(h)' /\ JudgedStillTrue(h)' /\ EnteredStillNew(h)'
    BY <1>1, <1>3, <1>8, IdleHandler
       DEF StageOK, LocksOf, JudgedStillTrue, EnteredStillNew, Writing, Judging, Entering
  <1>10. RowStillTrue(h)'
    <2>1. booking[b] \in BookingRow
      BY DEF PaymentsInv, RequestsTypeOK, TypeOK
    <2>2. [booking[b] EXCEPT !.hold = booking[b].hold] = booking[b]
      BY <2>1 DEF BookingRow
    <2> QED BY <1>1, <1>3, <2>2 DEF RowStillTrue
  <1>11. HandlerInv(h)'
    BY <1>9, <1>10 DEF HandlerInv
  <1>12. \A g \in Handlers \ {h} : \A c \in Bookings : bookingLock'[c] = g <=> bookingLock[c] = g
    BY <1>1, <1>5
  <1> QED BY <1>1, <1>3, <1>6, <1>7, <1>11, <1>12, OwnStepInv

LEMMA CommitsInv ==
  ASSUME PaymentsInv, LedgerInv', NEW h \in Handlers,
         CommitUpload(h) \/ CommitVerify(h) \/ CommitReject(h) \/ CommitRecord(h)
  PROVE  PaymentsInv'
  <1> DEFINE p == req[h].payment
             b == req[h].booking
             r == req[h]
  <1>1. HandlerInv(h)
    BY DEF PaymentsInv
  <1>2. CASE CommitUpload(h)
    <2> DEFINE row == [status |-> "pending", booking |-> b, amount |-> r.amount]
    <2>1. req[h].op = "upload" /\ req[h].at = "booking locked" /\ req[h].at \in Writing
      BY <1>2 DEF CommitUpload, Writing
    <2>2. CommitRows(h, p, row, WithReceipt(r.row))
      BY <1>2 DEF CommitUpload
    <2>3. row.booking = b /\ p \in objects
      BY <1>1, <2>1 DEF HandlerInv, EnteredStillNew
    <2> HIDE DEF row
    <2> QED BY <2>1, <2>2, <2>3, CommitInv
  <1>3. ASSUME req[h].op \in Judging, req[h].at \in Writing, NEW row, NEW next,
               row = [payment[p] EXCEPT !.status = "rejected"]
               \/ (\E a \in Amounts \cup {0} :
                      row = [payment[p] EXCEPT !.status = "verified", !.amount = a]),
               CommitRows(h, p, row, next)
        PROVE  PaymentsInv'
    <2>1. payment[p] \in PaymentRow /\ payment[p].booking = b
      BY <1>1, <1>3, BusyHandler DEF PaymentsInv, RequestsTypeOK, TypeOK, HandlerInv,
                                     JudgedStillTrue, Judging
    <2>2. row.booking = b /\ row.status # "pending"
      BY <1>3, <2>1 DEF PaymentRow
    <2> QED BY <1>3, <2>2, CommitInv
  <1>4. CASE CommitVerify(h)
    <2>1. req[h].op \in Judging /\ req[h].at \in Writing
      BY <1>4 DEF CommitVerify, Writing, Judging
    <2>2. req[h].amount \in Amounts \cup {0}
      BY <2>1, BusyHandler DEF Judging
    <2>3. CommitRows(h, p, [payment[p] EXCEPT !.status = "verified", !.amount = r.amount],
                     Settled(r.row, r.amount))
      BY <1>4 DEF CommitVerify
    <2> QED BY <1>3, <2>1, <2>2, <2>3
  <1>5. CASE CommitReject(h)
    <2>1. req[h].op \in Judging /\ req[h].at \in Writing
      BY <1>5 DEF CommitReject, Writing, Judging
    <2>2. CommitRows(h, p, [payment[p] EXCEPT !.status = "rejected"],
                     WithRejection(r.row, r.others))
      BY <1>5 DEF CommitReject
    <2> QED BY <1>3, <2>1, <2>2
  <1>6. CASE CommitRecord(h)
    <2> DEFINE row == [status |-> "verified", booking |-> b, amount |-> r.amount]
    <2>1. req[h].at \in Writing
      BY <1>6 DEF CommitRecord, Writing
    <2>2. CommitRows(h, p, row, Settled(r.row, r.amount))
      BY <1>6 DEF CommitRecord
    <2>3. row.booking = b /\ row.status # "pending"
      OBVIOUS
    <2> HIDE DEF row
    <2> QED BY <2>1, <2>2, <2>3, CommitInv
  <1> QED BY <1>2, <1>4, <1>5, <1>6

LEMMA HandleInv ==
  ASSUME PaymentsInv, LedgerInv', NEW h \in Handlers, Handle(h)
  PROVE  PaymentsInv'
  <1>1. CASE CommitUpload(h) \/ CommitVerify(h) \/ CommitReject(h) \/ CommitRecord(h)
    BY <1>1, CommitsInv
  <1>2. CASE PutReceipt(h) \/ LockBooking(h) \/ CountOthers(h)
    BY <1>2, PutReceiptInv, LockBookingInv, CountOthersInv
  <1>3. CASE Abort(h)
    BY <1>3, RollbackInv DEF Abort
  <1>4. CASE \E p \in Payments : LockPayment(h, p, "reject", 0)
    <2>1. "reject" \in Judging /\ 0 \in Amounts \cup {0}
      BY DEF Judging
    <2> QED BY <1>4, <2>1, LockPaymentInv
  <1>5. CASE \E p \in Payments, amount \in Amounts : LockPayment(h, p, "verify", amount)
    <2>1. "verify" \in Judging /\ Amounts \subseteq Amounts \cup {0}
      BY DEF Judging
    <2> QED BY <1>5, <2>1, LockPaymentInv
  <1>6. CASE \E p \in Payments, amount \in Amounts, b \in Bookings :
               ViewBooking(h, b, p, amount) \/ LockToRecord(h, b, p, amount)
    BY <1>6, ViewInv, LockToRecordInv
  <1> QED BY <1>1, <1>2, <1>3, <1>4, <1>5, <1>6 DEF Handle, Goes

-----------------------------------------------------------------------------
(* The statements of their own, and the sweep.                             *)

\* A step that moves bookings nobody has locked, or lets holds run out.
LEMMA BookingsMoveInv ==
  ASSUME PaymentsInv, LedgerInv', UNCHANGED << payment, objects, paymentLock, req >>,
         bookingLock' \in [Bookings -> Handlers \cup {NoOne, Sweeper}], todo' \subseteq Bookings,
         \A g \in Handlers : \A b \in Bookings : bookingLock'[b] = g <=> bookingLock[b] = g,
         \A b \in Bookings : bookingLock[b] \in Handlers => StandsOrLapses(b),
         SweptStayLapsed'
  PROVE  PaymentsInv'
  <1>1. ASSUME NEW g \in Handlers PROVE HandlerInv(g)'
    <2>1. req[g].at \in Writing => StandsOrLapses(req[g].booking)
      BY LockedBooking, BusyHandler DEF Writing
    <2>2. PendingFor(req[g].booking)' = PendingFor(req[g].booking)
      BY DEF PendingFor
    <2>3. EnteredStillNew(g)
      BY DEF PaymentsInv, HandlerInv
    <2>4. req[g].op \in Entering =>
            /\ payment'[req[g].payment].status = "none"
            /\ \A k \in Handlers \ {g} : req'[k].op \in Entering => req'[k].payment # req[g].payment
      BY <2>3 DEF EnteredStillNew
    <2> QED BY <2>1, <2>2, <2>4, Unaffected
  <1>2. RequestsTypeOK'
    BY DEF PaymentsInv, RequestsTypeOK, LedgerInv
  <1>3. ReceiptIsStored'
    BY DEF PaymentsInv, ReceiptIsStored
  <1> QED BY <1>1, <1>2, <1>3 DEF PaymentsInv

LEMMA ClockAndCancelInv ==
  ASSUME PaymentsInv, LedgerInv', NEW b \in Bookings, CancelBooking(b) \/ Lapse(b)
  PROVE  PaymentsInv'
  <1>1. /\ UNCHANGED << payment, objects, bookingLock, paymentLock, req, todo >>
        /\ booking \in [Bookings -> BookingRow]
        /\ bookingLock \in [Bookings -> Handlers \cup {NoOne, Sweeper}] /\ todo \subseteq Bookings
    BY DEF CancelBooking, Lapse, Cancel, HoldLapses, session, PaymentsInv, RequestsTypeOK, TypeOK
  <1>2. /\ \A c \in Bookings \ {b} : booking'[c] = booking[c]
        /\ \/ bookingLock[b] = NoOne
           \/ /\ booking[b].hold = "running"
              /\ booking'[b] = [booking[b] EXCEPT !.hold = "lapsed"]
    BY <1>1 DEF CancelBooking, Lapse, Cancel, HoldLapses
  <1>3. \A c \in Bookings : bookingLock[c] \in Handlers => StandsOrLapses(c)
    BY <1>2, HandlersAssumption DEF StandsOrLapses
  <1>4. SweptStayLapsed'
    <2>1. b \notin Swept
      BY <1>2, HandlersAssumption DEF Swept, PaymentsInv, SweptStayLapsed, Lapsed
    <2>2. Swept' = Swept
      BY <1>1 DEF Swept
    <2> QED BY <1>2, <2>1, <2>2 DEF PaymentsInv, SweptStayLapsed, Lapsed, Swept
  <1> QED BY <1>1, <1>3, <1>4, BookingsMoveInv

LEMMA SweepInv ==
  ASSUME PaymentsInv, LedgerInv', Sweep
  PROVE  PaymentsInv'
  <1>1. /\ booking \in [Bookings -> BookingRow]
        /\ bookingLock \in [Bookings -> Handlers \cup {NoOne, Sweeper}] /\ todo \subseteq Bookings
        /\ SweptStayLapsed
        /\ NoOne \notin Handlers /\ Sweeper \notin Handlers /\ NoOne # Sweeper
    BY HandlersAssumption DEF PaymentsInv, RequestsTypeOK, TypeOK
  <1>2. CASE SweepStart
    <2>1. /\ UNCHANGED << booking, payment, objects, bookingLock, paymentLock, req >>
          /\ todo' \subseteq Bookings
      BY <1>2 DEF SweepStart, ledger, locks
    <2>2. SweptStayLapsed'
      BY <1>1, <2>1 DEF SweptStayLapsed, Swept, Lapsed
    <2> QED BY <1>1, <2>1, <2>2, BookingsMoveInv DEF StandsOrLapses
  <1>3. ASSUME NEW b \in Bookings, SweepReach(b) PROVE PaymentsInv'
    <2>1. /\ UNCHANGED << booking, payment, objects, paymentLock, req >>
          /\ bookingLock[b] = NoOne
          /\ bookingLock' = [bookingLock EXCEPT ![b] = IF Lapsed(b) THEN Sweeper ELSE NoOne]
          /\ todo' \subseteq Bookings
      BY <1>1, <1>3 DEF SweepReach, ledger
    <2>2. /\ bookingLock'[b] = IF Lapsed(b) THEN Sweeper ELSE NoOne
          /\ \A c \in Bookings \ {b} : bookingLock'[c] = bookingLock[c]
      BY <1>1, <2>1
    <2>3. bookingLock' \in [Bookings -> Handlers \cup {NoOne, Sweeper}]
      BY <1>1, <2>1
    <2>4. \A g \in Handlers : \A c \in Bookings : bookingLock'[c] = g <=> bookingLock[c] = g
      BY <1>1, <2>1, <2>2
    <2>5. SweptStayLapsed'
      <3>1. \A c \in Bookings : Lapsed(c)' <=> Lapsed(c)
        BY <2>1 DEF Lapsed
      <3>2. \A c \in Swept' : c \in Bookings /\ Lapsed(c)
        BY <1>1, <2>2 DEF Swept, SweptStayLapsed
      <3> QED BY <3>1, <3>2 DEF SweptStayLapsed
    <2>6. \A c \in Bookings : StandsOrLapses(c)
      BY <2>1 DEF StandsOrLapses
    <2> QED BY <2>1, <2>3, <2>4, <2>5, <2>6, BookingsMoveInv
  <1>4. ASSUME NEW S, S \subseteq Swept, SweepEnd(S) PROVE PaymentsInv'
    <2>1. /\ UNCHANGED << payment, objects, paymentLock, req >> /\ todo' \subseteq Bookings
          /\ \A c \in Bookings \ S : booking'[c] = booking[c]
          /\ bookingLock' = [b \in Bookings |-> IF bookingLock[b] = Sweeper THEN NoOne ELSE bookingLock[b]]
      BY <1>4 DEF SweepEnd
    <2>2. bookingLock' \in [Bookings -> Handlers \cup {NoOne, Sweeper}]
      BY <1>1, <2>1
    <2>3. \A g \in Handlers : \A c \in Bookings : bookingLock'[c] = g <=> bookingLock[c] = g
      BY <1>1, <2>1
    <2>4. \A c \in Bookings : bookingLock[c] \in Handlers => StandsOrLapses(c)
      BY <1>1, <1>4, <2>1 DEF Swept, StandsOrLapses
    <2>5. SweptStayLapsed'
      BY <1>1, <2>1 DEF SweptStayLapsed, Swept
    <2> QED BY <2>1, <2>2, <2>3, <2>4, <2>5, BookingsMoveInv
  <1>5. CASE SweepCommit
    BY <1>4, <1>5 DEF SweepCommit
  <1>6. CASE SweepAbort
    BY <1>4, <1>6 DEF SweepAbort
  <1> QED BY <1>2, <1>3, <1>5, <1>6 DEF Sweep

-----------------------------------------------------------------------------
\* The invariant is inductive.
LEMMA PaymentsInitInv == PInit => PaymentsInv
  <1> SUFFICES ASSUME PInit PROVE PaymentsInv
    OBVIOUS
  <1>1. LedgerInv /\ TypeOK
    BY LedgerInitInv DEF PInit, LedgerInv
  <1>2. /\ objects = {} /\ todo = {}
        /\ bookingLock = [b \in Bookings |-> NoOne] /\ paymentLock = [p \in Payments |-> NoOne]
        /\ req = [h \in Handlers |-> Idle]
    BY DEF PInit
  <1>3. RequestsTypeOK
    BY <1>1, <1>2 DEF RequestsTypeOK
  <1>4. ReceiptIsStored
    BY DEF PInit, Init, NoPayment, ReceiptIsStored
  <1>5. ASSUME NEW h \in Handlers PROVE HandlerInv(h)
    <2>1. req[h].op = "none" /\ req[h].at = "idle"
      BY <1>2 DEF Idle
    <2>2. NoOne # h
      BY HandlersAssumption
    <2> QED BY <1>2, <2>1, <2>2 DEF HandlerInv, StageOK, LocksOf, RowStillTrue, JudgedStillTrue,
                                    EnteredStillNew, Writing, Judging, Entering
  <1>6. SweptStayLapsed
    BY <1>2, HandlersAssumption DEF SweptStayLapsed, Swept
  <1> QED BY <1>1, <1>3, <1>4, <1>5, <1>6 DEF PaymentsInv

LEMMA PaymentsNextInv == PaymentsInv /\ [PNext]_pvars => PaymentsInv'
  <1> SUFFICES ASSUME PaymentsInv, [PNext]_pvars PROVE PaymentsInv'
    OBVIOUS
  <1>1. LedgerInv'
    BY StepIsLedger, LedgerNextInv DEF PaymentsInv
  <1>2. CASE \E h \in Handlers : Handle(h)
    BY <1>1, <1>2, HandleInv
  <1>3. CASE \E b \in Bookings : CancelBooking(b) \/ Lapse(b)
    BY <1>1, <1>3, ClockAndCancelInv
  <1>4. CASE Sweep
    BY <1>1, <1>4, SweepInv
  <1>5. CASE UNCHANGED pvars
    <2>1. /\ UNCHANGED << booking, payment, objects, bookingLock, paymentLock, req, todo >>
          /\ bookingLock \in [Bookings -> Handlers \cup {NoOne, Sweeper}] /\ todo \subseteq Bookings
      BY <1>5 DEF pvars, PaymentsInv, RequestsTypeOK
    <2>2. SweptStayLapsed'
      BY <2>1 DEF PaymentsInv, SweptStayLapsed, Swept, Lapsed
    <2> QED BY <1>1, <2>1, <2>2, BookingsMoveInv DEF StandsOrLapses
  <1> QED BY <1>2, <1>3, <1>4, <1>5 DEF PNext

\* The invariant holds in every state, for every number of handlers.
THEOREM PaymentsInvAlways == PSpec => []PaymentsInv
  BY PaymentsInitInv, PaymentsNextInv, PTL DEF PSpec

\* The rows of the requests, the locks and the stored receipts keep their
\* types, whatever the handlers and the sweep do between each other's
\* statements.
THEOREM RequestsKeepTheirTypes == PSpec => []RequestsTypeOK
  <1>1. PaymentsInv => RequestsTypeOK
    BY DEF PaymentsInv
  <1> QED BY <1>1, PaymentsInvAlways, PTL

\* A receipt that waits for an admin is in the object store: uploadPayment
\* stores it before the transaction that commits its key.
THEOREM ReceiptsAreStored == PSpec => []ReceiptIsStored
  <1>1. PaymentsInv => ReceiptIsStored
    BY DEF PaymentsInv
  <1> QED BY <1>1, PaymentsInvAlways, PTL

\* LockBooking, LockPayment and CountPendingPaymentsForBooking: what a
\* transaction has read under its locks is still so when it commits.
THEOREM ReadsStayTrue == PSpec => []ReadsStillTrue
  <1>1. PaymentsInv => ReadsStillTrue
    <2> SUFFICES ASSUME PaymentsInv PROVE ReadsStillTrue
      OBVIOUS
    <2>1. \A h \in Handlers : LocksOf(h) /\ RowStillTrue(h) /\ JudgedStillTrue(h)
      BY DEF PaymentsInv, HandlerInv
    <2> QED BY <2>1 DEF ReadsStillTrue, LocksOf, RowStillTrue, JudgedStillTrue, Writing, Judging
  <1> QED BY <1>1, PaymentsInvAlways, PTL

\* The transactions implement the ledger: every step of a handler or of the
\* sweep is an operation of PaymentLedger at its COMMIT, and a stutter before.
THEOREM PaymentsImplementLedger == PSpec => ImplementsLedger
  <1>1. PInit => Init
    BY DEF PInit
  <1>2. PaymentsInv /\ [PNext]_pvars => [Next]_vars
    BY StepIsLedger
  <1> QED BY <1>1, <1>2, PaymentsInvAlways, PTL DEF PSpec, ImplementsLedger, Spec
=============================================================================
