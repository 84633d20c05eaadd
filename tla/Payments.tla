------------------------------ MODULE Payments ------------------------------
(***************************************************************************)
(* The handlers that move a booking by money, statement by statement: a    *)
(* guest's receipt (uploadPayment), an admin's verdict on it               *)
(* (adminVerifyPayment, adminRejectPayment), money recorded by hand        *)
(* (adminRecordPayment), an admin's cancellation, and the sweep of unpaid  *)
(* holds (ExpireHolds).  It implements PaymentLedger, where each of them   *)
(* happens at once.                                                        *)
(*                                                                         *)
(* The rows in booking and payment are the committed ones: what a          *)
(* transaction has written is kept in its request until COMMIT, since at   *)
(* READ COMMITTED nobody else sees it.  A row lock is held until the end   *)
(* of the transaction.                                                     *)
(***************************************************************************)
EXTENDS PaymentLedger

CONSTANTS Handlers,   \* requests in progress at one time
          NoOne,      \* the holder of a free lock
          Sweeper     \* ExpireHolds as the holder of a lock

ASSUME HandlersAssumption == NoOne \notin Handlers \cup {Sweeper} /\ Sweeper \notin Handlers

VARIABLES
  objects,      \* receipts in the object store, by the payment that names them
  bookingLock,  \* who holds each bookings row FOR UPDATE (or is updating it)
  paymentLock,  \* who holds each payments row FOR UPDATE
  req,          \* what each handler is doing and has read
  todo          \* the rows the sweep's UPDATE has found and not yet reached

ledger == << booking, payment >>
locks == << bookingLock, paymentLock >>
pvars == << booking, payment, objects, bookingLock, paymentLock, req, todo >>

Idle == [op |-> "none", at |-> "idle", booking |-> NoBooking, payment |-> NoOne,
         amount |-> 0, row |-> NewBooking(NoBooking), others |-> 0]

Ops == { "upload", "verify", "reject", "record" }
Requests ==
  [op : Ops, at : { "viewed", "stored", "payment locked", "booking locked", "counted" },
   booking : Bookings, payment : Payments, amount : Amounts \cup {0},
   row : BookingRow, others : 0 .. Cardinality(Payments)]

RequestsTypeOK ==
  /\ TypeOK
  /\ objects \subseteq Payments
  /\ bookingLock \in [Bookings -> Handlers \cup {NoOne, Sweeper}]
  /\ paymentLock \in [Payments -> Handlers \cup {NoOne}]
  /\ req \in [Handlers -> Requests \cup {Idle}]
  /\ todo \subseteq Bookings

PInit ==
  /\ Init
  /\ objects = {}
  /\ bookingLock = [b \in Bookings |-> NoOne]
  /\ paymentLock = [p \in Payments |-> NoOne]
  /\ req = [h \in Handlers |-> Idle]
  /\ todo = {}

-----------------------------------------------------------------------------
(* The transactions' shape.                                                *)

Start(h, op, at, b, p, amount) ==
  req' = [req EXCEPT ![h] = [op |-> op, at |-> at, booking |-> b, payment |-> p,
                             amount |-> amount, row |-> booking[b], others |-> 0]]

\* The end of h's transaction, by COMMIT or ROLLBACK: its locks are free.
Finish(h) ==
  /\ req' = [req EXCEPT ![h] = Idle]
  /\ bookingLock' = [b \in Bookings |-> IF bookingLock[b] = h THEN NoOne ELSE bookingLock[b]]
  /\ paymentLock' = [p \in Payments |-> IF paymentLock[p] = h THEN NoOne ELSE paymentLock[p]]

\* A mutant: the handler returns and leaves its transaction open.
Rollback_LeavesOpen(h) ==
  /\ req' = [req EXCEPT ![h] = Idle]
  /\ UNCHANGED << ledger, objects, locks, todo >>

Rollback(h) ==
  /\ Finish(h)
  /\ UNCHANGED << ledger, objects, todo >>

\* SetBookingPayment, with values computed from the row as it was read.  The
\* hold that is written back is the timestamp that was read; whether it has
\* passed is up to the clock.
Write(b, read, next) ==
  [booking[b] EXCEPT !.status = next.status,
                     !.paid = next.paid,
                     !.rejections = next.rejections,
                     !.hold = IF next.hold = read.hold THEN booking[b].hold ELSE next.hold,
                     !.reason = IF next.status = "cancelled" THEN next.reason
                                                             ELSE booking[b].reason]

\* The COMMIT of h's two rows.
CommitRows(h, p, row, next) ==
  LET r == req[h]
  IN /\ payment' = [payment EXCEPT ![p] = row]
     /\ booking' = [booking EXCEPT ![r.booking] = Write(r.booking, r.row, next)]
     /\ Finish(h)
     /\ UNCHANGED << objects, todo >>

\* A payment id nobody has: gen_random_uuid().
Fresh(p) == payment[p].status = "none" /\ \A h \in Handlers : req[h].payment # p

-----------------------------------------------------------------------------
(* uploadPayment.                                                          *)

\* The view: a booking that waits for money, whose hold has not run out.
ViewBooking(h, b, p, amount) ==
  /\ req[h] = Idle
  /\ Fresh(p) /\ p \notin objects
  /\ booking[b].status \in Payable
  /\ ~Lapsed(b)
  /\ Start(h, "upload", "viewed", b, p, amount)
  /\ UNCHANGED << ledger, objects, locks, todo >>

\* A mutant: the payment's key is recorded, and the receipt stored later.
PutReceipt_Skipped(h) ==
  /\ req[h].at = "viewed"
  /\ req' = [req EXCEPT ![h].at = "stored"]
  /\ UNCHANGED << ledger, objects, locks, todo >>

\* PutPrivate, before the transaction.
PutReceipt(h) ==
  /\ req[h].at = "viewed"
  /\ objects' = objects \cup {req[h].payment}
  /\ req' = [req EXCEPT ![h].at = "stored"]
  /\ UNCHANGED << ledger, locks, todo >>

CommitUpload(h) ==
  /\ req[h].op = "upload" /\ req[h].at = "booking locked"
  /\ CommitRows(h, req[h].payment,
                [status |-> "pending", booking |-> req[h].booking, amount |-> req[h].amount],
                WithReceipt(req[h].row))

-----------------------------------------------------------------------------
(* adminVerifyPayment, adminRejectPayment and adminRecordPayment.          *)

\* LockPayment, then VerifyPayment or RejectPayment: a payment that is not
\* pending any more is answered with already_checked, which changes nothing.
LockPayment(h, p, op, amount) ==
  /\ req[h] = Idle
  /\ paymentLock[p] = NoOne
  /\ payment[p].status = "pending"
  /\ paymentLock' = [paymentLock EXCEPT ![p] = h]
  /\ Start(h, op, "payment locked", payment[p].booking, p, amount)
  /\ UNCHANGED << ledger, objects, bookingLock, todo >>

\* A mutant: the SELECT without FOR UPDATE.
LockBooking_NoWait(h) ==
  LET b == req[h].booking
  IN /\ req[h].at \in { "stored", "payment locked" }
     /\ IF req[h].op = "upload" /\ booking[b].status \notin Payable
        THEN Rollback(h)
        ELSE /\ bookingLock' = [bookingLock EXCEPT ![b] = h]
             /\ req' = [req EXCEPT ![h].at = "booking locked", ![h].row = booking[b]]
             /\ UNCHANGED << ledger, objects, paymentLock, todo >>

\* LockBooking in a transaction already begun.  A receipt whose booking no
\* longer waits for money is refused with not_payable; its object stays.
LockBooking(h) ==
  LET b == req[h].booking
  IN /\ req[h].at \in { "stored", "payment locked" }
     /\ bookingLock[b] = NoOne
     /\ IF req[h].op = "upload" /\ booking[b].status \notin Payable
        THEN Rollback(h)
        ELSE /\ bookingLock' = [bookingLock EXCEPT ![b] = h]
             /\ req' = [req EXCEPT ![h].at = "booking locked", ![h].row = booking[b]]
             /\ UNCHANGED << ledger, objects, paymentLock, todo >>

\* settle.
CommitVerify(h) ==
  /\ req[h].op = "verify" /\ req[h].at = "booking locked"
  /\ LET p == req[h].payment
     IN CommitRows(h, p, [payment[p] EXCEPT !.status = "verified", !.amount = req[h].amount],
                   Settled(req[h].row, req[h].amount))

\* CountPendingPaymentsForBooking, which sees its own rejection.
CountOthers(h) ==
  /\ req[h].op = "reject" /\ req[h].at = "booking locked"
  /\ req' = [req EXCEPT ![h].at = "counted", ![h].others = OthersPending(req[h].payment)]
  /\ UNCHANGED << ledger, objects, locks, todo >>

CommitReject(h) ==
  /\ req[h].op = "reject" /\ req[h].at = "counted"
  /\ LET p == req[h].payment
     IN CommitRows(h, p, [payment[p] EXCEPT !.status = "rejected"],
                   WithRejection(req[h].row, req[h].others))

\* LockBooking as the first statement.
LockToRecord(h, b, p, amount) ==
  /\ req[h] = Idle
  /\ Fresh(p) /\ p \notin objects
  /\ bookingLock[b] = NoOne
  /\ booking[b].status \in Open
  /\ bookingLock' = [bookingLock EXCEPT ![b] = h]
  /\ Start(h, "record", "booking locked", b, p, amount)
  /\ UNCHANGED << ledger, objects, paymentLock, todo >>

CommitRecord(h) ==
  /\ req[h].op = "record" /\ req[h].at = "booking locked"
  /\ CommitRows(h, req[h].payment,
                [status |-> "verified", booking |-> req[h].booking, amount |-> req[h].amount],
                Settled(req[h].row, req[h].amount))

\* A timeout, a lost connection, a crash of the API.
Abort(h) == req[h] # Idle /\ Rollback(h)

-----------------------------------------------------------------------------
(* Statements of their own.                                                *)

session == << objects, bookingLock, paymentLock, req, todo >>

\* CancelBooking waits for the row's lock and tests its WHERE on the row it
\* then finds.
CancelBooking(b) == bookingLock[b] = NoOne /\ Cancel(b) /\ UNCHANGED session

Lapse(b) == HoldLapses(b) /\ UNCHANGED session

\* ExpireHolds is one UPDATE, but one that may meet locked rows: it finds
\* the lapsed rows when it starts, waits for each, and tests its WHERE again
\* on the row as it then is.
Swept == { b \in Bookings : bookingLock[b] = Sweeper }

SweepStart ==
  /\ todo = {} /\ Swept = {}
  /\ todo' = { b \in Bookings : Lapsed(b) }
  /\ todo' # {}
  /\ UNCHANGED << ledger, objects, locks, req >>

\* A mutant: the WHERE is not tested again.
SweepReach_Stale(b) ==
  /\ b \in todo
  /\ bookingLock[b] = NoOne
  /\ todo' = todo \ {b}
  /\ bookingLock' = [bookingLock EXCEPT ![b] = Sweeper]
  /\ UNCHANGED << ledger, objects, paymentLock, req >>

SweepReach(b) ==
  /\ b \in todo
  /\ bookingLock[b] = NoOne
  /\ todo' = todo \ {b}
  /\ bookingLock' = [bookingLock EXCEPT ![b] = IF Lapsed(b) THEN Sweeper ELSE NoOne]
  /\ UNCHANGED << ledger, objects, paymentLock, req >>

SweepEnd(expired) ==
  /\ booking' = [b \in Bookings |-> IF b \in expired
                                    THEN [booking[b] EXCEPT !.status = "expired"]
                                    ELSE booking[b]]
  /\ bookingLock' = [b \in Bookings |-> IF bookingLock[b] = Sweeper THEN NoOne ELSE bookingLock[b]]
  /\ todo' = {}
  /\ UNCHANGED << payment, objects, paymentLock, req >>

SweepCommit == todo = {} /\ Swept # {} /\ SweepEnd(Swept)

\* A shutdown or a lost connection in the middle of it.
SweepAbort == (todo # {} \/ Swept # {}) /\ SweepEnd({})

-----------------------------------------------------------------------------
Goes(h) == \/ PutReceipt(h)
           \/ LockBooking(h)
           \/ CountOthers(h)
           \/ CommitUpload(h)
           \/ CommitVerify(h)
           \/ CommitReject(h)
           \/ CommitRecord(h)

Handle(h) ==
  \/ Goes(h)
  \/ Abort(h)
  \/ \E p \in Payments : LockPayment(h, p, "reject", 0)
  \/ \E p \in Payments, amount \in Amounts :
       \/ LockPayment(h, p, "verify", amount)
       \/ \E b \in Bookings : ViewBooking(h, b, p, amount) \/ LockToRecord(h, b, p, amount)

Sweep == SweepStart \/ (\E b \in Bookings : SweepReach(b)) \/ SweepCommit \/ SweepAbort

PNext == \/ \E h \in Handlers : Handle(h)
         \/ \E b \in Bookings : CancelBooking(b) \/ Lapse(b)
         \/ Sweep

PSpec == PInit /\ [][PNext]_pvars

\* Handlers go on, and Postgres gives each waiter its turn; time passes; the
\* sweep starts every minute; and the API is not restarted forever, for the
\* sweep's context has no deadline and only a shutdown cuts it short.
PFairness ==
  /\ \A h \in Handlers : WF_pvars(Goes(h)) /\ SF_pvars(LockBooking(h))
  /\ \A b \in Bookings : WF_pvars(Lapse(b)) /\ SF_pvars(SweepReach(b))
  /\ WF_pvars(SweepStart)
  /\ WF_pvars(SweepCommit)
  /\ <>[][~SweepAbort]_pvars

PFairSpec == PSpec /\ PFairness

-----------------------------------------------------------------------------
(* Properties.                                                             *)

\* Every interleaving of the transactions, aborted or not, amounts to the
\* operations of the ledger happening one at a time.  So what PaymentLedger's
\* properties say of the rows holds of the program's rows, and no update of
\* one handler is lost under another's.
ImplementsLedger == Spec

\* An admin who opens a receipt that waits to be checked finds it: its key is
\* committed only after the object is stored, whatever crashes in between.
ReceiptIsStored == \A p \in Payments : payment[p].status = "pending" => p \in objects

\* The locks belong to the transactions that took them, and what a
\* transaction read under its locks is still so when it commits: the row it
\* computes from, the receipts it counted, the receipt it judges.
ReadsStillTrue ==
  /\ \A h \in Handlers, b \in Bookings :
       bookingLock[b] = h <=> req[h].at \in { "booking locked", "counted" } /\ req[h].booking = b
  /\ \A h \in Handlers, p \in Payments :
       paymentLock[p] = h <=> req[h].op \in { "verify", "reject" } /\ req[h].payment = p
  /\ \A h \in Handlers : req[h].at \in { "booking locked", "counted" } =>
       LET b == req[h].booking
       IN [req[h].row EXCEPT !.hold = booking[b].hold] = booking[b]
  /\ \A h \in Handlers : req[h].op \in { "verify", "reject" } =>
       payment[req[h].payment].status = "pending"
  /\ \A h \in Handlers : req[h].at = "counted" => req[h].others = OthersPending(req[h].payment)

\* A guest who does not pay does not keep the dates: a booking that waits for
\* money without a receipt moves on, if by nothing else then by the sweep,
\* whose UPDATE no stream of other transactions can hold up forever.
UnpaidHoldEnds ==
  \A b \in Bookings : booking[b].status = "pending_payment" ~> booking[b].status # "pending_payment"

\* Every request ends: the locks are taken in one order, a receipt's before
\* its booking's, so no two transactions wait for each other.
EveryRequestEnds == \A h \in Handlers : req[h] # Idle ~> req[h] = Idle
=============================================================================
