---------------------------- MODULE Reservations ----------------------------
(***************************************************************************)
(* One unit's nights, and the handlers that race for them: a guest's       *)
(* POST /bookings (createBooking), an admin's manual booking               *)
(* (adminCreateBooking) and block (adminCreateBlock), with everything that *)
(* gives nights back or changes the unit's row meanwhile.                  *)
(*                                                                         *)
(* Postgres runs these transactions at READ COMMITTED: a statement sees    *)
(* what was committed when it started, a row lock is held until commit or  *)
(* rollback, and a row nobody committed is invisible.  So one action is    *)
(* one statement, and the INSERT is one action with its COMMIT: nobody     *)
(* else can see or contradict the row in between, since every insert       *)
(* happens under the unit's lock.                                          *)
(*                                                                         *)
(* A request is identified with the row it may insert.                     *)
(***************************************************************************)
EXTENDS BookingRules, FiniteSets

CONSTANTS WebBookings,     \* guests' requests
          ManualBookings,  \* admin's bookings
          BlockRequests,   \* admin's blocks
          Days,            \* dates a range may start or end on
          Buffers,         \* values an admin may give units.buffer_days
          NoRequest

Bookings == WebBookings \cup ManualBookings
Requests == Bookings \cup BlockRequests

ASSUME RequestsAreDistinct ==
  /\ WebBookings \cap ManualBookings = {}
  /\ Bookings \cap BlockRequests = {}
  /\ NoRequest \notin Requests
ASSUME CalendarAssumption == Days \subseteq Int /\ Buffers \subseteq Nat

Ranges == RangesOf(Days)
UnitStatus == { "draft", "active", "archived", "deleted" }

VARIABLES
  status,      \* bookings.status, "absent" before the row is committed
  hold,        \* bookings.hold_expires_at
  blocks,      \* the rows of unit_blocks
  unit,        \* the units row: its status and buffer_days
  unitLock,    \* who holds the units row FOR UPDATE
  pc,          \* where each request is
  span,        \* the dates each request asks for
  seenBuffer   \* the buffer_days its handler read, before taking the lock

rows == << status, hold, blocks, unit >>
vars == << status, hold, blocks, unit, unitLock, pc, span, seenBuffer >>

\* A request ends "done" (201), "refused" (404, 409, 422), "excluded" (23P01
\* from an exclusion constraint) or "failed" (500, timeout, lost connection).
Answered == { "done", "refused", "excluded", "failed" }
InTransaction == { "locked", "clear" }
PC == { "start", "unlocked" } \cup InTransaction \cup Answered

TypeOK ==
  /\ status \in [Bookings -> Reachable \cup {"absent"}]
  /\ hold \in [Bookings -> Hold]
  /\ blocks \in SUBSET BlockRequests
  /\ unit \in [status : UnitStatus, buffer : Buffers]
  /\ unitLock \in Requests \cup {NoRequest}
  /\ pc \in [Requests -> PC]
  /\ span \in [Requests -> Ranges]
  /\ seenBuffer \in [Bookings -> Buffers]

Init ==
  /\ status = [b \in Bookings |-> "absent"]
  /\ hold = [b \in Bookings |-> "none"]
  /\ blocks = {}
  /\ unit \in [status : {"active"}, buffer : Buffers]
  /\ unitLock = NoRequest
  /\ pc = [r \in Requests |-> IF r \in Bookings THEN "start" ELSE "unlocked"]
  /\ span \in [Requests -> Ranges]
  /\ seenBuffer = [b \in Bookings |-> unit.buffer]

-----------------------------------------------------------------------------
(* The transactions' shape: inTx, the unit's lock, commit and rollback.    *)

\* The end of r's transaction and its answer: the lock goes with it.
Finish(r, answer) ==
  /\ pc' = [pc EXCEPT ![r] = answer]
  /\ unitLock' = IF unitLock = r THEN NoRequest ELSE unitLock

\* A mutant: the handler answers but its transaction is left open.
Rollback_LeavesOpen(r, answer) ==
  /\ pc' = [pc EXCEPT ![r] = answer]
  /\ UNCHANGED << unitLock, rows, span, seenBuffer >>

Rollback(r, answer) ==
  /\ Finish(r, answer)
  /\ UNCHANGED << rows, span, seenBuffer >>

\* A mutant: the SELECT without FOR UPDATE.
LockUnit_NoWait(r) ==
  /\ pc[r] = "unlocked"
  /\ unit.status # "deleted"
  /\ unitLock' = r
  /\ pc' = [pc EXCEPT ![r] = "locked"]
  /\ UNCHANGED << rows, span, seenBuffer >>

\* SELECT ... FOR UPDATE waits for the lock.
LockUnit(r) ==
  /\ pc[r] = "unlocked"
  /\ unitLock = NoRequest
  /\ unit.status # "deleted"
  /\ unitLock' = r
  /\ pc' = [pc EXCEPT ![r] = "locked"]
  /\ UNCHANGED << rows, span, seenBuffer >>

\* The unit was deleted after the handler read it: no row to lock, which a
\* block answers with 404 and a booking with 500.
LockMissingUnit(r) ==
  /\ pc[r] = "unlocked"
  /\ unit.status = "deleted"
  /\ Rollback(r, IF r \in BlockRequests THEN "refused" ELSE "failed")

\* A timeout, a lost connection, a crash of the API: Postgres rolls back
\* whatever had not committed.
Abort(r) ==
  /\ pc[r] \notin Answered
  /\ Rollback(r, "failed")

-----------------------------------------------------------------------------
(* What the statements count.                                              *)

\* Occupying bookings that hold one of the nights of s.
BookingsInRange_Drift(s) ==
  { b \in Bookings : status[b] \in Open \ {"awaiting_verification"} /\ Overlaps(span[b], s) }

BookingsInRange(s) ==
  { b \in Bookings : status[b] \in Occupying /\ Overlaps(span[b], s) }

BlocksInRange(s) == { k \in blocks : Overlaps(span[k], s) }

\* CountOverlappingStays, with the buffer the caller passes.
OverlappingStays_BookingsOnly(s, buffer) ==
  { b \in Bookings : /\ status[b] \in Occupying
                     /\ Overlaps(WithTurnover(span[b], buffer), s) }

OverlappingStays_NoTurnover(s, buffer) == BookingsInRange(s) \cup BlocksInRange(s)

OverlappingStays(s, buffer) ==
  { b \in Bookings : /\ status[b] \in Occupying
                     /\ Overlaps(WithTurnover(span[b], buffer), s) }
  \cup BlocksInRange(s)

-----------------------------------------------------------------------------
(* createBooking and adminCreateBooking.                                   *)

\* The unit read before the transaction: only an active one for a guest,
\* anything but an archived one for an admin.
MayBook(b) == IF b \in WebBookings THEN unit.status = "active"
                                   ELSE unit.status \in { "draft", "active" }

ReadUnit(b) ==
  /\ pc[b] = "start"
  /\ MayBook(b)
  /\ seenBuffer' = [seenBuffer EXCEPT ![b] = unit.buffer]
  /\ pc' = [pc EXCEPT ![b] = "unlocked"]
  /\ UNCHANGED << rows, unitLock, span >>

UnitNotBookable(b) ==
  /\ pc[b] = "start"
  /\ ~MayBook(b)
  /\ Rollback(b, "refused")

\* quoteStay: Quote's rules may refuse the stay (dates too soon or too far,
\* guests, no price), and an overlap refuses it as "unavailable".
RefuseStay(b) ==
  /\ pc[b] = "locked"
  /\ b \in WebBookings \/ OverlappingStays(span[b], seenBuffer[b]) # {}
  /\ Rollback(b, "refused")

StayIsFree(b) ==
  /\ pc[b] = "locked"
  /\ OverlappingStays(span[b], seenBuffer[b]) = {}
  /\ pc' = [pc EXCEPT ![b] = "clear"]
  /\ UNCHANGED << rows, unitLock, span, seenBuffer >>

\* CreateBooking and COMMIT, unless bookings_no_overlap refuses the row.  The
\* answer may still be lost, or the read of the view after it fail, so
\* "failed" does not mean "not booked".
InsertBooking(b) ==
  /\ pc[b] = "clear"
  /\ IF BookingsInRange(span[b]) = {}
     THEN /\ status' = [status EXCEPT ![b] = IF b \in WebBookings THEN "pending_payment"
                                                                  ELSE "confirmed"]
          /\ hold' = [hold EXCEPT ![b] = IF b \in WebBookings THEN "running" ELSE "none"]
          /\ \E answer \in { "done", "failed" } : Finish(b, answer)
          /\ UNCHANGED << blocks, unit, span, seenBuffer >>
     ELSE Rollback(b, "excluded")

(* adminCreateBlock. *)

RefuseBlock(k) ==
  /\ pc[k] = "locked"
  /\ BookingsInRange(span[k]) # {}
  /\ Rollback(k, "refused")

BlockIsFree(k) ==
  /\ pc[k] = "locked"
  /\ BookingsInRange(span[k]) = {}
  /\ pc' = [pc EXCEPT ![k] = "clear"]
  /\ UNCHANGED << rows, unitLock, span, seenBuffer >>

\* CreateBlock and COMMIT.
InsertBlock(k) ==
  /\ pc[k] = "clear"
  /\ BlocksInRange(span[k]) = {}
  /\ blocks' = blocks \cup {k}
  /\ \E answer \in { "done", "failed" } : Finish(k, answer)
  /\ UNCHANGED << status, hold, unit, span, seenBuffer >>

\* unit_blocks_no_overlap refuses it: 409 overlaps_block.
BlockExcluded(k) ==
  /\ pc[k] = "clear"
  /\ BlocksInRange(span[k]) # {}
  /\ Rollback(k, "excluded")

-----------------------------------------------------------------------------
(* Statements that take no unit lock.                                      *)

session == << unitLock, pc, span, seenBuffer >>

\* DeleteBlock.
DeleteBlock(k) ==
  /\ k \in blocks
  /\ blocks' = blocks \ {k}
  /\ UNCHANGED << status, hold, unit, session >>

\* CancelBooking: one UPDATE, guarded by its WHERE.
CancelBooking(b) ==
  /\ status[b] \in Open
  /\ status' = [status EXCEPT ![b] = "cancelled"]
  /\ UNCHANGED << hold, blocks, unit, session >>

\* The clock passes hold_expires_at, which only matters, and is only read,
\* while the booking is pending_payment.
HoldLapses(b) ==
  /\ status[b] = "pending_payment"
  /\ hold[b] = "running"
  /\ hold' = [hold EXCEPT ![b] = "lapsed"]
  /\ UNCHANGED << status, blocks, unit, session >>

Lapsed == { b \in Bookings : status[b] = "pending_payment" /\ hold[b] = "lapsed" }

\* ExpireHolds: one UPDATE.  A row that only lapses, or whose lock is only
\* released, after the statement's snapshot waits for the next minute.
ExpireHolds ==
  /\ \E bs \in SUBSET Lapsed \ {{}} :
       status' = [b \in Bookings |-> IF b \in bs THEN "expired" ELSE status[b]]
  /\ UNCHANGED << hold, blocks, unit, session >>

\* What the payment handlers do to the row, seen from here (module Payments
\* is the handlers themselves): a receipt stops the hold, a verified amount
\* confirms, a rejection restarts the hold or, the second time, cancels.
PaymentMove(b) ==
  /\ \/ /\ status[b] \in Payable
        /\ status' = [status EXCEPT ![b] = AfterUpload(status[b])]
        /\ hold' = [hold EXCEPT ![b] = "none"]
     \/ /\ status[b] \in Payable
        /\ status' = [status EXCEPT ![b] = "confirmed"]
        /\ hold' = [hold EXCEPT ![b] = "none"]
     \/ /\ status[b] = "awaiting_verification"
        /\ status' = [status EXCEPT ![b] = "pending_payment"]
        /\ hold' = [hold EXCEPT ![b] = "running"]
     \/ /\ status[b] \in Open
        /\ status' = [status EXCEPT ![b] = "cancelled"]
        /\ UNCHANGED hold
  /\ UNCHANGED << blocks, unit, session >>

\* adminPatchUnit ends in an UPDATE of the units row, which waits for the
\* lock of a booking in progress.
PatchUnit ==
  /\ unit.status # "deleted"
  /\ unitLock = NoRequest
  /\ unit' \in [status : UnitStatus \ {"deleted"}, buffer : Buffers]
  /\ UNCHANGED << status, hold, blocks, session >>

\* adminDeleteUnit: refused while any booking references the unit, whatever
\* its status; its blocks go with it.
DeleteUnit ==
  /\ unit.status # "deleted"
  /\ unitLock = NoRequest
  /\ \A b \in Bookings : status[b] = "absent"
  /\ unit' = [unit EXCEPT !.status = "deleted"]
  /\ blocks' = {}
  /\ UNCHANGED << status, hold, session >>

-----------------------------------------------------------------------------
Book(b) == \/ ReadUnit(b)
           \/ UnitNotBookable(b)
           \/ RefuseStay(b)
           \/ StayIsFree(b)
           \/ InsertBooking(b)

Block(k) == \/ RefuseBlock(k)
            \/ BlockIsFree(k)
            \/ InsertBlock(k)
            \/ BlockExcluded(k)

Step(r) == \/ LockUnit(r)
           \/ LockMissingUnit(r)
           \/ r \in Bookings /\ Book(r)
           \/ r \in BlockRequests /\ Block(r)

Next == \/ \E r \in Requests : Step(r) \/ Abort(r)
        \/ \E k \in BlockRequests : DeleteBlock(k)
        \/ \E b \in Bookings : CancelBooking(b) \/ HoldLapses(b) \/ PaymentMove(b)
        \/ ExpireHolds
        \/ PatchUnit
        \/ DeleteUnit

Spec == Init /\ [][Next]_vars

\* A handler that is neither aborted nor blocked goes on, and Postgres queues
\* those waiting for a row lock, so each gets its turn.
Fairness == \A r \in Requests : WF_vars(Step(r)) /\ SF_vars(LockUnit(r))

FairSpec == Spec /\ Fairness

-----------------------------------------------------------------------------
(* Properties.                                                             *)

\* The rows that hold nights now.
Holds(r) == IF r \in Bookings THEN status[r] \in Occupying ELSE r \in blocks

\* No night of the unit is held twice, whether by two bookings, by two
\* blocks, or by a booking and a block, for which no database constraint
\* exists: only the unit's row lock keeps them apart.
NightsHeldOnce ==
  \A r, q \in Requests :
    r # q /\ Holds(r) /\ Holds(q) => ~Overlaps(span[r], span[q])

\* The count under the unit's lock always comes first: bookings_no_overlap,
\* the database's last line of defence, never has to refuse a booking.
ConstraintNeverNeeded == \A b \in Bookings : pc[b] # "excluded"

\* When a booking is committed, no earlier stay ends within the turnover days
\* its handler read, however long ago that was and whatever happened to the
\* unit between the count and the commit.
TurnoverKeptAfterEarlierStays ==
  [][\A b, x \in Bookings :
       /\ status[b] = "absent" /\ status'[b] # "absent"
       /\ status[x] \in Occupying /\ span[x].from < span[b].to
       => span[b].from >= span[x].to + seenBuffer[b]]_vars

\* A commit lands on the unit the lock was taken on: while a booking or block
\* is between its lock and its commit, nobody edits or deletes the unit, and
\* no other transaction adds a row that holds nights.
LockProtectsTheUnit ==
  [][\A r \in Requests : pc[r] \in InTransaction =>
       /\ unit' = unit
       /\ \A q \in Requests \ {r} : Holds(q)' => Holds(q)]_vars

\* Every request gets an answer: no handler keeps the unit's lock after its
\* own end, so none waits for it forever.
EveryRequestAnswered == \A r \in Requests : <>(pc[r] \in Answered)

\* The strengthening that makes these inductive: the unit's lock is held by
\* the one request between its lock and its commit; a request that has not
\* answered has inserted nothing; and what a request counted as free stays
\* free until it commits, for only the holder of the lock can add rows.
LockHeld == \A r \in Requests : pc[r] \in InTransaction <=> unitLock = r

NothingInsertedYet == \A r \in Requests : pc[r] \notin Answered =>
  IF r \in Bookings THEN status[r] = "absent" ELSE r \notin blocks

CountStillTrue ==
  /\ \A b \in Bookings :
       pc[b] = "clear" => OverlappingStays(span[b], seenBuffer[b]) = {}
  /\ \A k \in BlockRequests :
       pc[k] = "clear" => BookingsInRange(span[k]) = {}

IInv == /\ TypeOK
        /\ LockHeld
        /\ NothingInsertedYet
        /\ CountStillTrue
        /\ NightsHeldOnce
        /\ ConstraintNeverNeeded

\* Refinement: bookings and blocks are claims on the unit's calendar.
Calendar == INSTANCE UnitCalendar WITH
  Claims <- Requests,
  Nights <- UNION { NightsOf(s) : s \in Ranges },
  held <- [r \in Requests |-> IF Holds(r) THEN NightsOf(span[r]) ELSE {}]

ImplementsCalendar == Calendar!Spec

\* The design's rule 6: the turnover gap follows each booking, whichever of
\* two neighbouring stays was booked first.
TurnoverAfterEachStay ==
  \A b, x \in Bookings :
    Holds(b) /\ Holds(x) /\ span[x].to <= span[b].from
      => span[b].from >= span[x].to + unit.buffer
=============================================================================
