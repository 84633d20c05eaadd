------------------------- MODULE ReservationsProofs -------------------------
(***************************************************************************)
(* Theorems about Reservations, for any number of requests, any calendar   *)
(* and any turnover.                                                       *)
(***************************************************************************)
EXTENDS Reservations, TLAPS

\* A range has integer ends, the first before the second.
LEMMA SpanIsARange ==
  ASSUME TypeOK, NEW r \in Requests
  PROVE  /\ span[r] \in [from : Int, to : Int]
         /\ span[r].from < span[r].to
<1>1. span[r] \in RangesOf(Days)
  BY DEF TypeOK, Ranges
<1>2. QED
  BY <1>1, CalendarAssumption DEF RangesOf

-----------------------------------------------------------------------------
(* Types.                                                                  *)

\* A handler that rolls back keeps every variable's type.
LEMMA RollbackType ==
  ASSUME TypeOK, NEW r \in Requests, NEW a \in Answered, Rollback(r, a)
  PROVE  TypeOK'
BY DEF TypeOK, Rollback, Finish, rows, PC

\* So does each step of a booking's handler,
LEMMA BookType ==
  ASSUME TypeOK, NEW b \in Bookings, Book(b)
  PROVE  TypeOK'
<1> b \in Requests
  BY DEF Requests
<1>1. CASE ReadUnit(b)
  BY <1>1 DEF ReadUnit, TypeOK, rows, PC
<1>2. CASE UnitNotBookable(b)
  BY <1>2, RollbackType DEF UnitNotBookable, Answered
<1>3. CASE RefuseStay(b)
  BY <1>3, RollbackType DEF RefuseStay, Answered
<1>4. CASE StayIsFree(b)
  BY <1>4 DEF StayIsFree, TypeOK, rows, PC, InTransaction
<1>5. CASE InsertBooking(b)
  <2>1. CASE BookingsInRange(span[b]) = {}
    BY <1>5, <2>1 DEF InsertBooking, Finish, TypeOK, PC, Answered, Reachable, Hold
  <2>2. CASE BookingsInRange(span[b]) # {}
    BY <1>5, <2>2, RollbackType DEF InsertBooking, Answered
  <2>3. QED
    BY <2>1, <2>2
<1>6. QED
  BY <1>1, <1>2, <1>3, <1>4, <1>5 DEF Book

\* each step of a block's handler,
LEMMA BlockType ==
  ASSUME TypeOK, NEW k \in BlockRequests, Block(k)
  PROVE  TypeOK'
<1> k \in Requests
  BY DEF Requests
<1>1. CASE RefuseBlock(k)
  BY <1>1, RollbackType DEF RefuseBlock, Answered
<1>2. CASE BlockIsFree(k)
  BY <1>2 DEF BlockIsFree, TypeOK, rows, PC, InTransaction
<1>3. CASE InsertBlock(k)
  BY <1>3 DEF InsertBlock, Finish, TypeOK, PC, Answered
<1>4. CASE BlockExcluded(k)
  BY <1>4, RollbackType DEF BlockExcluded, Answered
<1>5. QED
  BY <1>1, <1>2, <1>3, <1>4 DEF Block

\* each step of a request whatever it asks for, and its abort,
LEMMA RequestType ==
  ASSUME TypeOK, NEW r \in Requests, Step(r) \/ Abort(r)
  PROVE  TypeOK'
<1>1. CASE LockUnit(r)
  BY <1>1 DEF LockUnit, TypeOK, rows, PC, InTransaction
<1>2. CASE LockMissingUnit(r)
  BY <1>2, RollbackType DEF LockMissingUnit, Answered
<1>3. CASE r \in Bookings /\ Book(r)
  BY <1>3, BookType
<1>4. CASE r \in BlockRequests /\ Block(r)
  BY <1>4, BlockType
<1>5. CASE Abort(r)
  BY <1>5, RollbackType DEF Abort, Answered
<1>6. QED
  BY <1>1, <1>2, <1>3, <1>4, <1>5 DEF Step

\* and each statement that takes no lock on the unit.
LEMMA UnlockedType ==
  ASSUME TypeOK,
         \/ \E k \in BlockRequests : DeleteBlock(k)
         \/ \E b \in Bookings : CancelBooking(b) \/ HoldLapses(b) \/ PaymentMove(b)
         \/ ExpireHolds \/ PatchUnit \/ DeleteUnit
  PROVE  TypeOK'
<1> USE DEF TypeOK, session, Reachable, Hold
<1>1. CASE \E k \in BlockRequests : DeleteBlock(k)
  BY <1>1 DEF DeleteBlock
<1>2. ASSUME NEW b \in Bookings, CancelBooking(b)
      PROVE  TypeOK'
  BY <1>2 DEF CancelBooking
<1>3. ASSUME NEW b \in Bookings, HoldLapses(b)
      PROVE  TypeOK'
  BY <1>3 DEF HoldLapses
<1>4. ASSUME NEW b \in Bookings, PaymentMove(b)
      PROVE  TypeOK'
  BY <1>4 DEF PaymentMove, Payable, AfterUpload
<1>5. CASE ExpireHolds
  BY <1>5 DEF ExpireHolds
<1>6. CASE PatchUnit
  BY <1>6 DEF PatchUnit, UnitStatus
<1>7. CASE DeleteUnit
  BY <1>7 DEF DeleteUnit, UnitStatus
<1>8. QED
  BY <1>1, <1>2, <1>3, <1>4, <1>5, <1>6, <1>7

\* Types are inductive by themselves.
LEMMA NextType == TypeOK /\ [Next]_vars => TypeOK'
<1> SUFFICES ASSUME TypeOK, [Next]_vars
             PROVE  TypeOK'
  OBVIOUS
<1>1. CASE \E r \in Requests : Step(r) \/ Abort(r)
  BY <1>1, RequestType
<1>2. CASE UNCHANGED vars
  BY <1>2 DEF vars, TypeOK
<1>3. QED
  BY <1>1, <1>2, UnlockedType DEF Next

\* Every variable keeps its type.
THEOREM TypeCorrect == Spec => []TypeOK
<1>1. Init => TypeOK
  BY DEF Init, TypeOK, Reachable, Hold, PC, UnitStatus, Requests
<1>2. QED
  BY <1>1, NextType, PTL DEF Spec

-----------------------------------------------------------------------------
(* The inductive invariant.                                                *)

\* Turnover days only ever make a stay clash with more dates.
LEMMA TurnoverOnlyAdds ==
  ASSUME NEW s \in [from : Int, to : Int], NEW t \in [from : Int, to : Int],
         NEW buffer \in Nat, Overlaps(s, t)
  PROVE  Overlaps(WithTurnover(s, buffer), t)
BY DEF Overlaps, WithTurnover

\* What CountOverlappingStays = 0 rules out: any row that holds a night of
\* the request, booking or block.
LEMMA FreeStayMeetsNothing ==
  ASSUME TypeOK, NEW b \in Bookings,
         OverlappingStays(span[b], seenBuffer[b]) = {},
         NEW q \in Requests, Holds(q)
  PROVE  ~Overlaps(span[q], span[b]) /\ ~Overlaps(span[b], span[q])
<1> b \in Requests
  BY DEF Requests
<1>1. CASE q \in Bookings
  <2>1. seenBuffer[b] \in Nat
    BY CalendarAssumption DEF TypeOK
  <2>2. ~Overlaps(WithTurnover(span[q], seenBuffer[b]), span[b])
    BY <1>1 DEF OverlappingStays, Holds
  <2>3. ~Overlaps(span[q], span[b])
    BY <2>1, <2>2, SpanIsARange, TurnoverOnlyAdds
  <2>4. QED
    BY <2>3 DEF Overlaps
<1>2. CASE q \notin Bookings
  BY <1>2 DEF OverlappingStays, BlocksInRange, Holds, Overlaps
<1>3. QED
  BY <1>1, <1>2

\* A step that only ever gives nights back, and moves no request, keeps the
\* invariant: what was counted as free stays free.
LEMMA GivingNightsBack ==
  ASSUME IInv, TypeOK', UNCHANGED session,
         \A q \in Requests : Holds(q)' => Holds(q),
         \A b \in Bookings : status[b] = "absent" => status'[b] = "absent"
  PROVE  IInv'
<1> USE DEF IInv, session
<1>1. LockHeld'
  BY DEF LockHeld
<1>2. NothingInsertedYet'
  BY DEF NothingInsertedYet, Holds, Requests
<1>3. \A b \in Bookings : status'[b] \in Occupying => status[b] \in Occupying
  BY DEF Holds, Requests
<1>4. \A k \in blocks' : k \in blocks
  <2>1. \A k \in BlockRequests : k \notin Bookings
    BY RequestsAreDistinct
  <2>2. QED
    BY <2>1 DEF Holds, Requests, TypeOK
<1>5. CountStillTrue'
  <2>1. ASSUME NEW b \in Bookings, pc'[b] = "clear"
        PROVE  OverlappingStays(span[b], seenBuffer[b])' = {}
    <3>1. OverlappingStays(span[b], seenBuffer[b]) = {}
      BY <2>1 DEF CountStillTrue
    <3>2. QED
      BY <3>1, <1>3, <1>4 DEF OverlappingStays, BlocksInRange
  <2>2. ASSUME NEW k \in BlockRequests, pc'[k] = "clear"
        PROVE  BookingsInRange(span[k])' = {}
    <3>1. BookingsInRange(span[k]) = {}
      BY <2>2 DEF CountStillTrue
    <3>2. QED
      BY <3>1, <1>3 DEF BookingsInRange
  <2>3. QED
    BY <2>1, <2>2 DEF CountStillTrue
<1>6. NightsHeldOnce'
  BY DEF NightsHeldOnce
<1>7. ConstraintNeverNeeded'
  BY DEF ConstraintNeverNeeded
<1>8. QED
  BY <1>1, <1>2, <1>5, <1>6, <1>7

\* The statements that take no lock on the unit keep the invariant: they only
\* give nights back, or wait until no request holds the lock (PatchUnit,
\* DeleteUnit).
LEMMA UnlockedInv ==
  ASSUME IInv,
         \/ \E k \in BlockRequests : DeleteBlock(k)
         \/ \E b \in Bookings : CancelBooking(b) \/ HoldLapses(b) \/ PaymentMove(b)
         \/ ExpireHolds \/ PatchUnit \/ DeleteUnit
  PROVE  IInv'
<1>1. TypeOK'
  BY UnlockedType DEF IInv
<1> USE DEF IInv, TypeOK, session, Holds, Requests
<1>2. ASSUME NEW k \in BlockRequests, DeleteBlock(k)
      PROVE  IInv'
  BY <1>1, <1>2, GivingNightsBack DEF DeleteBlock
<1>3. ASSUME NEW b \in Bookings, CancelBooking(b)
      PROVE  IInv'
  <2>1. \A x \in Bookings : status'[x] \in Occupying => status[x] \in Occupying
    BY <1>3 DEF CancelBooking, Occupying
  <2>2. \A x \in Bookings : status[x] = "absent" => status'[x] = "absent"
    BY <1>3 DEF CancelBooking, Open
  <2>3. UNCHANGED session /\ blocks' = blocks
    BY <1>3 DEF CancelBooking
  <2>4. QED
    BY <1>1, <2>1, <2>2, <2>3, GivingNightsBack
<1>4. ASSUME NEW b \in Bookings, HoldLapses(b)
      PROVE  IInv'
  BY <1>1, <1>4, GivingNightsBack DEF HoldLapses
<1>5. ASSUME NEW b \in Bookings, PaymentMove(b)
      PROVE  IInv'
  <2>1. \A x \in Bookings : status'[x] \in Occupying => status[x] \in Occupying
    BY <1>5 DEF PaymentMove, Occupying, Payable, Open, AfterUpload
  <2>2. \A x \in Bookings : status[x] = "absent" => status'[x] = "absent"
    BY <1>5 DEF PaymentMove, Payable, Open
  <2>3. UNCHANGED session /\ blocks' = blocks
    BY <1>5 DEF PaymentMove
  <2>4. QED
    BY <1>1, <2>1, <2>2, <2>3, GivingNightsBack
<1>6. CASE ExpireHolds
  <2>1. \A x \in Bookings : status'[x] \in Occupying => status[x] \in Occupying
    BY <1>6 DEF ExpireHolds, Occupying
  <2>2. \A x \in Bookings : status[x] = "absent" => status'[x] = "absent"
    BY <1>6 DEF ExpireHolds, Lapsed
  <2>3. UNCHANGED session /\ blocks' = blocks
    BY <1>6 DEF ExpireHolds
  <2>4. QED
    BY <1>1, <2>1, <2>2, <2>3, GivingNightsBack
<1>7. CASE PatchUnit
  BY <1>1, <1>7, GivingNightsBack DEF PatchUnit
<1>8. CASE DeleteUnit
  BY <1>1, <1>8, GivingNightsBack DEF DeleteUnit
<1>9. QED
  BY <1>2, <1>3, <1>4, <1>5, <1>6, <1>7, <1>8

\* A request that rolls back answers, lets go of the lock it may hold, and
\* leaves every row as it was.
LEMMA RollbackInv ==
  ASSUME IInv, NEW r \in Requests, NEW a \in Answered, Rollback(r, a),
         a = "excluded" => r \in BlockRequests
  PROVE  IInv'
<1>1. TypeOK'
  BY RollbackType DEF IInv
<1> USE DEF IInv, Rollback, Finish, rows
<1>2. LockHeld'
  BY RequestsAreDistinct DEF LockHeld, TypeOK, InTransaction, Answered
<1>3. NothingInsertedYet'
  BY DEF NothingInsertedYet, TypeOK
<1>4. CountStillTrue'
  BY DEF CountStillTrue, OverlappingStays, BookingsInRange, BlocksInRange, TypeOK,
         Requests, Answered
<1>5. NightsHeldOnce'
  BY DEF NightsHeldOnce, Holds
<1>6. ConstraintNeverNeeded'
  BY RequestsAreDistinct DEF ConstraintNeverNeeded, TypeOK, Requests
<1>7. QED
  BY <1>1, <1>2, <1>3, <1>4, <1>5, <1>6

\* The same for a step that moves one request on without touching a row.
LEMMA MoveInv ==
  ASSUME IInv, TypeOK', NEW r \in Requests, NEW s \in PC \ Answered,
         pc' = [pc EXCEPT ![r] = s], UNCHANGED << rows, span >>,
         pc[r] \notin Answered,
         \A b \in Bookings \ {r} : seenBuffer'[b] = seenBuffer[b],
         LockHeld',
         s = "clear" => IF r \in Bookings
                        THEN OverlappingStays(span[r], seenBuffer[r])' = {}
                        ELSE BookingsInRange(span[r]) = {}
  PROVE  IInv'
<1> USE DEF IInv, rows
<1>1. NothingInsertedYet'
  BY DEF NothingInsertedYet, TypeOK
<1>2. CountStillTrue'
  <2>1. ASSUME NEW b \in Bookings, pc'[b] = "clear"
        PROVE  OverlappingStays(span[b], seenBuffer[b])' = {}
    <3>1. CASE b = r
      BY <2>1, <3>1 DEF TypeOK
    <3>2. CASE b # r
      BY <2>1, <3>2 DEF TypeOK, Requests, CountStillTrue, OverlappingStays, BlocksInRange
    <3>3. QED
      BY <3>1, <3>2
  <2>2. ASSUME NEW k \in BlockRequests, pc'[k] = "clear"
        PROVE  BookingsInRange(span[k])' = {}
    <3>1. k \notin Bookings
      BY RequestsAreDistinct
    <3>2. QED
      BY <2>2, <3>1 DEF TypeOK, Requests, CountStillTrue, BookingsInRange
  <2>3. QED
    BY <2>1, <2>2 DEF CountStillTrue
<1>3. NightsHeldOnce'
  BY DEF NightsHeldOnce, Holds
<1>4. ConstraintNeverNeeded'
  BY DEF ConstraintNeverNeeded, TypeOK, Requests, Answered
<1>5. QED
  BY <1>1, <1>2, <1>3, <1>4

\* The step everything is for: a booking that counted no clash is committed.
LEMMA InsertBookingInv ==
  ASSUME IInv, NEW b \in Bookings, InsertBooking(b)
  PROVE  IInv'
<1> b \in Requests
  BY DEF Requests
<1>1. OverlappingStays(span[b], seenBuffer[b]) = {}
  BY DEF IInv, CountStillTrue, InsertBooking
<1>2. \A q \in Requests : Holds(q) => ~Overlaps(span[q], span[b]) /\ ~Overlaps(span[b], span[q])
  BY <1>1, FreeStayMeetsNothing DEF IInv
<1>3. BookingsInRange(span[b]) = {}
  BY <1>2 DEF BookingsInRange, Holds, Requests
<1>4. TypeOK'
  BY BookType DEF Book, IInv
<1>5. PICK answer \in {"done", "failed"} : Finish(b, answer)
  BY <1>3 DEF InsertBooking
<1>6. /\ pc[b] = "clear"
      /\ \A x \in Bookings \ {b} : status'[x] = status[x]
      /\ UNCHANGED << blocks, unit, span, seenBuffer >>
  BY <1>3 DEF InsertBooking, IInv, TypeOK
<1>7. /\ unitLock = b
      /\ \A r \in Requests \ {b} : pc'[r] = pc[r] /\ pc[r] \notin InTransaction
      /\ pc'[b] = answer
      /\ unitLock' = NoRequest
  BY <1>5, <1>6 DEF Finish, IInv, LockHeld, TypeOK, InTransaction
<1>8. LockHeld'
  BY <1>7, RequestsAreDistinct DEF LockHeld, InTransaction
<1>9. NothingInsertedYet'
  BY <1>6, <1>7 DEF IInv, NothingInsertedYet, Answered, Requests
<1>10. CountStillTrue'
  BY <1>7 DEF CountStillTrue, InTransaction, Requests
<1>11. NightsHeldOnce'
  <2>1. \A q \in Requests \ {b} : Holds(q)' => Holds(q)
    BY <1>6 DEF Holds, Requests
  <2>2. QED
    BY <1>2, <1>6, <2>1 DEF IInv, NightsHeldOnce
<1>12. ConstraintNeverNeeded'
  BY <1>7 DEF IInv, ConstraintNeverNeeded, Requests
<1>13. QED
  BY <1>4, <1>8, <1>9, <1>10, <1>11, <1>12 DEF IInv

\* The same for a block that counted no booking and met no other block.
LEMMA InsertBlockInv ==
  ASSUME IInv, NEW k \in BlockRequests, InsertBlock(k)
  PROVE  IInv'
<1> k \in Requests /\ k \notin Bookings
  BY RequestsAreDistinct DEF Requests
<1>1. BookingsInRange(span[k]) = {} /\ BlocksInRange(span[k]) = {}
  BY DEF IInv, CountStillTrue, InsertBlock
<1>2. \A q \in Requests : Holds(q) => ~Overlaps(span[q], span[k]) /\ ~Overlaps(span[k], span[q])
  BY <1>1 DEF BookingsInRange, BlocksInRange, Holds, Requests, Overlaps
<1>3. TypeOK'
  BY BlockType DEF Block, IInv
<1>4. PICK answer \in {"done", "failed"} : Finish(k, answer)
  BY DEF InsertBlock
<1>5. /\ pc[k] = "clear"
      /\ blocks' = blocks \cup {k}
      /\ UNCHANGED << status, unit, span, seenBuffer >>
  BY DEF InsertBlock
<1>6. /\ unitLock = k
      /\ \A r \in Requests \ {k} : pc'[r] = pc[r] /\ pc[r] \notin InTransaction
      /\ pc'[k] = answer
      /\ unitLock' = NoRequest
  BY <1>4, <1>5 DEF Finish, IInv, LockHeld, TypeOK, InTransaction
<1>7. LockHeld'
  BY <1>6, RequestsAreDistinct DEF LockHeld, InTransaction
<1>8. NothingInsertedYet'
  BY <1>5, <1>6 DEF IInv, NothingInsertedYet, Answered, Requests
<1>9. CountStillTrue'
  BY <1>6 DEF CountStillTrue, InTransaction, Requests
<1>10. NightsHeldOnce'
  <2>1. \A q \in Requests \ {k} : Holds(q)' => Holds(q)
    BY <1>5 DEF Holds, Requests
  <2>2. QED
    BY <1>2, <1>5, <2>1 DEF IInv, NightsHeldOnce
<1>11. ConstraintNeverNeeded'
  BY <1>6 DEF IInv, ConstraintNeverNeeded, Requests
<1>12. QED
  BY <1>3, <1>7, <1>8, <1>9, <1>10, <1>11 DEF IInv

\* Every step of a request, and its abort, keeps the invariant.
LEMMA RequestInv ==
  ASSUME IInv, NEW r \in Requests, Step(r) \/ Abort(r)
  PROVE  IInv'
<1>1. TypeOK'
  BY RequestType DEF IInv
<1>2. CASE LockUnit(r)
  <2>1. LockHeld'
    BY <1>2, RequestsAreDistinct DEF LockUnit, IInv, LockHeld, TypeOK, InTransaction
  <2>2. QED
    BY <1>1, <1>2, <2>1, MoveInv DEF LockUnit, PC, InTransaction, Answered
<1>3. CASE LockMissingUnit(r)
  BY <1>3, RollbackInv DEF LockMissingUnit, Answered
<1>4. CASE r \in Bookings /\ Book(r)
  <2>1. CASE ReadUnit(r)
    <3>1. LockHeld'
      BY <2>1 DEF ReadUnit, IInv, LockHeld, TypeOK, InTransaction
    <3>2. QED
      BY <1>1, <2>1, <3>1, MoveInv DEF ReadUnit, PC, InTransaction, Answered, IInv, TypeOK
  <2>2. CASE UnitNotBookable(r)
    BY <2>2, RollbackInv DEF UnitNotBookable, Answered
  <2>3. CASE RefuseStay(r)
    BY <2>3, RollbackInv DEF RefuseStay, Answered
  <2>4. CASE StayIsFree(r)
    <3>1. LockHeld'
      BY <2>4 DEF StayIsFree, IInv, LockHeld, TypeOK, InTransaction
    <3>2. OverlappingStays(span[r], seenBuffer[r])' = {}
      BY <2>4 DEF StayIsFree, rows, OverlappingStays, BlocksInRange
    <3>3. QED
      BY <1>1, <1>4, <2>4, <3>1, <3>2, MoveInv DEF StayIsFree, PC, InTransaction, Answered
  <2>5. CASE InsertBooking(r)
    BY <1>4, <2>5, InsertBookingInv
  <2>6. QED
    BY <1>4, <2>1, <2>2, <2>3, <2>4, <2>5 DEF Book
<1>5. CASE r \in BlockRequests /\ Block(r)
  <2> r \notin Bookings
    BY <1>5, RequestsAreDistinct
  <2>1. CASE RefuseBlock(r)
    BY <2>1, RollbackInv DEF RefuseBlock, Answered
  <2>2. CASE BlockIsFree(r)
    <3>1. LockHeld'
      BY <2>2 DEF BlockIsFree, IInv, LockHeld, TypeOK, InTransaction
    <3>2. QED
      BY <1>1, <2>2, <3>1, MoveInv DEF BlockIsFree, PC, InTransaction, Answered
  <2>3. CASE InsertBlock(r)
    BY <1>5, <2>3, InsertBlockInv
  <2>4. CASE BlockExcluded(r)
    BY <1>5, <2>4, RollbackInv DEF BlockExcluded, Answered
  <2>5. QED
    BY <1>5, <2>1, <2>2, <2>3, <2>4 DEF Block
<1>6. CASE Abort(r)
  BY <1>6, RollbackInv DEF Abort, Answered
<1>7. QED
  BY <1>2, <1>3, <1>4, <1>5, <1>6 DEF Step

\* The invariant holds at first: no row, no lock, no request under way.
LEMMA InitInv == Init => IInv
<1> SUFFICES ASSUME Init
             PROVE  IInv
  OBVIOUS
<1>1. TypeOK
  BY DEF Init, TypeOK, Reachable, Hold, PC, UnitStatus, Requests
<1>2. LockHeld /\ NothingInsertedYet /\ CountStillTrue
  BY RequestsAreDistinct
     DEF Init, LockHeld, NothingInsertedYet, CountStillTrue, InTransaction, Answered, Requests
<1>3. NightsHeldOnce /\ ConstraintNeverNeeded
  BY DEF Init, NightsHeldOnce, Holds, Occupying, ConstraintNeverNeeded, Requests
<1>4. QED
  BY <1>1, <1>2, <1>3 DEF IInv

\* The invariant is inductive.
LEMMA NextInv == IInv /\ [Next]_vars => IInv'
<1> SUFFICES ASSUME IInv, [Next]_vars
             PROVE  IInv'
  OBVIOUS
<1>1. CASE \E r \in Requests : Step(r) \/ Abort(r)
  BY <1>1, RequestInv
<1>2. CASE UNCHANGED vars
  BY <1>2 DEF vars, IInv, TypeOK, LockHeld, NothingInsertedYet, CountStillTrue,
              NightsHeldOnce, ConstraintNeverNeeded, Holds,
              OverlappingStays, BookingsInRange, BlocksInRange
<1>3. QED
  BY <1>1, <1>2, UnlockedInv DEF Next

\* So it holds always; the safety theorems below read their claim off it.
THEOREM InvariantHolds == Spec => []IInv
BY InitInv, NextInv, PTL DEF Spec

-----------------------------------------------------------------------------
(* What follows from it.                                                   *)

\* No night is held twice: neither two bookings, nor two blocks, nor a booking
\* and a block, which only LockUnit keeps apart, ever share one.
THEOREM NightsAreHeldOnce == Spec => []NightsHeldOnce
BY InvariantHolds, PTL DEF IInv

\* The exclusion constraint on bookings never has to refuse a booking: every
\* booking is counted under the unit's lock before it is inserted.
THEOREM ConstraintIsNeverNeeded == Spec => []ConstraintNeverNeeded
BY InvariantHolds, PTL DEF IInv

\* A new booking starts after the turnover days of every earlier stay, counted
\* with the buffer its handler read before it took the lock.
THEOREM TurnoverIsKept == Spec => TurnoverKeptAfterEarlierStays
<1> DEFINE Kept == \A b, x \in Bookings :
                     /\ status[b] = "absent" /\ status'[b] # "absent"
                     /\ status[x] \in Occupying /\ span[x].from < span[b].to
                     => span[b].from >= span[x].to + seenBuffer[b]
<1>1. IInv /\ [Next]_vars => [Kept]_vars
  <2> SUFFICES ASSUME IInv, Next,
                      NEW b \in Bookings, NEW x \in Bookings,
                      status[b] = "absent", status'[b] # "absent",
                      status[x] \in Occupying, span[x].from < span[b].to
               PROVE  span[b].from >= span[x].to + seenBuffer[b]
    OBVIOUS
  <2> USE DEF IInv
  <2>1. InsertBooking(b)
    <3>1. CASE \E r \in Requests : Step(r) \/ Abort(r)
      BY <3>1 DEF Step, Book, Block, Abort, Rollback, rows, LockUnit, LockMissingUnit, ReadUnit,
                  UnitNotBookable, RefuseStay, StayIsFree, InsertBooking, RefuseBlock,
                  BlockIsFree, InsertBlock, BlockExcluded, TypeOK
    <3>2. ~ \E k \in BlockRequests : DeleteBlock(k)
      BY DEF DeleteBlock
    <3>3. ~ \E y \in Bookings : CancelBooking(y) \/ HoldLapses(y) \/ PaymentMove(y)
      BY DEF CancelBooking, HoldLapses, PaymentMove, Open, Payable, TypeOK
    <3>4. ~ (ExpireHolds \/ PatchUnit \/ DeleteUnit)
      BY DEF ExpireHolds, Lapsed, PatchUnit, DeleteUnit
    <3>5. QED
      BY <3>1, <3>2, <3>3, <3>4 DEF Next
  <2>2. OverlappingStays(span[b], seenBuffer[b]) = {}
    BY <2>1 DEF InsertBooking, CountStillTrue
  <2>3. ~Overlaps(WithTurnover(span[x], seenBuffer[b]), span[b])
    BY <2>2 DEF OverlappingStays
  <2>4. /\ span[b].from \in Int /\ span[b].to \in Int
        /\ span[x].from \in Int /\ span[x].to \in Int
    BY SpanIsARange DEF Requests
  <2>5. seenBuffer[b] \in Nat
    BY CalendarAssumption DEF TypeOK
  <2>6. QED
    BY <2>3, <2>4, <2>5 DEF Overlaps, WithTurnover
<1>2. QED
  BY <1>1, InvariantHolds, PTL DEF Spec, TurnoverKeptAfterEarlierStays

\* The transaction that holds the unit's lock has the unit to itself.
THEOREM TheLockProtects == Spec => LockProtectsTheUnit
<1> DEFINE Protected == \A r \in Requests : pc[r] \in InTransaction =>
                          /\ unit' = unit
                          /\ \A q \in Requests \ {r} : Holds(q)' => Holds(q)
<1>1. IInv /\ [Next]_vars => [Protected]_vars
  <2> SUFFICES ASSUME IInv, Next,
                      NEW r \in Requests, pc[r] \in InTransaction
               PROVE  /\ unit' = unit
                      /\ \A q \in Requests \ {r} : Holds(q)' => Holds(q)
    OBVIOUS
  <2> USE DEF IInv
  <2>1. unitLock = r /\ unitLock # NoRequest
    BY RequestsAreDistinct DEF LockHeld
  <2>2. ASSUME NEW s \in Requests, Step(s) \/ Abort(s)
        PROVE  /\ unit' = unit
               /\ \A q \in Requests \ {s} : Holds(q)' => Holds(q)
               /\ s # r => \A q \in Requests : Holds(q)' => Holds(q)
    <3>1. s # r => pc[s] \notin InTransaction
      BY <2>1 DEF LockHeld
    <3>2. CASE UNCHANGED rows
      BY <3>2 DEF rows, Holds
    <3>3. CASE s \in Bookings /\ InsertBooking(s) /\ BookingsInRange(span[s]) = {}
      BY <3>1, <3>3 DEF InsertBooking, InTransaction, Holds, Requests, TypeOK
    <3>4. CASE s \in BlockRequests /\ InsertBlock(s)
      BY <3>1, <3>4 DEF InsertBlock, InTransaction, Holds, Requests
    <3>5. QED
      BY <2>2, <3>2, <3>3, <3>4
         DEF Step, Book, Block, Abort, Rollback, LockUnit, LockMissingUnit, ReadUnit,
             UnitNotBookable, RefuseStay, StayIsFree, InsertBooking, RefuseBlock,
             BlockIsFree, BlockExcluded
  <2>3. CASE \E s \in Requests : Step(s) \/ Abort(s)
    BY <2>2, <2>3
  <2>4. CASE \E k \in BlockRequests : DeleteBlock(k)
    BY <2>4 DEF DeleteBlock, Holds
  <2>5. ASSUME NEW b \in Bookings, CancelBooking(b) \/ HoldLapses(b) \/ PaymentMove(b)
        PROVE  unit' = unit /\ \A q \in Requests : Holds(q)' => Holds(q)
    BY <2>5 DEF CancelBooking, HoldLapses, PaymentMove, Holds, Occupying, Payable, Open,
                AfterUpload, TypeOK
  <2>6. CASE ExpireHolds
    BY <2>6 DEF ExpireHolds, Holds, Occupying
  <2>7. ~PatchUnit /\ ~DeleteUnit
    BY <2>1 DEF PatchUnit, DeleteUnit
  <2>8. QED
    BY <2>3, <2>4, <2>5, <2>6, <2>7 DEF Next
<1>2. QED
  BY <1>1, InvariantHolds, PTL DEF Spec, LockProtectsTheUnit

-----------------------------------------------------------------------------
(* Refinement: the unit's calendar.                                        *)

\* Ranges that do not overlap have no night in common.
LEMMA DisjointRangesDisjointNights ==
  ASSUME NEW s \in [from : Int, to : Int], NEW t \in [from : Int, to : Int],
         ~Overlaps(s, t), s.from < s.to, t.from < t.to
  PROVE  NightsOf(s) \cap NightsOf(t) = {}
BY DEF Overlaps, NightsOf

\* A step that gives nights back, or none, is a Release of the calendar.
LEMMA GivingBackReleases ==
  ASSUME UNCHANGED span, \A q \in Requests : Holds(q)' => Holds(q)
  PROVE  Calendar!Next
<1> DEFINE gone == { q \in Requests : Holds(q) /\ ~Holds(q)' }
<1>1. Calendar!Release(gone)
  BY DEF Calendar!Release
<1>2. gone \in SUBSET Requests
  OBVIOUS
<1>3. QED
  BY <1>1, <1>2 DEF Calendar!Next

\* Committing the row of r, with everything else as it was, is a Take.
LEMMA CommittingTakes ==
  ASSUME IInv, IInv', NEW r \in Requests, ~Holds(r), Holds(r)',
         UNCHANGED span, \A q \in Requests \ {r} : Holds(q)' <=> Holds(q)
  PROVE  Calendar!Next
<1> DEFINE ns == NightsOf(span[r])
<1> USE DEF IInv
<1>1. span[r] \in Ranges /\ span[r] \in [from : Int, to : Int] /\ span[r].from < span[r].to
  BY SpanIsARange DEF TypeOK
<1>2. ns \in SUBSET UNION { NightsOf(s) : s \in Ranges }
  BY <1>1
<1>3. ns # {}
  BY <1>1 DEF NightsOf
<1>4. ASSUME NEW m \in ns, NEW n \in ns,
             NEW x \in UNION { NightsOf(s) : s \in Ranges }, m < x, x < n
      PROVE  x \in ns
  <2>1. x \in Int
    BY CalendarAssumption DEF NightsOf, Ranges, RangesOf
  <2>2. QED
    BY <1>1, <1>4, <2>1 DEF NightsOf
<1>5. ASSUME NEW d \in Requests, Holds(d)
      PROVE  NightsOf(span[d]) \cap ns = {}
  <2>1. ~Overlaps(span[d], span[r])
    BY <1>5 DEF NightsHeldOnce
  <2>2. QED
    BY <1>1, <2>1, SpanIsARange, DisjointRangesDisjointNights
<1>6. Calendar!Take(r, ns)
  BY <1>3, <1>4, <1>5 DEF Calendar!Take
<1>7. QED
  BY <1>2, <1>6 DEF Calendar!Next

\* Bookings and blocks together behave as claims on a calendar: each takes its
\* nights whole, from nobody, and gives them back whole.
THEOREM ReservationsImplementCalendar == Spec => ImplementsCalendar
<1>1. Init => Calendar!Init
  BY DEF Init, Calendar!Init, Holds, Occupying, Requests
<1>2. IInv /\ IInv' /\ [Next]_vars
        => [Calendar!Next]_([r \in Requests |-> IF Holds(r) THEN NightsOf(span[r]) ELSE {}])
  <2> SUFFICES ASSUME IInv, IInv', [Next]_vars
               PROVE  Calendar!Next
                      \/ UNCHANGED [r \in Requests |-> IF Holds(r) THEN NightsOf(span[r]) ELSE {}]
    OBVIOUS
  <2>1. UNCHANGED span
    BY DEF Next, vars, Step, Book, Block, Abort, Rollback, LockUnit, LockMissingUnit, ReadUnit,
           UnitNotBookable, RefuseStay, StayIsFree, InsertBooking, RefuseBlock, BlockIsFree,
           InsertBlock, BlockExcluded, DeleteBlock, CancelBooking, HoldLapses, PaymentMove,
           ExpireHolds, PatchUnit, DeleteUnit, session
  <2>2. ASSUME NEW s \in Requests, Step(s) \/ Abort(s)
        PROVE  \/ \A q \in Requests : Holds(q)' => Holds(q)
               \/ /\ ~Holds(s) /\ Holds(s)'
                  /\ \A q \in Requests \ {s} : Holds(q)' <=> Holds(q)
    <3>1. CASE UNCHANGED rows
      BY <3>1 DEF rows, Holds
    <3>2. CASE s \in Bookings /\ InsertBooking(s) /\ BookingsInRange(span[s]) = {}
      <4>1. status[s] = "absent"
        BY <3>2 DEF InsertBooking, IInv, NothingInsertedYet, Answered
      <4>2. status' = [status EXCEPT ![s] = IF s \in WebBookings THEN "pending_payment"
                                                                  ELSE "confirmed"]
            /\ blocks' = blocks
        BY <3>2 DEF InsertBooking
      <4>3. QED
        BY <3>2, <4>1, <4>2 DEF Holds, Occupying, IInv, TypeOK
    <3>3. CASE s \in BlockRequests /\ InsertBlock(s)
      BY <3>3, RequestsAreDistinct
         DEF InsertBlock, Holds, IInv, NothingInsertedYet, Answered
    <3>4. QED
      BY <2>2, <3>1, <3>2, <3>3
         DEF Step, Book, Block, Abort, Rollback, LockUnit, LockMissingUnit, ReadUnit,
             UnitNotBookable, RefuseStay, StayIsFree, InsertBooking, RefuseBlock,
             BlockIsFree, BlockExcluded
  <2>3. CASE \E s \in Requests : Step(s) \/ Abort(s)
    BY <2>1, <2>2, <2>3, GivingBackReleases, CommittingTakes
  <2>4. CASE \E k \in BlockRequests : DeleteBlock(k)
    BY <2>1, <2>4, GivingBackReleases DEF DeleteBlock, Holds
  <2>5. ASSUME NEW b \in Bookings, CancelBooking(b) \/ HoldLapses(b) \/ PaymentMove(b)
        PROVE  \A q \in Requests : Holds(q)' => Holds(q)
    BY <2>5 DEF CancelBooking, HoldLapses, PaymentMove, Holds, Occupying, Payable, Open,
                AfterUpload, IInv, TypeOK
  <2>6. CASE ExpireHolds \/ PatchUnit \/ DeleteUnit
    <3>1. \A q \in Requests : Holds(q)' => Holds(q)
      BY <2>6 DEF ExpireHolds, PatchUnit, DeleteUnit, Holds, Occupying
    <3>2. QED
      BY <2>1, <3>1, GivingBackReleases
  <2>7. CASE UNCHANGED vars
    BY <2>7 DEF vars, Holds
  <2>8. QED
    BY <2>1, <2>3, <2>4, <2>5, <2>6, <2>7, GivingBackReleases DEF Next
<1>3. QED
  BY <1>1, <1>2, InvariantHolds, PTL DEF Spec, ImplementsCalendar, Calendar!Spec
=============================================================================
