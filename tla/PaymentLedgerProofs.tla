------------------------ MODULE PaymentLedgerProofs -------------------------
(***************************************************************************)
(* Proofs about PaymentLedger, for any number of bookings and payments and *)
(* any amounts.                                                            *)
(***************************************************************************)
EXTENDS PaymentLedger, FiniteSetTheorems, TLAPS

-----------------------------------------------------------------------------
(* What the rules do to one row.                                           *)

\* SetBookingPayment keeps the type of a row, and all of it but the hold and,
\* of a cancelled one, the reason.
LEMMA RowAsSet ==
  ASSUME NEW next \in BookingRow, NEW hold \in Hold, NEW reason \in Reason
  PROVE  /\ SetBookingPayment(next, hold, reason) \in BookingRow
         /\ SetBookingPayment(next, hold, reason).hold = hold
         /\ SetBookingPayment(next, hold, reason).status = next.status
         /\ SetBookingPayment(next, hold, reason).paid = next.paid
         /\ SetBookingPayment(next, hold, reason).deposit = next.deposit
         /\ SetBookingPayment(next, hold, reason).rejections = next.rejections
BY DEF SetBookingPayment, BookingRow

\* A receipt for a payable booking makes it wait, its hold stopped.
LEMMA ReceiptRow ==
  ASSUME NEW row \in BookingRow, row.status \in Payable
  PROVE  /\ WithReceipt(row) \in BookingRow
         /\ WithReceipt(row).status = "awaiting_verification"
         /\ WithReceipt(row).hold = "none"
         /\ WithReceipt(row).paid = row.paid
         /\ WithReceipt(row).deposit = row.deposit
         /\ WithReceipt(row).rejections = row.rejections
BY DEF WithReceipt, SetBookingPayment, AfterUpload, BookingRow, Payable, Reachable, Hold, Reason

\* A verified amount adds up and confirms a waiting booking that it covers;
\* any other status stays, and so does the hold of a booking not confirmed.
LEMMA SettledRow ==
  ASSUME NEW row \in BookingRow, NEW amount \in Amounts
  PROVE  /\ Settled(row, amount) \in BookingRow
         /\ Settled(row, amount).paid = row.paid + amount
         /\ Settled(row, amount).deposit = row.deposit
         /\ Settled(row, amount).rejections = row.rejections
         /\ Settled(row, amount).status =
              IF row.paid + amount >= row.deposit /\ row.status \in Payable
              THEN "confirmed" ELSE row.status
         /\ Settled(row, amount).status # "confirmed" => Settled(row, amount).hold = row.hold
<1>1. amount \in Nat /\ row.paid \in Nat /\ row.paid + amount \in Nat
  BY LedgerAssumption DEF BookingRow
<1> DEFINE covers == row.paid + amount >= row.deposit /\ row.status \in Payable
           status == IF covers THEN "confirmed" ELSE row.status
<1>2. AfterVerified(row, amount) = [row EXCEPT !.paid = row.paid + amount, !.status = status]
  BY DEF AfterVerified
<1>3. status \in Reachable
  BY DEF Reachable, BookingRow
<1> HIDE DEF covers, status
<1> DEFINE next == AfterVerified(row, amount)
<1>4. /\ next \in BookingRow
      /\ next.status = status /\ next.paid = row.paid + amount
      /\ next.deposit = row.deposit /\ next.rejections = row.rejections
  BY <1>1, <1>2, <1>3 DEF BookingRow
<1> HIDE DEF next
<1> DEFINE hold == IF next.status = "confirmed" THEN "none" ELSE row.hold
<1>5. hold \in Hold
  BY DEF Hold, BookingRow
<1>6. Settled(row, amount) = SetBookingPayment(next, hold, "none")
  BY DEF Settled, next
<1>7. "none" \in Reason
  BY DEF Reason
<1> HIDE DEF hold
<1>8. /\ Settled(row, amount) \in BookingRow
      /\ Settled(row, amount).hold = hold
      /\ Settled(row, amount).status = next.status
      /\ Settled(row, amount).paid = next.paid
      /\ Settled(row, amount).deposit = next.deposit
      /\ Settled(row, amount).rejections = next.rejections
  BY <1>4, <1>5, <1>6, <1>7, RowAsSet
<1>9. QED
  BY <1>4, <1>8 DEF hold, status, covers

\* A rejection is counted; it cancels the second time, sends the guest back
\* to pay with a fresh hold when no other receipt waits, and moves nothing
\* else.
LEMMA RejectedRow ==
  ASSUME NEW row \in BookingRow, NEW n \in Nat
  PROVE  /\ WithRejection(row, n) \in BookingRow
         /\ WithRejection(row, n).paid = row.paid
         /\ WithRejection(row, n).deposit = row.deposit
         /\ WithRejection(row, n).rejections = row.rejections + 1
         /\ \/ /\ row.rejections + 1 >= MaxPaymentRejections
               /\ WithRejection(row, n).status = "cancelled"
            \/ /\ row.rejections + 1 < MaxPaymentRejections
               /\ n = 0 /\ row.status = "awaiting_verification"
               /\ WithRejection(row, n).status = "pending_payment"
            \/ /\ row.rejections + 1 < MaxPaymentRejections
               /\ WithRejection(row, n).status = row.status
               /\ WithRejection(row, n).hold = row.hold
<1> DEFINE second == row.rejections + 1 >= MaxPaymentRejections
           status == IF second THEN "cancelled"
                     ELSE IF NewHold(row, n) THEN "pending_payment" ELSE row.status
<1>1. row.rejections \in Nat /\ row.rejections + 1 \in Nat
  BY DEF BookingRow
<1>2. status \in Reachable
  BY DEF Reachable, BookingRow
<1>3. status = CASE row.rejections + 1 >= MaxPaymentRejections -> "cancelled"
                 [] NewHold(row, n)                               -> "pending_payment"
                 [] OTHER                                         -> row.status
  BY <1>1 DEF NewHold, MaxPaymentRejections
<1> HIDE DEF status, second
<1>4. AfterRejected(row, n) = [row EXCEPT !.rejections = row.rejections + 1, !.status = status]
  BY <1>3 DEF AfterRejected
<1> DEFINE next == AfterRejected(row, n)
<1>5. /\ next \in BookingRow
      /\ next.status = status /\ next.paid = row.paid
      /\ next.deposit = row.deposit /\ next.rejections = row.rejections + 1
  BY <1>1, <1>2, <1>4 DEF BookingRow
<1> HIDE DEF next
<1> DEFINE hold == IF NewHold(row, n) THEN "running" ELSE row.hold
           reason == "rejected twice"
<1>6. hold \in Hold
  BY DEF Hold, BookingRow
<1>7. WithRejection(row, n) = SetBookingPayment(next, hold, reason)
  BY DEF WithRejection, next
<1>8. reason \in Reason
  BY DEF Reason
<1> HIDE DEF hold, reason
<1>9. /\ WithRejection(row, n) \in BookingRow
      /\ WithRejection(row, n).hold = hold
      /\ WithRejection(row, n).status = next.status
      /\ WithRejection(row, n).paid = next.paid
      /\ WithRejection(row, n).deposit = next.deposit
      /\ WithRejection(row, n).rejections = next.rejections
  BY <1>5, <1>6, <1>7, <1>8, RowAsSet
<1>10. CASE second
  BY <1>5, <1>9, <1>10 DEF status, second
<1>11. CASE ~second /\ NewHold(row, n)
  BY <1>1, <1>5, <1>9, <1>11 DEF status, second, NewHold, MaxPaymentRejections
<1>12. CASE ~second /\ ~NewHold(row, n)
  BY <1>1, <1>5, <1>9, <1>12 DEF status, second, hold, MaxPaymentRejections
<1>13. QED
  BY <1>10, <1>11, <1>12

-----------------------------------------------------------------------------
(* Sums over finite sets.                                                  *)

\* The element of s that a fold over it takes first.
Pick(s) == CHOOSE x \in s : TRUE

\* g is the table of the sums over the subsets of T.
IsSum(f, g, T) ==
  g = [s \in SUBSET T |-> IF s = {} THEN 0 ELSE f[Pick(s)].amount + g[s \ {Pick(s)}]]

\* The sum of the amounts of the rows of T.
SumOf(f, T) == MapThenSumSet(LAMBDA p : f[p].amount, T)

\* The fold looks a sum up in such a table.
LEMMA SumIsChosen ==
  ASSUME NEW f, NEW T
  PROVE  SumOf(f, T) = (CHOOSE g : IsSum(f, g, T))[T]
  BY DEF SumOf, MapThenSumSet, MapThenFoldSet, IsSum, Pick

\* Among some subsets of a finite set one has no other below it.  What fails of
\* a set fails of a smallest one: so an induction over sets is done here.
LEMMA Smallest ==
  ASSUME NEW S, IsFiniteSet(S), NEW X \in SUBSET (SUBSET S), X # {}
  PROVE  \E m \in X : \A y \in X : y \subseteq m => y = m
  <1>1. X \subseteq FiniteSubsetsOf(S) /\ IsWellFoundedOn(StrictSubsetOrdering(S), FiniteSubsetsOf(S))
    BY FS_FiniteSubsetsOfFinite, FS_StrictSubsetOrderingWellFounded
  <1>2. PICK m \in X : \A y \in X : ~ (<<y, m>> \in StrictSubsetOrdering(S))
    BY <1>1, WFMin
  <1> QED BY <1>2 DEF StrictSubsetOrdering
\* Two tables agree on the sets both have.
LEMMA SumsAgree ==
  ASSUME NEW f, NEW g, NEW h, NEW T, NEW U, IsFiniteSet(T), IsSum(f, g, T), IsSum(f, h, U),
         NEW s \in SUBSET (T \cap U)
  PROVE  g[s] = h[s]
  <1> SUFFICES ASSUME g[s] # h[s] PROVE FALSE
    OBVIOUS
  <1> DEFINE X == { t \in SUBSET (T \cap U) : g[t] # h[t] }
  <1>1. IsFiniteSet(T \cap U)
    BY FS_Subset
  <1>2. PICK m \in X : \A y \in X : y \subseteq m => y = m
    <2>1. X \in SUBSET (SUBSET (T \cap U)) /\ X # {}
      OBVIOUS
    <2> HIDE DEF X
    <2> QED BY <1>1, <2>1, Smallest
  <1>3. g[m] = IF m = {} THEN 0 ELSE f[Pick(m)].amount + g[m \ {Pick(m)}]
    BY <1>2 DEF IsSum
  <1>4. h[m] = IF m = {} THEN 0 ELSE f[Pick(m)].amount + h[m \ {Pick(m)}]
    BY <1>2 DEF IsSum
  <1>5. m # {}
    BY <1>2, <1>3, <1>4
  <1>6. Pick(m) \in m
    BY <1>5 DEF Pick
  <1>7. g[m \ {Pick(m)}] = h[m \ {Pick(m)}]
    BY <1>2, <1>6
  <1> QED BY <1>2, <1>3, <1>4, <1>7

\* There is a table of the sums over a finite set's subsets.
LEMMA SumExists ==
  ASSUME NEW f, NEW S, IsFiniteSet(S)
  PROVE  \E g : IsSum(f, g, S)
  <1> SUFFICES ASSUME ~ \E g : IsSum(f, g, S) PROVE FALSE
    OBVIOUS
  <1> DEFINE X == { t \in SUBSET S : ~ \E g : IsSum(f, g, t) }
  <1>1. PICK m \in X : \A y \in X : y \subseteq m => y = m
    <2>1. X \in SUBSET (SUBSET S) /\ X # {}
      OBVIOUS
    <2> HIDE DEF X
    <2> QED BY <2>1, Smallest
  <1> DEFINE Table(t) == CHOOSE g : IsSum(f, g, t)
             rest == m \ {Pick(m)}
             all == IF m = {} THEN 0 ELSE f[Pick(m)].amount + Table(rest)[rest]
             h == [t \in SUBSET m |-> IF t = m THEN all ELSE Table(t)[t]]
  <1>2. \A t \in SUBSET m : t # m => IsSum(f, Table(t), t)
    BY <1>1
  <1> HIDE DEF Table
  <1>3. m # {} => Pick(m) \in m
    BY DEF Pick
  <1>4. ASSUME NEW t \in SUBSET m
        PROVE  h[t] = IF t = {} THEN 0 ELSE f[Pick(t)].amount + h[t \ {Pick(t)}]
    <2>1. CASE t = m
      <3>1. m # {} => h[rest] = Table(rest)[rest]
        BY <1>3
      <3> QED BY <2>1, <3>1
    <2>2. CASE t # m
      <3>1. h[t] = Table(t)[t] /\ IsSum(f, Table(t), t)
        BY <1>2, <2>2
      <3>2. Table(t)[t] = IF t = {} THEN 0 ELSE f[Pick(t)].amount + Table(t)[t \ {Pick(t)}]
        BY <3>1 DEF IsSum
      <3>3. CASE t # {}
        <4> DEFINE r == t \ {Pick(t)}
        <4>1. r \in SUBSET m /\ r # m /\ r \in SUBSET t
          BY <3>3 DEF Pick
        <4>2. h[r] = Table(r)[r] /\ IsSum(f, Table(r), r)
          BY <1>2, <4>1
        <4>3. IsFiniteSet(t)
          BY FS_Subset
        <4>4. Table(t)[r] = Table(r)[r]
          BY <3>1, <4>1, <4>2, <4>3, SumsAgree
        <4> QED BY <3>1, <3>2, <3>3, <4>2, <4>4
      <3> QED BY <3>1, <3>2, <3>3
    <2> QED BY <2>1, <2>2
  <1>5. IsSum(f, h, m)
    <2> HIDE DEF h
    <2>1. h = [t \in SUBSET m |-> h[t]]
      BY DEF h
    <2> QED BY <1>4, <2>1 DEF IsSum
  <1> QED BY <1>1, <1>5

\* The sum over a set takes one element after another.
LEMMA SumUnfolds ==
  ASSUME NEW f, NEW T, IsFiniteSet(T)
  PROVE  SumOf(f, T) = IF T = {} THEN 0 ELSE f[Pick(T)].amount + SumOf(f, T \ {Pick(T)})
  <1> DEFINE g == CHOOSE h : IsSum(f, h, T)
             r == T \ {Pick(T)}
             k == CHOOSE h : IsSum(f, h, r)
  <1>1. IsSum(f, g, T)
    BY SumExists
  <1>2. IsFiniteSet(r) /\ IsSum(f, k, r)
    <2>1. IsFiniteSet(r)
      BY FS_Subset
    <2> QED BY <2>1, SumExists
  <1>3. SumOf(f, T) = g[T] /\ SumOf(f, r) = k[r]
    BY SumIsChosen
  <1> HIDE DEF g, k
  <1>4. g[T] = IF T = {} THEN 0 ELSE f[Pick(T)].amount + g[r]
    BY <1>1 DEF IsSum
  <1>5. k[r] = g[r]
    BY <1>1, <1>2, SumsAgree
  <1> QED BY <1>3, <1>4, <1>5

\* A sum of naturals is one.
LEMMA SumIsNat ==
  ASSUME NEW f, NEW S, IsFiniteSet(S), \A p \in S : f[p].amount \in Nat
  PROVE  SumOf(f, S) \in Nat
  <1> SUFFICES ASSUME SumOf(f, S) \notin Nat PROVE FALSE
    OBVIOUS
  <1> DEFINE X == { t \in SUBSET S : SumOf(f, t) \notin Nat }
  <1>1. PICK m \in X : \A y \in X : y \subseteq m => y = m
    <2>1. X \in SUBSET (SUBSET S) /\ X # {}
      OBVIOUS
    <2> HIDE DEF X
    <2> QED BY <2>1, Smallest
  <1>2. IsFiniteSet(m)
    BY FS_Subset
  <1>3. SumOf(f, m) = IF m = {} THEN 0 ELSE f[Pick(m)].amount + SumOf(f, m \ {Pick(m)})
    BY <1>2, SumUnfolds
  <1>4. m # {} => Pick(m) \in m
    BY DEF Pick
  <1>5. m # {} => SumOf(f, m \ {Pick(m)}) \in Nat
    BY <1>1, <1>4
  <1> QED BY <1>1, <1>3, <1>4, <1>5

\* Any element may be taken first.
LEMMA SumWithout ==
  ASSUME NEW f, NEW S, IsFiniteSet(S), \A p \in S : f[p].amount \in Nat, NEW q \in S
  PROVE  SumOf(f, S) = f[q].amount + SumOf(f, S \ {q})
  <1> DEFINE Fine(t) == \A p \in t : SumOf(f, t) = f[p].amount + SumOf(f, t \ {p})
             X == { t \in SUBSET S : ~ Fine(t) }
  <1> SUFFICES ASSUME ~ Fine(S) PROVE FALSE
    OBVIOUS
  <1>1. PICK m \in X : \A y \in X : y \subseteq m => y = m
    <2>1. X \in SUBSET (SUBSET S) /\ X # {}
      OBVIOUS
    <2> HIDE DEF X
    <2> QED BY <2>1, Smallest
  <1>2. PICK p \in m : SumOf(f, m) # f[p].amount + SumOf(f, m \ {p})
    BY <1>1
  <1>3. \A t \in SUBSET S : IsFiniteSet(t) /\ SumOf(f, t) \in Nat
    BY FS_Subset, SumIsNat
  <1> DEFINE x == Pick(m)
  <1>4. x \in m /\ p \in S /\ x \in S
    BY <1>1, <1>2 DEF Pick
  <1>5. SumOf(f, m) = f[x].amount + SumOf(f, m \ {x})
    BY <1>1, <1>2, <1>3, SumUnfolds
  <1> HIDE DEF x
  <1>6. x # p
    BY <1>2, <1>5
  <1>7. Fine(m \ {x}) /\ Fine(m \ {p})
    BY <1>1, <1>2, <1>4
  <1>8. SumOf(f, m \ {x}) = f[p].amount + SumOf(f, (m \ {x}) \ {p})
    BY <1>2, <1>6, <1>7
  <1>9. SumOf(f, m \ {p}) = f[x].amount + SumOf(f, (m \ {p}) \ {x})
    BY <1>4, <1>6, <1>7
  <1>10. (m \ {p}) \ {x} = (m \ {x}) \ {p} /\ (m \ {x}) \ {p} \in SUBSET S
    BY <1>1
  <1>11. /\ SumOf(f, (m \ {x}) \ {p}) \in Nat /\ f[x].amount \in Nat /\ f[p].amount \in Nat
    BY <1>3, <1>4, <1>10
  <1>12. SumOf(f, (m \ {p}) \ {x}) = SumOf(f, (m \ {x}) \ {p})
    BY <1>10
  <1>13. \A a, b, c \in Nat : a + (b + c) = b + (a + c)
    OBVIOUS
  <1> QED BY <1>2, <1>5, <1>8, <1>9, <1>11, <1>12, <1>13

\* A sum is of the amounts, whatever else the rows say.
LEMMA SameAmounts ==
  ASSUME NEW f, NEW h, NEW S, IsFiniteSet(S), \A p \in S : f[p].amount = h[p].amount
  PROVE  SumOf(f, S) = SumOf(h, S)
  <1> SUFFICES ASSUME SumOf(f, S) # SumOf(h, S) PROVE FALSE
    OBVIOUS
  <1> DEFINE X == { t \in SUBSET S : SumOf(f, t) # SumOf(h, t) }
  <1>1. PICK m \in X : \A y \in X : y \subseteq m => y = m
    <2>1. X \in SUBSET (SUBSET S) /\ X # {}
      OBVIOUS
    <2> HIDE DEF X
    <2> QED BY <2>1, Smallest
  <1>2. IsFiniteSet(m)
    BY FS_Subset
  <1>3. SumOf(f, m) = IF m = {} THEN 0 ELSE f[Pick(m)].amount + SumOf(f, m \ {Pick(m)})
    BY <1>2, SumUnfolds
  <1>4. SumOf(h, m) = IF m = {} THEN 0 ELSE h[Pick(m)].amount + SumOf(h, m \ {Pick(m)})
    BY <1>2, SumUnfolds
  <1>5. m # {} => Pick(m) \in m
    BY DEF Pick
  <1>6. m # {} => SumOf(f, m \ {Pick(m)}) = SumOf(h, m \ {Pick(m)})
    BY <1>1, <1>5
  <1> QED BY <1>1, <1>3, <1>4, <1>5, <1>6

-----------------------------------------------------------------------------
(* The inductive invariant.                                                *)

\* A payments row names its booking.
NamesItsBooking == \A p \in Payments : payment[p].status # "none" => payment[p].booking \in Bookings

\* TypeOK alone is not enough: that no receipt waits on an expired booking is
\* what keeps a rejection from moving one.
LedgerInv == /\ TypeOK
             /\ NamesItsBooking
             /\ WaitingReceiptStopsTheHold
             /\ DepositDecides
             /\ TwoRejectionsCancel

\* Counting receipts is counting a finite set.
LEMMA CountsAreNaturals ==
  /\ \A S \in SUBSET Payments : IsFiniteSet(S) /\ Cardinality(S) \in Nat
  /\ \A p \in Payments : OthersPending(p) \in Nat
<1>1. \A S \in SUBSET Payments : IsFiniteSet(S) /\ Cardinality(S) \in Nat
  BY FS_Subset, FS_CardinalityType, LedgerAssumption
<1>2. \A p \in Payments : PendingFor(payment[p].booking) \ {p} \in SUBSET Payments
  BY DEF PendingFor
<1>3. QED
  BY <1>1, <1>2 DEF OthersPending

\* The invariant holds at first: no payments, no money, every hold running.
LEMMA LedgerInitInv == Init => LedgerInv
<1> SUFFICES ASSUME Init PROVE LedgerInv
  OBVIOUS
<1> USE LedgerAssumption DEF Init, NewBooking, NoPayment
<1>1. TypeOK
  BY DEF TypeOK, BookingRow, PaymentRow, Reachable, Hold, Reason
<1>2. NamesItsBooking
  BY DEF NamesItsBooking
<1>3. WaitingReceiptStopsTheHold
  BY DEF WaitingReceiptStopsTheHold, PendingFor
<1>4. DepositDecides
  BY DEF DepositDecides, Payable
<1>5. TwoRejectionsCancel
  <2>1. \A b \in Bookings : RejectedFor(b) = {}
    BY DEF RejectedFor
  <2>2. QED
    BY <2>1, FS_EmptySet DEF TwoRejectionsCancel, MaxPaymentRejections
<1>6. QED
  BY <1>1, <1>2, <1>3, <1>4, <1>5 DEF LedgerInv

\* A receipt arrives.
LEMMA UploadInv ==
  ASSUME LedgerInv, NEW b \in Bookings, NEW p \in Payments, NEW amount \in Amounts,
         Upload(b, p, amount)
  PROVE  LedgerInv'
<1> USE DEF LedgerInv
<1>1. booking[b] \in BookingRow /\ booking[b].status \in Payable /\ payment[p].status = "none"
  BY DEF TypeOK, Upload
<1>2. /\ booking' = [booking EXCEPT ![b] = WithReceipt(booking[b])]
      /\ payment' = [payment EXCEPT ![p] =
                       [status |-> "pending", booking |-> b, amount |-> amount]]
  BY DEF Upload
<1>3. /\ WithReceipt(booking[b]) \in BookingRow
      /\ WithReceipt(booking[b]).status = "awaiting_verification"
      /\ WithReceipt(booking[b]).hold = "none"
      /\ WithReceipt(booking[b]).paid = booking[b].paid
      /\ WithReceipt(booking[b]).deposit = booking[b].deposit
      /\ WithReceipt(booking[b]).rejections = booking[b].rejections
  BY <1>1, ReceiptRow
<1> DEFINE row == WithReceipt(booking[b])
<1>4. \A x \in Bookings : booking'[x] = IF x = b THEN row ELSE booking[x]
  BY <1>2 DEF TypeOK
<1>5. \A q \in Payments : payment'[q] = IF q = p
        THEN [status |-> "pending", booking |-> b, amount |-> amount] ELSE payment[q]
  BY <1>2 DEF TypeOK
<1>6. TypeOK'
  BY <1>2, <1>3, LedgerAssumption DEF TypeOK, PaymentRow
<1> HIDE DEF row
<1>7. NamesItsBooking'
  BY <1>5 DEF NamesItsBooking
<1>8. WaitingReceiptStopsTheHold'
  <2>1. \A x \in Bookings : x # b => PendingFor(x)' = PendingFor(x)
    BY <1>5, <1>1 DEF PendingFor
  <2>2. QED
    BY <2>1, <1>3, <1>4 DEF WaitingReceiptStopsTheHold, row
<1>9. DepositDecides'
  BY <1>1, <1>3, <1>4 DEF DepositDecides, Payable, row
<1>10. TwoRejectionsCancel'
  <2>1. \A x \in Bookings : RejectedFor(x)' = RejectedFor(x)
    BY <1>5, <1>1 DEF RejectedFor
  <2>2. booking[b].status # "cancelled"
    BY <1>1 DEF Payable
  <2>3. QED
    BY <2>1, <2>2, <1>3, <1>4 DEF TwoRejectionsCancel, row
<1>11. QED
  BY <1>6, <1>7, <1>8, <1>9, <1>10

\* An amount is settled on booking b, by verifying payment p, which waited
\* for it, or by recording a new one.
LEMMA SettleInv ==
  ASSUME LedgerInv, NEW b \in Bookings, NEW p \in Payments, NEW amount \in Amounts,
         \/ payment[p].status = "pending" /\ payment[p].booking = b
         \/ payment[p].status = "none",
         booking' = [booking EXCEPT ![b] = Settled(booking[b], amount)],
         payment' \in [Payments -> PaymentRow],
         payment'[p].status = "verified", payment'[p].booking = b,
         \A q \in Payments \ {p} : payment'[q] = payment[q]
  PROVE  LedgerInv'
<1> USE DEF LedgerInv
<1> DEFINE row == Settled(booking[b], amount)
<1>1. booking[b] \in BookingRow /\ booking[b].paid \in Nat /\ amount \in Nat \ {0}
  BY LedgerAssumption DEF TypeOK, BookingRow
<1>2. /\ row \in BookingRow
      /\ row.paid = booking[b].paid + amount
      /\ row.deposit = booking[b].deposit
      /\ row.rejections = booking[b].rejections
      /\ row.status = IF booking[b].paid + amount >= booking[b].deposit /\ booking[b].status \in Payable
                      THEN "confirmed" ELSE booking[b].status
      /\ row.status # "confirmed" => row.hold = booking[b].hold
  BY <1>1, SettledRow
<1>3. \A x \in Bookings : booking'[x] = IF x = b THEN row ELSE booking[x]
  BY DEF TypeOK
<1>4. TypeOK'
  BY <1>2 DEF TypeOK
<1> HIDE DEF row
<1>6. NamesItsBooking'
  BY DEF NamesItsBooking
<1>7. WaitingReceiptStopsTheHold'
  <2>1. \A x \in Bookings : PendingFor(x)' \subseteq PendingFor(x)
    BY DEF PendingFor
  <2>2. row.status \in { booking[b].status, "confirmed" }
    BY <1>2
  <2>3. row.status = "awaiting_verification" => row.hold = booking[b].hold
    BY <1>2
  <2>4. QED
    BY <2>1, <2>2, <2>3, <1>3 DEF WaitingReceiptStopsTheHold
<1>8. DepositDecides'
  <2>1. \A x \in Bookings : booking[x].deposit \in Nat /\ booking[x].paid \in Nat
    BY LedgerAssumption DEF TypeOK, BookingRow
  <2>2. QED
    BY <2>1, <1>1, <1>2, <1>3 DEF DepositDecides, Payable
<1>9. TwoRejectionsCancel'
  <2>1. \A x \in Bookings : RejectedFor(x)' = RejectedFor(x)
    BY DEF RejectedFor
  <2>2. booking[b].status = "cancelled" => row.status = "cancelled"
    BY <1>2 DEF Payable
  <2>3. QED
    BY <2>1, <2>2, <1>2, <1>3 DEF TwoRejectionsCancel
<1>10. QED
  BY <1>4, <1>6, <1>7, <1>8, <1>9

\* A receipt is rejected.
LEMMA RejectInv ==
  ASSUME LedgerInv, NEW p \in Payments, Reject(p)
  PROVE  LedgerInv'
<1> USE DEF LedgerInv
<1>0. PICK b \in Bookings : b = payment[p].booking
  BY DEF Reject, NamesItsBooking
<1> DEFINE n   == OthersPending(p)
           row == WithRejection(booking[b], n)
<1>1. payment[p].status = "pending" /\ p \in PendingFor(b)
  BY <1>0 DEF Reject, PendingFor
<1>2. booking[b] \in BookingRow /\ booking[b].rejections \in Nat
  BY <1>1 DEF TypeOK, BookingRow
<1>3. n \in Nat
  BY CountsAreNaturals
<1>4. /\ row \in BookingRow
      /\ row.paid = booking[b].paid
      /\ row.deposit = booking[b].deposit
      /\ row.rejections = booking[b].rejections + 1
      /\ \/ /\ booking[b].rejections + 1 >= MaxPaymentRejections
            /\ row.status = "cancelled"
         \/ /\ booking[b].rejections + 1 < MaxPaymentRejections
            /\ n = 0 /\ booking[b].status = "awaiting_verification"
            /\ row.status = "pending_payment"
         \/ /\ booking[b].rejections + 1 < MaxPaymentRejections
            /\ row.status = booking[b].status
            /\ row.hold = booking[b].hold
  BY <1>2, <1>3, RejectedRow
<1>5. \A x \in Bookings : booking'[x] = IF x = b THEN row ELSE booking[x]
  BY <1>0 DEF TypeOK, Reject
<1>6. \A q \in Payments : payment'[q] =
        IF q = p THEN [payment[p] EXCEPT !.status = "rejected"] ELSE payment[q]
  BY DEF TypeOK, Reject
<1>7. TypeOK'
  BY <1>0, <1>1, <1>4 DEF TypeOK, PaymentRow, Reject
<1> HIDE DEF row
<1>8. /\ payment'[p].status = "rejected" /\ payment'[p].booking = b
      /\ \A q \in Payments : q # p => payment'[q] = payment[q]
  BY <1>0, <1>6 DEF TypeOK, PaymentRow
<1>9. NamesItsBooking'
  BY <1>1, <1>8 DEF NamesItsBooking
<1>10. PendingFor(b)' = PendingFor(b) \ {p}
  BY <1>8 DEF PendingFor
<1>11. \A x \in Bookings : x # b => PendingFor(x)' = PendingFor(x)
  BY <1>1, <1>8 DEF PendingFor
<1>12. n = 0 => PendingFor(b)' = {}
  <2>1. PendingFor(b) \ {p} \in SUBSET Payments
    BY DEF PendingFor
  <2>2. IsFiniteSet(PendingFor(b) \ {p})
    BY <2>1, CountsAreNaturals
  <2>3. QED
    BY <2>2, <1>0, <1>10, FS_EmptySet DEF OthersPending
<1>13. WaitingReceiptStopsTheHold'
  <2>1. booking[b].status \in { "awaiting_verification", "confirmed", "cancelled" }
    BY <1>1 DEF WaitingReceiptStopsTheHold
  <2> HIDE DEF n
  <2>2. row.status = "awaiting_verification" => row.hold = "none"
    BY <1>1, <1>4 DEF WaitingReceiptStopsTheHold
  <2>3. PendingFor(b)' # {} => row.status \in { "awaiting_verification", "confirmed", "cancelled" }
    BY <1>4, <1>12, <2>1
  <2>4. QED
    BY <2>2, <2>3, <1>5, <1>11 DEF WaitingReceiptStopsTheHold
<1>14. DepositDecides'
  <2> HIDE DEF n
  <2>1. QED
    BY <1>4, <1>5 DEF DepositDecides, Payable
<1>15. TwoRejectionsCancel'
  <2>1. RejectedFor(b)' = RejectedFor(b) \cup {p} /\ p \notin RejectedFor(b)
    BY <1>1, <1>8 DEF RejectedFor
  <2>2. \A x \in Bookings : x # b => RejectedFor(x)' = RejectedFor(x)
    BY <1>1, <1>8 DEF RejectedFor
  <2>3. RejectedFor(b) \in SUBSET Payments
    BY DEF RejectedFor
  <2>4. Cardinality(RejectedFor(b)') = Cardinality(RejectedFor(b)) + 1
    BY <2>1, <2>3, CountsAreNaturals, FS_AddElement
  <2> HIDE DEF n
  <2>5. QED
    BY <2>2, <2>4, <1>1, <1>2, <1>4, <1>5 DEF TwoRejectionsCancel, MaxPaymentRejections
<1>16. QED
  BY <1>7, <1>9, <1>13, <1>14, <1>15

\* Cancelling, the clock and the sweep touch no payment and no money.
LEMMA NoPaymentMovesInv ==
  ASSUME LedgerInv,
         \/ \E b \in Bookings : Cancel(b) \/ HoldLapses(b)
         \/ \E bs \in SUBSET Bookings : ExpireHolds(bs)
  PROVE  LedgerInv'
<1> USE DEF LedgerInv
<1>1. payment' = payment
  BY DEF Cancel, HoldLapses, ExpireHolds
<1>2. TypeOK'
  <2>1. CASE \E b \in Bookings : Cancel(b)
    <3>1. PICK b \in Bookings :
            booking' = [booking EXCEPT ![b].status = "cancelled", ![b].reason = "admin"]
      BY <2>1 DEF Cancel
    <3>2. booking[b] \in BookingRow
      BY DEF TypeOK
    <3>3. [booking[b] EXCEPT !.status = "cancelled", !.reason = "admin"] \in BookingRow
      BY <3>2 DEF BookingRow, Reachable, Reason
    <3>4. booking' = [booking EXCEPT ![b] =
                        [booking[b] EXCEPT !.status = "cancelled", !.reason = "admin"]]
      BY <3>1 DEF TypeOK
    <3>5. QED
      BY <1>1, <3>3, <3>4 DEF TypeOK
  <2>2. CASE \E b \in Bookings : HoldLapses(b)
    <3>1. PICK b \in Bookings : booking' = [booking EXCEPT ![b].hold = "lapsed"]
      BY <2>2 DEF HoldLapses
    <3>2. booking[b] \in BookingRow
      BY DEF TypeOK
    <3>3. [booking[b] EXCEPT !.hold = "lapsed"] \in BookingRow
      BY <3>2 DEF BookingRow, Hold
    <3>4. QED
      BY <1>1, <3>1, <3>3 DEF TypeOK
  <2>3. CASE \E bs \in SUBSET Bookings : ExpireHolds(bs)
    <3>1. \A x \in Bookings : booking'[x] = booking[x] \/ booking'[x] = [booking[x] EXCEPT !.status = "expired"]
      BY <2>3 DEF ExpireHolds
    <3>2. ASSUME NEW x \in Bookings PROVE booking'[x] \in BookingRow
      <4>1. booking[x] \in BookingRow
        BY DEF TypeOK
      <4>2. [booking[x] EXCEPT !.status = "expired"] \in BookingRow
        BY <4>1 DEF BookingRow, Reachable
      <4>3. QED
        BY <3>1, <4>1, <4>2
    <3>3. QED
      BY <1>1, <2>3, <3>2 DEF TypeOK, ExpireHolds
  <2>4. QED
    BY <2>1, <2>2, <2>3
<1>3. \A x \in Bookings :
        /\ booking'[x].paid = booking[x].paid
        /\ booking'[x].deposit = booking[x].deposit
        /\ booking'[x].rejections = booking[x].rejections
        /\ \/ booking'[x].status = booking[x].status /\ booking'[x].hold = booking[x].hold
           \/ booking'[x].status = "cancelled"
           \/ booking'[x].status = "pending_payment" /\ booking[x].status = "pending_payment"
           \/ booking'[x].status = "expired" /\ booking[x].status = "pending_payment"
  <2>1. ASSUME NEW b \in Bookings, Cancel(b), NEW x \in Bookings
        PROVE  booking'[x] = IF x = b THEN [booking[b] EXCEPT !.status = "cancelled", !.reason = "admin"]
                                      ELSE booking[x]
    BY <2>1 DEF Cancel, TypeOK
  <2>2. ASSUME NEW b \in Bookings, HoldLapses(b), NEW x \in Bookings
        PROVE  /\ booking'[x] = IF x = b THEN [booking[b] EXCEPT !.hold = "lapsed"] ELSE booking[x]
               /\ booking[b].status = "pending_payment"
    BY <2>2 DEF HoldLapses, TypeOK
  <2>3. ASSUME NEW bs \in SUBSET Bookings, ExpireHolds(bs), NEW x \in Bookings
        PROVE  \/ booking'[x] = booking[x]
               \/ /\ booking'[x] = [booking[x] EXCEPT !.status = "expired"]
                  /\ booking[x].status = "pending_payment"
    BY <2>3 DEF ExpireHolds, Lapsed
  <2>4. TAKE x \in Bookings
  <2>5. booking[x] \in BookingRow
    BY DEF TypeOK
  <2>6. CASE \E b \in Bookings : Cancel(b)
    BY <2>1, <2>5, <2>6 DEF BookingRow
  <2>7. CASE \E b \in Bookings : HoldLapses(b)
    BY <2>2, <2>5, <2>7 DEF BookingRow
  <2>8. CASE \E bs \in SUBSET Bookings : ExpireHolds(bs)
    BY <2>3, <2>5, <2>8 DEF BookingRow
  <2>9. QED
    BY <2>6, <2>7, <2>8
<1>4. NamesItsBooking'
  BY <1>1 DEF NamesItsBooking
<1>5. WaitingReceiptStopsTheHold'
  <2>1. \A x \in Bookings : PendingFor(x)' = PendingFor(x)
    BY <1>1 DEF PendingFor
  <2>2. QED
    BY <2>1, <1>3 DEF WaitingReceiptStopsTheHold
<1>6. DepositDecides'
  BY <1>3 DEF DepositDecides, Payable
<1>7. TwoRejectionsCancel'
  <2>1. \A x \in Bookings : RejectedFor(x)' = RejectedFor(x)
    BY <1>1 DEF RejectedFor
  <2>2. QED
    BY <2>1, <1>3 DEF TwoRejectionsCancel, MaxPaymentRejections
<1>8. QED
  BY <1>2, <1>4, <1>5, <1>6, <1>7

\* Verifying or recording settles an amount.
LEMMA VerifyOrRecordSettles ==
  ASSUME LedgerInv, NEW p \in Payments, NEW amount \in Amounts,
         Verify(p, amount) \/ \E x \in Bookings : Record(x, p, amount)
  PROVE  \E b \in Bookings :
           /\ \/ payment[p].status = "pending" /\ payment[p].booking = b
              \/ payment[p].status = "none"
           /\ booking' = [booking EXCEPT ![b] = Settled(booking[b], amount)]
           /\ payment' \in [Payments -> PaymentRow]
           /\ payment'[p].status = "verified" /\ payment'[p].booking = b
           /\ payment'[p].amount = amount
           /\ \A q \in Payments \ {p} : payment'[q] = payment[q]
<1> USE DEF LedgerInv, TypeOK
<1>1. CASE Verify(p, amount)
  <2>1. payment[p] \in PaymentRow /\ amount \in Amounts \cup {0}
    OBVIOUS
  <2>2. payment[p].status = "pending" /\ payment[p].booking \in Bookings
    BY <1>1 DEF Verify, NamesItsBooking
  <2>3. [payment[p] EXCEPT !.status = "verified", !.amount = amount] \in PaymentRow
    BY <2>1 DEF PaymentRow
  <2>4. payment' = [payment EXCEPT ![p] =
                      [payment[p] EXCEPT !.status = "verified", !.amount = amount]]
    BY <1>1 DEF Verify
  <2>5. /\ payment'[p].status = "verified" /\ payment'[p].booking = payment[p].booking
        /\ payment'[p].amount = amount
    BY <2>1, <2>4 DEF PaymentRow
  <2>6. booking' = [booking EXCEPT ![payment[p].booking] =
                      Settled(booking[payment[p].booking], amount)]
    BY <1>1 DEF Verify
  <2>7. payment' \in [Payments -> PaymentRow] /\ \A q \in Payments \ {p} : payment'[q] = payment[q]
    BY <2>3, <2>4
  <2>8. QED
    BY <2>2, <2>5, <2>6, <2>7
<1>2. ASSUME NEW x \in Bookings, Record(x, p, amount)
      PROVE  /\ payment[p].status = "none"
             /\ booking' = [booking EXCEPT ![x] = Settled(booking[x], amount)]
             /\ payment' \in [Payments -> PaymentRow]
             /\ payment'[p].status = "verified" /\ payment'[p].booking = x
             /\ payment'[p].amount = amount
             /\ \A q \in Payments \ {p} : payment'[q] = payment[q]
  BY <1>2 DEF Record, PaymentRow
<1>3. QED
  BY <1>1, <1>2

\* The invariant is inductive.
LEMMA LedgerNextInv == LedgerInv /\ [Next]_vars => LedgerInv'
<1> SUFFICES ASSUME LedgerInv, [Next]_vars PROVE LedgerInv'
  OBVIOUS
<1>1. ASSUME NEW p \in Payments, NEW amount \in Amounts, NEW b \in Bookings, Upload(b, p, amount)
      PROVE  LedgerInv'
  BY <1>1, UploadInv
<1>2. ASSUME NEW p \in Payments, NEW amount \in Amounts,
             Verify(p, amount) \/ \E b \in Bookings : Record(b, p, amount)
      PROVE  LedgerInv'
  BY <1>2, VerifyOrRecordSettles, SettleInv
<1>3. ASSUME NEW p \in Payments, Reject(p)
      PROVE  LedgerInv'
  BY <1>3, RejectInv
<1>4. ASSUME \/ \E b \in Bookings : Cancel(b) \/ HoldLapses(b)
             \/ \E bs \in SUBSET Bookings : ExpireHolds(bs)
      PROVE  LedgerInv'
  BY <1>4, NoPaymentMovesInv
<1>5. CASE UNCHANGED vars
  BY <1>5 DEF vars, LedgerInv, TypeOK, NamesItsBooking, WaitingReceiptStopsTheHold, PendingFor,
              DepositDecides, TwoRejectionsCancel, RejectedFor
<1>6. QED
  BY <1>1, <1>2, <1>3, <1>4, <1>5 DEF Next

\* So it holds always.
LEMMA LedgerInvHolds == Spec => []LedgerInv
BY LedgerInitInv, LedgerNextInv, PTL DEF Spec

\* What a step does to the statuses that hold dates.
ReleaseStep ==
  \A b \in Bookings :
       /\ booking[b].status \in Occupying /\ booking'[b].status \notin Occupying
          => \/ /\ booking'[b].status = "expired"
                /\ booking[b].status = "pending_payment"
                /\ booking[b].hold = "lapsed"
                /\ PendingFor(b) = {}
             \/ booking'[b].status = "cancelled" /\ booking'[b].reason = "admin"
             \/ /\ booking'[b].status = "cancelled"
                /\ booking'[b].rejections >= MaxPaymentRejections
       /\ booking[b].status \notin Occupying => booking'[b].status = booking[b].status

\* Every step is one of these, or leaves the ledger alone.
LEMMA StepsRelease == LedgerInv /\ [Next]_vars => [ReleaseStep]_vars
<1> SUFFICES ASSUME LedgerInv, Next PROVE ReleaseStep
  OBVIOUS
<1> USE DEF LedgerInv, ReleaseStep
<1>1. ASSUME NEW p \in Payments, NEW amount \in Amounts, NEW b \in Bookings, Upload(b, p, amount)
      PROVE  ReleaseStep
  <2>1. booking[b] \in BookingRow /\ booking[b].status \in Payable
    BY <1>1 DEF Upload, TypeOK
  <2>2. \A x \in Bookings : booking'[x] = IF x = b THEN WithReceipt(booking[b]) ELSE booking[x]
    BY <1>1 DEF Upload, TypeOK
  <2>3. WithReceipt(booking[b]).status = "awaiting_verification"
    BY <2>1, ReceiptRow
  <2>4. QED
    BY <2>1, <2>2, <2>3 DEF Occupying, Payable
<1>2. ASSUME NEW p \in Payments, NEW amount \in Amounts,
             Verify(p, amount) \/ \E b \in Bookings : Record(b, p, amount)
      PROVE  ReleaseStep
  <2>1. PICK b \in Bookings : booking' = [booking EXCEPT ![b] = Settled(booking[b], amount)]
    BY <1>2, VerifyOrRecordSettles
  <2>2. booking[b] \in BookingRow
    BY DEF TypeOK
  <2>3. Settled(booking[b], amount).status =
          IF booking[b].paid + amount >= booking[b].deposit /\ booking[b].status \in Payable
          THEN "confirmed" ELSE booking[b].status
    BY <2>2, SettledRow
  <2>4. \A x \in Bookings : booking'[x] = IF x = b THEN Settled(booking[b], amount) ELSE booking[x]
    BY <2>1 DEF TypeOK
  <2>5. QED
    BY <2>3, <2>4 DEF Occupying, Payable
<1>3. ASSUME NEW p \in Payments, Reject(p)
      PROVE  ReleaseStep
  <2> DEFINE b   == payment[p].booking
             row == WithRejection(booking[b], OthersPending(p))
  <2>1. b \in Bookings /\ PendingFor(b) # {}
    BY <1>3 DEF Reject, NamesItsBooking, PendingFor
  <2>2. booking[b].status \in { "awaiting_verification", "confirmed", "cancelled" }
    BY <2>1 DEF WaitingReceiptStopsTheHold
  <2>3. booking[b] \in BookingRow /\ OthersPending(p) \in Nat
    BY <2>1, CountsAreNaturals DEF TypeOK
  <2>4. /\ row.rejections = booking[b].rejections + 1
        /\ \/ row.rejections >= MaxPaymentRejections /\ row.status = "cancelled"
           \/ booking[b].status = "awaiting_verification" /\ row.status = "pending_payment"
           \/ row.status = booking[b].status
    BY <2>3, RejectedRow
  <2>5. \A x \in Bookings : booking'[x] = IF x = b THEN row ELSE booking[x]
    BY <1>3 DEF Reject, TypeOK
  <2> HIDE DEF b, row
  <2>6. QED
    BY <2>2, <2>4, <2>5 DEF Occupying
<1>4. ASSUME NEW b \in Bookings, Cancel(b)
      PROVE  ReleaseStep
  <2>1. /\ booking[b].status \in Open
        /\ \A x \in Bookings : booking'[x] =
             IF x = b THEN [booking[b] EXCEPT !.status = "cancelled", !.reason = "admin"]
                      ELSE booking[x]
    BY <1>4 DEF Cancel, TypeOK
  <2>2. QED
    BY <2>1 DEF TypeOK, BookingRow, Open, Occupying
<1>5. ASSUME NEW b \in Bookings, HoldLapses(b)
      PROVE  ReleaseStep
  <2>1. \A x \in Bookings : booking'[x] =
          IF x = b THEN [booking[b] EXCEPT !.hold = "lapsed"] ELSE booking[x]
    BY <1>5 DEF HoldLapses, TypeOK
  <2>2. QED
    BY <2>1 DEF TypeOK, BookingRow
<1>6. ASSUME NEW bs \in SUBSET Bookings, ExpireHolds(bs)
      PROVE  ReleaseStep
  <2>1. \A x \in Bookings :
          \/ booking'[x] = booking[x]
          \/ /\ booking'[x] = [booking[x] EXCEPT !.status = "expired"]
             /\ booking[x].status = "pending_payment" /\ booking[x].hold = "lapsed"
    BY <1>6 DEF ExpireHolds, Lapsed
  <2>2. \A x \in Bookings : booking[x].status = "pending_payment" => PendingFor(x) = {}
    BY DEF WaitingReceiptStopsTheHold
  <2>3. TAKE x \in Bookings
  <2>4. booking[x] \in BookingRow
    BY DEF TypeOK
  <2>5. CASE booking'[x] = booking[x]
    BY <2>5
  <2>6. CASE booking'[x] # booking[x]
    <3>1. /\ booking[x].status = "pending_payment" /\ booking[x].hold = "lapsed"
          /\ booking'[x] = [booking[x] EXCEPT !.status = "expired"]
      BY <2>1, <2>6
    <3>2. booking'[x].status = "expired"
      BY <2>4, <3>1 DEF BookingRow
    <3>3. QED
      BY <2>2, <3>1, <3>2 DEF Occupying
  <2>7. QED
    BY <2>5, <2>6
<1>7. QED
  BY <1>1, <1>2, <1>3, <1>4, <1>5, <1>6 DEF Next

\* No step changes a receipt that was judged.
CheckedStep ==
  \A p \in Payments :
       payment[p].status \in { "verified", "rejected" } => payment'[p] = payment[p]

LEMMA StepsCheckOnce == LedgerInv /\ [Next]_vars => [CheckedStep]_vars
<1> SUFFICES ASSUME LedgerInv, Next PROVE CheckedStep
  OBVIOUS
<1>1. \/ payment' = payment
      \/ \E p \in Payments : /\ payment[p].status \in { "none", "pending" }
                             /\ \A q \in Payments \ {p} : payment'[q] = payment[q]
  BY DEF Next, Upload, Verify, Reject, Record, Cancel, HoldLapses, ExpireHolds, LedgerInv, TypeOK
<1>2. QED
  BY <1>1 DEF CheckedStep

-----------------------------------------------------------------------------
(* Money.                                                                  *)

\* The books: paid_total as a sum in the sense above.
Books == \A b \in Bookings : booking[b].paid = SumOf(payment, VerifiedFor(b))

\* They are what the property means by them.
LEMMA BooksAreThose == PaidTotalIsWhatWasVerified <=> Books
BY DEF PaidTotalIsWhatWasVerified, SumOf, Books

\* What is summed up is finite, and naturals.
LEMMA FiniteSums ==
  /\ \A b \in Bookings : VerifiedFor(b) \subseteq Payments /\ IsFiniteSet(VerifiedFor(b))
  /\ LedgerInv => \A p \in Payments : payment[p].amount \in Nat
<1>1. \A b \in Bookings : VerifiedFor(b) \in SUBSET Payments
  BY DEF VerifiedFor
<1>2. LedgerInv => \A p \in Payments : payment[p].amount \in Nat
  <2> SUFFICES ASSUME LedgerInv, NEW p \in Payments PROVE payment[p].amount \in Nat
    OBVIOUS
  <2>1. payment[p] \in PaymentRow
    BY DEF LedgerInv, TypeOK
  <2>2. payment[p].amount \in Amounts \cup {0}
    BY <2>1 DEF PaymentRow
  <2>3. Amounts \cup {0} \subseteq Nat
    BY LedgerAssumption
  <2>4. QED
    BY <2>2, <2>3
<1>3. QED
  BY <1>1, <1>2, CountsAreNaturals

\* A step that neither verifies nor pays.
LEMMA NoMoneyMoves ==
  ASSUME Books,
         \A b \in Bookings : booking'[b].paid = booking[b].paid,
         \A q \in Payments : /\ payment[q].status = "verified" => payment'[q] = payment[q]
                             /\ payment'[q].status = "verified" => payment[q].status = "verified"
  PROVE  Books'
<1>1. ASSUME NEW b \in Bookings
      PROVE  booking'[b].paid = SumOf(payment', VerifiedFor(b)')
  <2>1. VerifiedFor(b)' = VerifiedFor(b)
    BY DEF VerifiedFor
  <2>2. \A q \in VerifiedFor(b) : payment[q].amount = payment'[q].amount
    BY DEF VerifiedFor
  <2>3. SumOf(payment, VerifiedFor(b)) = SumOf(payment', VerifiedFor(b))
    BY <2>2, FiniteSums, SameAmounts
  <2>4. QED
    BY <2>1, <2>3 DEF Books
<1>2. QED
  BY <1>1 DEF Books

\* An amount is settled: one payment more is verified, and paid_total grows by it.
LEMMA SettlingAddsUp ==
  ASSUME LedgerInv, LedgerInv', Books,
         NEW b \in Bookings, NEW p \in Payments, NEW amount \in Amounts,
         \/ payment[p].status = "pending" /\ payment[p].booking = b
         \/ payment[p].status = "none",
         booking' = [booking EXCEPT ![b] = Settled(booking[b], amount)],
         payment'[p].status = "verified", payment'[p].booking = b, payment'[p].amount = amount,
         \A q \in Payments \ {p} : payment'[q] = payment[q]
  PROVE  Books'
<1>1. booking[b] \in BookingRow /\ booking \in [Bookings -> BookingRow]
  BY DEF LedgerInv, TypeOK
<1>2. Settled(booking[b], amount).paid = booking[b].paid + amount
  BY <1>1, SettledRow
<1>3. \A q \in Payments : payment[q].amount \in Nat /\ payment'[q].amount \in Nat
  <2>1. \A q \in Payments : payment'[q] \in PaymentRow
    BY DEF LedgerInv, TypeOK
  <2>2. \A q \in Payments : payment'[q].amount \in Amounts \cup {0}
    BY <2>1 DEF PaymentRow
  <2>3. QED
    BY <2>2, FiniteSums, LedgerAssumption
<1>4. ASSUME NEW x \in Bookings
      PROVE  booking'[x].paid = SumOf(payment', VerifiedFor(x)')
  <2>1. CASE x # b
    <3>1. VerifiedFor(x)' = VerifiedFor(x)
      BY <2>1 DEF VerifiedFor
    <3>2. \A q \in VerifiedFor(x) : payment[q].amount = payment'[q].amount
      BY DEF VerifiedFor
    <3>3. SumOf(payment, VerifiedFor(x)) = SumOf(payment', VerifiedFor(x))
      BY <3>2, FiniteSums, SameAmounts
    <3>4. booking'[x] = booking[x]
      BY <1>1, <2>1
    <3>5. QED
      BY <3>1, <3>3, <3>4 DEF Books
  <2>2. CASE x = b
    <3> DEFINE old == VerifiedFor(b)
               new == VerifiedFor(b)'
    <3>1. new = old \cup {p} /\ p \notin old /\ new \subseteq Payments
      BY DEF VerifiedFor
    <3>2. \A q \in old : payment[q].amount = payment'[q].amount
      BY DEF VerifiedFor
    <3>3. IsFiniteSet(old) /\ booking[b].paid = SumOf(payment, old)
      BY FiniteSums DEF Books
    <3> HIDE DEF old, new
    <3>4. IsFiniteSet(new) /\ new \ {p} = old /\ p \in new
      BY <3>1, <3>3, FS_AddElement
    <3>5. SumOf(payment', new) = payment'[p].amount + SumOf(payment', new \ {p})
      BY <1>3, <3>1, <3>4, SumWithout
    <3>6. SumOf(payment, old) = SumOf(payment', old)
      BY <3>2, <3>3, SameAmounts
    <3>7. booking'[b].paid = booking[b].paid + amount
      BY <1>1, <1>2
    <3>8. booking[b].paid \in Nat /\ amount \in Nat
      BY <1>1, LedgerAssumption DEF BookingRow
    <3>9. SumOf(payment', new) = amount + booking[b].paid
      BY <3>3, <3>4, <3>5, <3>6
    <3>10. QED
      BY <2>2, <3>7, <3>8, <3>9 DEF new
  <2>3. QED
    BY <2>1, <2>2
<1>5. QED
  BY <1>4 DEF Books

\* Every step keeps the books.
LEMMA BooksNextInv ==
  LedgerInv /\ LedgerInv' /\ Books /\ [Next]_vars => Books'
<1> SUFFICES ASSUME LedgerInv, LedgerInv', Books, [Next]_vars
             PROVE  Books'
  OBVIOUS
<1>1. booking \in [Bookings -> BookingRow] /\ payment \in [Payments -> PaymentRow]
  BY DEF LedgerInv, TypeOK
<1>2. ASSUME NEW p \in Payments, NEW amount \in Amounts, NEW b \in Bookings, Upload(b, p, amount)
      PROVE  Books'
  <2>1. WithReceipt(booking[b]).paid = booking[b].paid
    BY <1>1, <1>2, ReceiptRow DEF Upload
  <2>2. \A x \in Bookings : booking'[x].paid = booking[x].paid
    BY <1>1, <1>2, <2>1 DEF Upload
  <2>3. \A q \in Payments : /\ payment[q].status = "verified" => payment'[q] = payment[q]
                            /\ payment'[q].status = "verified" => payment[q].status = "verified"
    BY <1>1, <1>2 DEF Upload
  <2>4. QED
    BY <2>2, <2>3, NoMoneyMoves
<1>3. ASSUME NEW p \in Payments, NEW amount \in Amounts,
             Verify(p, amount) \/ \E b \in Bookings : Record(b, p, amount)
      PROVE  Books'
  BY <1>3, VerifyOrRecordSettles, SettlingAddsUp
<1>4. ASSUME NEW p \in Payments, Reject(p)
      PROVE  Books'
  <2> DEFINE b == payment[p].booking
             row == WithRejection(booking[b], OthersPending(p))
  <2>1. b \in Bookings
    BY <1>4 DEF Reject, LedgerInv, NamesItsBooking
  <2>2. row.paid = booking[b].paid
    BY <1>1, <2>1, CountsAreNaturals, RejectedRow
  <2>3. booking' = [booking EXCEPT ![b] = row]
    BY <1>4 DEF Reject
  <2> HIDE DEF b, row
  <2>4. \A x \in Bookings : booking'[x].paid = booking[x].paid
    BY <1>1, <2>2, <2>3
  <2>5. \A q \in Payments : /\ payment[q].status = "verified" => payment'[q] = payment[q]
                            /\ payment'[q].status = "verified" => payment[q].status = "verified"
    BY <1>1, <1>4 DEF Reject, PaymentRow
  <2>6. QED
    BY <2>4, <2>5, NoMoneyMoves
<1>5. ASSUME \/ \E b \in Bookings : Cancel(b) \/ HoldLapses(b)
             \/ \E bs \in SUBSET Bookings : ExpireHolds(bs)
             \/ UNCHANGED vars
      PROVE  Books'
  <2>1. payment' = payment
    BY <1>5 DEF Cancel, HoldLapses, ExpireHolds, vars
  <2>2. ASSUME NEW x \in Bookings PROVE booking'[x].paid = booking[x].paid
    <3>1. booking[x] \in BookingRow
      BY <1>1
    <3>2. CASE \E b \in Bookings : Cancel(b)
      <4>1. \/ booking'[x] = booking[x]
            \/ booking'[x] = [booking[x] EXCEPT !.status = "cancelled", !.reason = "admin"]
        BY <1>1, <3>2 DEF Cancel
      <4>2. QED
        BY <3>1, <4>1 DEF BookingRow
    <3>3. CASE \E b \in Bookings : HoldLapses(b)
      <4>1. booking'[x] = booking[x] \/ booking'[x] = [booking[x] EXCEPT !.hold = "lapsed"]
        BY <1>1, <3>3 DEF HoldLapses
      <4>2. QED
        BY <3>1, <4>1 DEF BookingRow
    <3>4. CASE \E bs \in SUBSET Bookings : ExpireHolds(bs)
      <4>1. booking'[x] = booking[x] \/ booking'[x] = [booking[x] EXCEPT !.status = "expired"]
        BY <1>1, <3>4 DEF ExpireHolds
      <4>2. QED
        BY <3>1, <4>1 DEF BookingRow
    <3>5. CASE UNCHANGED vars
      BY <3>5 DEF vars
    <3>6. QED
      BY <1>5, <3>2, <3>3, <3>4, <3>5
  <2>3. QED
    BY <2>1, <2>2, NoMoneyMoves
<1>6. QED
  BY <1>2, <1>3, <1>4, <1>5 DEF Next

-----------------------------------------------------------------------------
(* The theorems.                                                           *)

\* Every row keeps its type: in particular a booking only ever has one of
\* the five statuses that the program writes.
THEOREM RowsKeepTheirTypes == Spec => []TypeOK
BY LedgerInvHolds, PTL DEF LedgerInv

\* No receipt ever waits on a booking that can expire.
THEOREM WaitingReceiptsAreSafe == Spec => []WaitingReceiptStopsTheHold
BY LedgerInvHolds, PTL DEF LedgerInv

\* A guest's booking is confirmed once, and only once, its deposit is covered.
THEOREM TheDepositDecides == Spec => []DepositDecides
BY LedgerInvHolds, PTL DEF LedgerInv

\* Money is neither lost nor counted twice, whatever is paid in parts,
\* corrected or recorded by hand.
THEOREM MoneyIsCountedOnce == Spec => []PaidTotalIsWhatWasVerified
<1>1. Init => Books
  <2> SUFFICES ASSUME Init, NEW b \in Bookings PROVE booking[b].paid = SumOf(payment, VerifiedFor(b))
    BY DEF Books
  <2>1. VerifiedFor(b) = {} /\ booking[b].paid = 0
    BY DEF Init, VerifiedFor, NoPayment, NewBooking
  <2>2. SumOf(payment, {}) = 0
    BY FS_EmptySet, SumUnfolds
  <2>3. QED
    BY <2>1, <2>2
<1>2. Spec => []Books
  BY <1>1, BooksNextInv, LedgerInvHolds, PTL DEF Spec
<1>3. QED
  BY <1>2, BooksAreThose, PTL

\* The counter on the booking counts its rejected receipts, and two cancel it.
THEOREM TwoRejectionsDoCancel == Spec => []TwoRejectionsCancel
BY LedgerInvHolds, PTL DEF LedgerInv

\* Dates are released by a lapsed hold nobody paid into, by an admin or by the
\* second rejection, and once released they stay so.
THEOREM DatesAreReleasedForAReason == Spec => DatesReleasedOnlyForAReason
BY StepsRelease, LedgerInvHolds, PTL DEF Spec, DatesReleasedOnlyForAReason, ReleaseStep

\* A receipt is judged once, and its amount is settled at most once.
THEOREM ReceiptsAreCheckedOnce == Spec => CheckedOnce
BY StepsCheckOnce, LedgerInvHolds, PTL DEF Spec, CheckedOnce, CheckedStep
=============================================================================
