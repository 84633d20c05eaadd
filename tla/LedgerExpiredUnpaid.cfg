SPECIFICATION Spec
CONSTANTS
  b1 = b1
  p1 = p1
  p2 = p2
  p3 = p3
  NoBooking = NoBooking
  Bookings <- GuestBooking
  Manual <- NoManual
  Payments <- ThreePayments
  Deposit = 2
  Amounts <- HalfOrFull
SYMMETRY Symmetry
INVARIANTS ExpiredMeansUnpaid
CHECK_DEADLOCK FALSE
