SPECIFICATION PFairSpec
CONSTANTS
  b1 = b1
  b2 = b2
  p1 = p1
  p2 = p2
  p3 = p3
  h1 = h1
  h2 = h2
  NoBooking = NoBooking
  NoOne = NoOne
  Sweeper = Sweeper
  Bookings <- TwoBookings
  Manual <- NoManual
  Payments <- TwoPayments
  Handlers <- TwoHandlers
  Deposit = 2
  Amounts <- HalfOnly
INVARIANTS RequestsTypeOK ReceiptIsStored ReadsStillTrue
PROPERTIES ImplementsLedger UnpaidHoldEnds EveryRequestEnds
CHECK_DEADLOCK FALSE
