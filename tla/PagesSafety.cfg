SPECIFICATION ScenesSpec
CONSTANTS
  b1 = b1
  b2 = b2
  p1 = p1
  p2 = p2
  p3 = p3
  p4 = p4
  NoBooking = NoBooking
  NoOne = NoOne
  Ours = b1
  Bookings <- GuestAndManual
  Manual <- ManualBooking
  Payments <- FourPayments
  Deposit = 2
  Amounts <- HalfOrFull
INVARIANTS TypeOK WaitingReceiptStopsTheHold PaidTotalIsWhatWasVerified DepositDecides TwoRejectionsCancel ToastIsTrue
PROPERTIES DatesReleasedOnlyForAReason CheckedOnce SentReceiptShows
CHECK_DEADLOCK FALSE
