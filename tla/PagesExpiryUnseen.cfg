SPECIFICATION PagesFairSpec
CONSTANTS
  b1 = b1
  p1 = p1
  p2 = p2
  NoBooking = NoBooking
  NoOne = NoOne
  Ours = b1
  Bookings <- OneBooking
  Manual <- NoManual
  Payments <- NoPayments
  Deposit = 2
  Amounts <- HalfOrFull
PROPERTIES ExpiryShowsWithoutReload
CHECK_DEADLOCK FALSE
