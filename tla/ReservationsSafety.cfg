SPECIFICATION Spec
CONSTANTS
  g1 = g1
  g2 = g2
  m1 = m1
  k1 = k1
  k2 = k2
  NoRequest = NoRequest
  WebBookings <- Guest
  ManualBookings <- Manual
  BlockRequests <- Block1
  Days <- ThreeNights
  Buffers <- ZeroOrOne
INVARIANTS IInv NightsHeldOnce ConstraintNeverNeeded
PROPERTIES LockProtectsTheUnit TurnoverKeptAfterEarlierStays
CHECK_DEADLOCK FALSE
