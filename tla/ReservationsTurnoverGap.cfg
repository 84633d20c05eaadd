SPECIFICATION Spec
CONSTANTS
  g1 = g1
  g2 = g2
  m1 = m1
  k1 = k1
  k2 = k2
  NoRequest = NoRequest
  WebBookings <- TwoGuests
  ManualBookings <- NoOne
  BlockRequests <- NoOne
  Days <- ThreeNights
  Buffers <- OneNight
INVARIANTS TurnoverAfterEachStay
CHECK_DEADLOCK FALSE
