SPECIFICATION FairSpec
CONSTANTS
  g1 = g1
  g2 = g2
  m1 = m1
  k1 = k1
  k2 = k2
  NoRequest = NoRequest
  WebBookings <- Guest
  ManualBookings <- NoOne
  BlockRequests <- TwoBlocks
  Days <- TwoNights
  Buffers <- OneNight
PROPERTIES ImplementsCalendar EveryRequestAnswered
CHECK_DEADLOCK FALSE
