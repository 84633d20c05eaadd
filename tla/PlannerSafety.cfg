SPECIFICATION PFairSpec
CONSTANTS
  MonthLength = 1
  NoDate = NoDate
  NoQuote = NoQuote
  Dates <- ThreeDates
  Today = 0
  MaxGuests = 2
  MaxCalls = 2
  MaxBooked = 1
INVARIANTS PTypeOK PriceCatchesUp BookedAfterPriced BusyMeansOneAction
PROPERTIES ConfirmIsAnswered
CHECK_DEADLOCK FALSE
