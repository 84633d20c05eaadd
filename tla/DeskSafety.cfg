SPECIFICATION DeskFairSpec
CONSTANTS
  MonthLength = 2
  NoDate = NoDate
  u1 = u1
  u2 = u2
  k1 = k1
  NoUnit = NoUnit
  NoBlock = NoBlock
  Units <- TwoUnits
  Blocks <- OneBlock
  Dates <- ThreeDates
  Today = 1
  Window = 2
  Week = 2
  MaxAsked = 2
  MaxBooked = 1
INVARIANTS DeskTypeOK StayFitsTheUnit
PROPERTIES UnblockedIsGone PickerOpens
CHECK_DEADLOCK FALSE
