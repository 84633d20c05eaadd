SPECIFICATION ListSpec
CONSTANTS
  waiting = waiting
  confirmed = confirmed
  Refs <- ThreeRefs
  StayOf <- ThreeStays
  States <- TwoStates
  Days <- TwoDays
  NoChoice = NoChoice
  NoList = NoList
  Letters = Letters
  MaxRows = 2
INVARIANTS DatesFilterTheList
CHECK_DEADLOCK FALSE
