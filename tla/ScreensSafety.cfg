SPECIFICATION ScreensSpec
CONSTANTS
  MaxHistory = 5
  MaxImages = 3
  MaxSort = 0
  MaxTasks = 2
  sea = sea
  pool = pool
  title = title
  emoji = emoji
  draft = draft
  live = live
  north = north
  south = south
  marina = marina
  reef = reef
  gone = gone
  lagoon = lagoon
  villa = villa
  Texts <- TwoTexts
  Options <- TwoOptions
  Empty = Empty
  Nowhere = Nowhere
  MaxActs = 4
  Inputs <- FourInputs
  Slugify <- SlugOf
  NoText = NoText
  MaxChecks = 2
  Areas <- TwoAreas
  Compounds <- ThreeCompounds
  Listed <- TwoListed
  Distances <- OneDistance
  Arrivals <- Addresses
  Kinds <- OneKind
  AreaOf <- WhichArea
  Units <- ThreeUnits
  NoFilter = NoFilter
  NoAddress = NoAddress
  MaxSleeps = 1
  PageSize = 1
  MaxChanges = 1
  waiting = waiting
  confirmed = confirmed
  Refs <- ThreeRefs
  StayOf <- ThreeStays
  States <- TwoStates
  Days <- TwoDays
  NoChoice = NoChoice
  NoList = NoList
  Letters = Letters
  MaxRows = 2
INVARIANTS EditorTypeOK BackStaysOnTheForm UnsavedIsFlagged ToldAboutThisSlug EmptyMeansNone
PROPERTIES OrderSavedIsTrue CoverChangesWhenAsked BoxAndListAgree FileIsTheList
CHECK_DEADLOCK FALSE
