SPECIFICATION Spec
CONSTANTS
  CameraCount = 4
  Chainage <- MCChainage
  SamePlace = 2
  FreeFlowPerLane = 5
  MinEta = 2
  MaxEta = 6
  Tolerance = 3
  Expiry = 4
  MaxHistory = 3
  Gaps <- MCGaps
  Views <- MCViews
  Forecasts <- MCForecasts
  MaxProphecies = 2
  RecordUntil = 5
  Horizon = 17
  MaxFaults = 1
INVARIANTS
  TypeOK
  StatsMatchBook
  NoSelfConfirmation
  FirstLookDecides
  FeedTellsVerdict
  FileTellsOneStory
PROPERTY ImplementsContract
CHECK_DEADLOCK FALSE
