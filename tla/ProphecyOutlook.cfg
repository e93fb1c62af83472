SPECIFICATION FairOutlook
CONSTANTS
  CameraCount = 2
  Chainage <- MCChainage
  SamePlace = 2
  FreeFlowPerLane = 5
  MinEta = 2
  MaxEta = 6
  Tolerance = 3
  Expiry = 4
  MaxHistory = 3
  Gaps <- MCGaps
  Views <- MCViews
  Queued <- MCQueued
  Healthy <- MCHealthy
  Arrivals <- MCArrivals
  Forecasts <- MCForecasts
  MaxProphecies = 2
  RecordUntil = 5
  Horizon = 25
  MaxFaults = 1
PROPERTY EventuallySettled
INVARIANT VerdictBracketsArrival
CHECK_DEADLOCK FALSE
