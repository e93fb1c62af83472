SPECIFICATION Spec
CONSTANTS
  StaleAfter = 2
  Offset = 8
  FreeFlowFactor <- MCFreeFlow
  CapacityFactor <- MCCapacity
  PollInterval = 2
  Lookahead = 4
  Steps <- MCSteps
  Weathers <- MCWeathers
  Gantries <- MCGantries
  Stations <- MCStations
  Roads <- MCRoads
  SoonLead = 2
  TickGaps <- MCGaps
  Horizon = 8
  MaxFaults = 2
INVARIANT FreshSampleCounts
CHECK_DEADLOCK FALSE
