SPECIFICATION Spec
CONSTANTS
  StaleAfter = 2
  Offset = 0
  FreeFlowFactor <- MCFreeFlow
  CapacityFactor <- MCCapacity
  PollInterval = 2
  Lookahead = 4
  Steps <- MCSteps
  Weathers <- MCWeathers
  Gantries <- MCGantries
  Stations <- MCStations
  Roads <- MCRoads
  SoonLead = 2
  TickGaps <- MCGaps
  Horizon = 7
  MaxFaults = 2
INVARIANTS
  TypeOK
  Anticipated
  EscalationOnly
  NoticeGiven
CHECK_DEADLOCK FALSE
