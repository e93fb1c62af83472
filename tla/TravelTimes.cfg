SPECIFICATION Spec
CONSTANTS
  c1 = c1
  c2 = c2
  r1 = r1
  r2 = r2
  Cameras <- MCCameras
  Chainage <- MCChainage
  Routes <- MCRoutes
  Readings <- MCReadings
  Waves <- MCWaves
  Gaps <- MCGaps
  ClockSteps = {1, 12}
  Hour = 12
  Corridor = 12
  Default = 110
  Alpha = 10
  MinSegments = 2
  HighSegments = 3
  MinSamples = 2
  MaxCorrection = 1
  MatchExpiry = 6
  LateTolerance = 1
  NoSpeed = NoSpeed
  Start = 30
  MaxTicks = 3
  MaxFaults = 1
INVARIANTS
  TypeOK
  LearnedFromHistory
  AdaptedFromMeasurements
  CorrectionsAreBacked
CHECK_DEADLOCK FALSE
