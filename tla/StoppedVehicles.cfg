SPECIFICATION Spec
CONSTANTS
  c1 = c1
  Cameras <- MCCameras
  Spots <- MCSpots
  Near = 1
  RequiredTicks = 3
  MaxMissed = 1
  Alpha = 40
  Critical = 25
  Frames <- MCFrames
  MaxTicks = 6
INVARIANTS
  TypeOK
  HitsAreTicks
  GapsAreShort
  StillIsReported
  ForcedOnce
CHECK_DEADLOCK FALSE
