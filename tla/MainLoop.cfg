SPECIFICATION FairSpec
CONSTANTS
  c1 = c1
  c2 = c2
  Cameras <- MCCameras
  Order <- MCOrder
  MaxTicks = 2
  MaxFaults = 1
INVARIANTS
  TypeOK
  ExclusionHolds
PROPERTIES
  ImplementsContract
  EveryTickEnds
  ShutdownFinishes
CHECK_DEADLOCK FALSE
