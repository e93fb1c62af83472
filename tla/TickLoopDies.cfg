SPECIFICATION Spec
CONSTANTS
  c1 = c1
  c2 = c2
  Cameras <- MCCameras
  Order <- MCOrder
  MaxTicks = 2
  MaxFaults = 1
CHECK_DEADLOCK FALSE
INVARIANT NoRestartNeeded
