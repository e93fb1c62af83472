SPECIFICATION Spec
CONSTANTS
  c1 = c1
  c2 = c2
  Cameras <- MCCameras
  KeepDays = 0
  Polled = TRUE
  MaxLines = 3
  LastDay = 1
  MaxFaults = 1
SYMMETRY MCSymmetry
INVARIANTS
  TypeOK
  NoLineLost
  CounterExact
