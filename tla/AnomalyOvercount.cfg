SPECIFICATION Spec
CONSTANTS
  c1 = c1
  c2 = c2
  Cameras <- MCCameras
  KeepDays = 0
  Polled = TRUE
  MaxLines = 2
  LastDay = 0
  MaxFaults = 0
SYMMETRY MCSymmetry
INVARIANTS
  StatusNotAboveLog
