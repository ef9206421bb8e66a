CONSTANTS
  Runs = {r1, r2}
  NoRun = none
  AdmitsPause = TRUE
  MaxStatusAge = 1
  MaxCatchup = 2
  MaxMinute = 3
  MaxFaults = 2
SPECIFICATION Spec
INVARIANTS
  TypeOK
  OneBootAtATime
  NoAutomaticRetry
  ServeIsGuarded
  PassIsProgress
PROPERTIES
  EvidenceIsKept
SYMMETRY Symmetry
CHECK_DEADLOCK FALSE
