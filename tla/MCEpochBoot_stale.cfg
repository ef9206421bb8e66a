CONSTANTS
  Runs = {r1}
  NoRun = none
  AdmitsPause = TRUE
  MaxStatusAge = 1
  MaxCatchup = 2
  MaxMinute = 4
  MaxFaults = 2
SPECIFICATION Spec
INVARIANTS
  StaleStatusIsExpected
CHECK_DEADLOCK FALSE
