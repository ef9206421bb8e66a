CONSTANTS
  Sup = {s1, s2}
  NoSup = none
  MaxFaults = 2
SPECIFICATION FairSpec
INVARIANTS
  PassIsComplete
  ReportsAreTrue
  NoForgottenFile
PROPERTIES
  TouchedWithCare
  EndsStoppedOrReported
CHECK_DEADLOCK FALSE
