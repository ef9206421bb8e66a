CONSTANTS
  Runs = {r1}
  NoRun = none
  Past = past
  Symbols = {btc, eth}
  Partial <- PartialAnchors
  Histories <- AnyHost
  AppendLimit = 2
  MaxBatches = 2
  MaxStatusAge = 1
  MaxMinute = 3
  MaxFaults = 1
  AdmitsPause = FALSE
  MaxCatchup = 2
  MaxBootMinute = 4
  MaxBootFaults = 3
SPECIFICATION PartSpec
PROPERTIES
  RunsEnd
  BootEnds
CHECK_DEADLOCK FALSE
