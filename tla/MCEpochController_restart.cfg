CONSTANTS
  Runs = {r1}
  NoRun = none
  Past = past
  Symbols = {btc, eth}
  Partial <- PartialAnchors
  Histories <- FreshHost
  AppendLimit = 2
  MaxBatches = 2
  MaxStatusAge = 1
  MaxMinute = 3
  MaxFaults = 0
SPECIFICATION Spec
INVARIANTS
  RestartIsObserved
CHECK_DEADLOCK FALSE
