CONSTANTS
  Runs = {r1, r2}
  NoRun = none
  Past = past
  Symbols = {btc, eth}
  Partial <- PartialAnchors
  Histories <- AnyHost
  AppendLimit = 2
  MaxBatches = 2
  MaxStatusAge = 1
  MaxMinute = 4
  MaxFaults = 2
SPECIFICATION Spec
INVARIANTS
  TypeOK
  OneOwner
  FailureStopsWorkers
  PublishedIsBackedUp
  PassIsLive
  CatchupIsExact
PROPERTIES
  ForensicsKept
SYMMETRY Symmetry
CHECK_DEADLOCK FALSE
