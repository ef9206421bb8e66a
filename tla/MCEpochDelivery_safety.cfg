CONSTANTS
  Symbols = {btc, eth}
  MaxMinute = 2
  Instances = {c1, c2}
  ReadCount = 2
  RedisAttempts = 2
  MaxFaults = 2
  MaxPending = 3
  MaxStarts = 3
SPECIFICATION Spec
SYMMETRY Symmetry
INVARIANTS
  TypeOK
  AcceptedExactly
  AckedOnlyCompleted
  StatusIsTruthful
  StopLeavesNothingOpen
  CompletesInOrder
PROPERTIES
  DuplicateHasNoEffect
  ImplementsBarDelivery
CHECK_DEADLOCK FALSE
