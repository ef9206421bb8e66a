CONSTANTS
  Symbols = {btc}
  MaxMinute = 2
  Instances = {c1}
  ReadCount = 2
  RedisAttempts = 2
  MaxFaults = 0
  MaxPending = 2
  MaxStarts = 2
SPECIFICATION Spec
INVARIANTS
  StopLeavesNothingPending
CHECK_DEADLOCK FALSE
