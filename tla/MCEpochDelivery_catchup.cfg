CONSTANTS
  Symbols = {btc}
  MaxMinute = 4
  Instances = {c1}
  ReadCount = 2
  RedisAttempts = 2
  MaxFaults = 2
  MaxPending = 2
  MaxStarts = 3
SPECIFICATION Spec
INVARIANTS
  CatchupIsOrderly
CHECK_DEADLOCK FALSE
