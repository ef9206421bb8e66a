CONSTANTS
  Symbols = {btc}
  MaxMinute = 2
  Instances = {c1}
  ReadCount = 2
  RedisAttempts = 2
  MaxFaults = 2
  MaxPending = 1
  MaxStarts = 3
SPECIFICATION FairSpec
PROPERTIES
  EnqueuedIsCompleted
  ServingEnds
CHECK_DEADLOCK FALSE
