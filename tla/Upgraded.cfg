SPECIFICATION ResyncSpec
CONSTANTS
  k1 = k1
  k2 = k2
  NoKey = NoKey
  Keys <- OneKey
  HomeKeys <- OneKey
  LegacyKeys <- OneKey
  Threads = 2
  RetrySteps = 1
  MaxCreates = 1
  MaxEdits = 0
  MaxFaults = 1
  MaxRestarts = 1
  MaxFlips = 1
  MaxLag = 2
PROPERTIES
  StatusConverges
CHECK_DEADLOCK FALSE
