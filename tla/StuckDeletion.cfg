SPECIFICATION ResyncSpec
CONSTANTS
  k1 = k1
  k2 = k2
  NoKey = NoKey
  Keys <- OneKey
  HomeKeys <- OneKey
  LegacyKeys <- NoKeys
  Threads = 2
  RetrySteps = 2
  MaxCreates = 1
  MaxEdits = 0
  MaxFaults = 1
  MaxRestarts = 0
  MaxFlips = 0
  MaxLag = 2
PROPERTIES
  DeletionCompletes
CHECK_DEADLOCK FALSE
