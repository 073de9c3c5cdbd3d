SPECIFICATION FairSpec
CONSTANTS
  k1 = k1
  k2 = k2
  NoKey = NoKey
  Keys <- OneKey
  HomeKeys <- NoKeys
  LegacyKeys <- NoKeys
  Threads = 2
  RetrySteps = 2
  MaxCreates = 2
  MaxEdits = 1
  MaxFaults = 0
  MaxRestarts = 0
  MaxFlips = 0
  MaxLag = 1
PROPERTIES
  StatusConverges
  DeletionCompletes
  DeploymentsRemoved
CHECK_DEADLOCK FALSE
