SPECIFICATION Spec
CONSTANTS
  k1 = k1
  k2 = k2
  NoKey = NoKey
  Keys <- TwoKeys
  HomeKeys <- OneKey
  LegacyKeys <- OneKey
  Threads = 2
  RetrySteps = 2
  MaxCreates = 1
  MaxEdits = 0
  MaxFaults = 0
  MaxRestarts = 0
  MaxFlips = 0
  MaxLag = 1
PROPERTIES
  BindOnlyExistingRoles
CHECK_DEADLOCK FALSE
