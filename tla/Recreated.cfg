SPECIFICATION Spec
CONSTANTS
  k1 = k1
  k2 = k2
  NoKey = NoKey
  Keys <- OneKey
  HomeKeys <- OneKey
  LegacyKeys <- NoKeys
  Threads = 2
  RetrySteps = 2
  MaxCreates = 2
  MaxEdits = 0
  MaxFaults = 1
  MaxRestarts = 0
  MaxFlips = 0
  MaxLag = 2
INVARIANTS
  ReadyMeansInstalled
  RefetchSafe
  IInv
  ReadyInv
  UninstallInv
  InstalledInv
PROPERTIES
  ReleaseAfterUninstall
  ContractKept
CHECK_DEADLOCK FALSE
