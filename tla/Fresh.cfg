SPECIFICATION MetricsSpec
CONSTANTS
  k1 = k1
  NoKey = NoKey
  Keys <- OneKey
  HomeKeys <- OneKey
  LegacyKeys <- NoKeys
  Threads = 2
  RetrySteps = 1
  MaxCreates = 1
  MaxEdits = 1
  MaxFaults = 1
  MaxRestarts = 1
  MaxFlips = 0
  MaxLag = 2
INVARIANTS
  TypeOK
  InstallIsProtected
  ReadyIsProtected
  ReadySumsUp
  NoPhantomChanges
  NamedChangesOnly
  MetricsInv
PROPERTIES
  BindOnlyExistingRoles
CHECK_DEADLOCK FALSE
