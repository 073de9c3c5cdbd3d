SPECIFICATION FairStartup
CONSTANTS
  goroutine = goroutine
  k1 = k1
  k2 = k2
  NoCaller = NoCaller
  NoType = NoType
  Main = goroutine
  Callers <- JustMain
  Types <- TwoTypes
  Serving <- TheServing
  Deployment <- TheDeployment
  Keys <- TwoKeys
  Changing <- OneKey
  Threads = 2
  MaxChanges = 2
  MaxFaults = 1
INVARIANTS
  StartupTypeOK
  OneCachePerType
  ExistingIsFound
  NothingOverlooked
  StartupInv
PROPERTIES
  EverythingReconciled
CHECK_DEADLOCK FALSE
