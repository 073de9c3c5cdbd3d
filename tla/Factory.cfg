SPECIFICATION FairSpec
CONSTANTS
  c1 = c1
  c2 = c2
  servings = servings
  deployments = deployments
  NoCaller = NoCaller
  NoType = NoType
  Callers <- TwoCallers
  Types <- TwoTypes
INVARIANTS
  TypeOK
  OneInformer
  RunsOnce
  WaitTellsTheTruth
  FactoryInv
PROPERTIES
  CallsReturn
