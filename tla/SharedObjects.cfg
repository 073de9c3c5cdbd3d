SPECIFICATION Spec
CONSTANTS
  Ids = {1, 2, 3, 4, 5, 6}
  MaxWrites = 1
INVARIANTS
  CopiesArePrivate
  CacheAsDelivered
  SharingInv
