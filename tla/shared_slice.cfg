CONSTANTS
  Supply <- AlikeTxs
  PoolCap <- Capacity
  Turn = 2
  MaxTicks = 2
  MaxTx = 2
SPECIFICATION FairSpec
INVARIANTS
  TypeOK
  IdsAreNotStarved
PROPERTIES
  ReadersReport
CHECK_DEADLOCK FALSE
