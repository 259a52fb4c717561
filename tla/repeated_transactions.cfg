CONSTANTS
  Supply <- TwoIDs
  PoolCap <- Capacity
  Turn = 1
  MaxTicks = 2
  MaxTx = 2
SPECIFICATION Spec
INVARIANTS
  ReadersReadOn
CHECK_DEADLOCK FALSE
