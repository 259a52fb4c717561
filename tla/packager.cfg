CONSTANTS
  Inputs <- SomeSets
  MaxSets = 4
  MaxTx = 2
  SetCap = 2
  Turn = 2
SPECIFICATION FairSpec
INVARIANTS
  TypeOK
PROPERTIES
  HeldOnlyGrowsBySets
  SetsAreReceived
