CONSTANTS
  n1007 = n1007
  n1008 = n1008
  n1009 = n1009
  n1010 = n1010
  n1011 = n1011
  NodeTable = {n1007, n1008, n1009, n1010, n1011}
  Client = n1007
  Primary = n1008
  main = main
  side = side
  Chains = {main, side}
  MaxBlocks = 2
  Period = 1
  MayCrash = {n1008, n1009, n1010, n1011}
  MaxCrashes = 1
  Punctual = {n1008, n1009, n1010, n1011}
SPECIFICATION TimelySpec
SYMMETRY TimelySymmetry
INVARIANTS
  CommitsOnce
  NoLockLeaked
  LogsAgree
  PunctualTipIsNewest
  ReplicaParentStored
  OpenRoundIsPooled
  RestIsDone
  DecidedIsNotLost
PROPERTIES
  PunctualInSequence
CHECK_DEADLOCK FALSE
