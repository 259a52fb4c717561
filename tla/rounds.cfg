CONSTANTS
  n1007 = n1007
  n1008 = n1008
  n1009 = n1009
  n1010 = n1010
  NodeTable = {n1007, n1008, n1009, n1010}
  Client = n1007
  Primary = n1008
  Chains = {"main", "side"}
  MaxBlocks = 2
  Period = 1
  MayCrash = {n1008, n1009, n1010}
  MaxCrashes = 3
SPECIFICATION Spec
SYMMETRY BackupSymmetry
INVARIANTS
  TypeOK
  WaitGroupCountsRounds
  EarlierRoundsDecided
  CommitCertificate
  PrimaryParentStored
PROPERTIES
  LedgerSpec
  WorkRunsOut
CHECK_DEADLOCK FALSE
