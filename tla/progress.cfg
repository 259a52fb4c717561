CONSTANTS
  n1007 = n1007
  n1008 = n1008
  n1009 = n1009
  n1010 = n1010
  n1011 = n1011
  NodeTable = {n1007, n1008, n1009, n1010, n1011}
  Client = n1007
  Primary = n1008
  Chains = {"main"}
  MaxBlocks = 1
  Period = 10
  MayCrash = {n1011}
  MaxCrashes = 1
  Punctual = {n1008, n1009, n1010, n1011}
SPECIFICATION FairTimelySpec
PROPERTIES
  RoundCompletes
  EveryLiveReplicaCommits
CHECK_DEADLOCK FALSE
