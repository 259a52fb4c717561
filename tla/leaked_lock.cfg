CONSTANTS
  n1007 = n1007
  n1008 = n1008
  n1009 = n1009
  n1010 = n1010
  NodeTable = {n1007, n1008, n1009, n1010}
  Client = n1007
  Primary = n1008
  Chains = {"main"}
  MaxBlocks = 1
  Period = 10
  MayCrash = {}
  MaxCrashes = 0
SPECIFICATION FairSpec
PROPERTIES
  EveryMessageHandled
CHECK_DEADLOCK FALSE
