CONSTANTS
  NumTx = 2
  Turn = 2
  MaxMain = 3
  MaxSide = 2
SPECIFICATION FairSpec
INVARIANTS
  TypeOK
  WalkEnds
  PlacesAreDistinct
PROPERTIES
  EarlierMappingsStay
  TurnsEndUnlessAllMapped
CHECK_DEADLOCK FALSE
