CONSTANTS
  NumTx = 2
  Turn = 2
  MaxMain = 3
  MaxSide = 2
SPECIFICATION Spec
PROPERTIES
  BothAreMapped
CHECK_DEADLOCK FALSE
