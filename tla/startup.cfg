CONSTANTS
  Procs = {p1, p2, p3, p4}
  N = 2
  Present = {"log"}
  NoProc = NoProc
  MaxCrashes = 1
  Accounts = {a1, a2}
  Keep = 1
  Devices = 3
  MaxAmount = 2
  MaxBatch = 2
  MaxCalls = 2
SPECIFICATION SystemSpec
INVARIANTS
  TypeOK
  UniqueIds
  StartedWithGenesis
  SomeStartGoesOn
  UnitsConserved
  ReservationsBacked
PROPERTIES
  EveryStartEnds
CHECK_DEADLOCK FALSE
