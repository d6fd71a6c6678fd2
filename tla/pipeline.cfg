SPECIFICATION GroupSpec
CHECK_DEADLOCK FALSE
CONSTANTS
  f1 = f1
  f2 = f2
  Flavor <- Flavors
  None = None
  NoEntry = NoEntry
  r1 = r1
  r2 = r2
  r3 = r3
  Run <- Runs
  Changes <- AllChanges
INVARIANTS
  MatrixExact
  EntriesTraceable
PROPERTIES
  ImplementsLockRegister
  GroupDrains
