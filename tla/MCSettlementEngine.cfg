CONSTANTS
  MaxTick = 4
  MaxI64 = 7
  MaxU32 = 3
  MaxRecords = 2
  Config <- MCConfig
  Commands <- MCCommands
  SnapshotPolicies <- MCSnapshotPolicies
  ValidationPolicies = {"TickBoundary", "EveryPhase"}
  Imported <- MCImported
SPECIFICATION Spec
INVARIANTS
  TypeOK
  StockConserved
  DemandBooked
  OnlyFullStoresAreRefused
  VisibleStateIsRestorable
  HalfTickIsRefused
