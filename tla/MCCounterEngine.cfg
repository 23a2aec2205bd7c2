CONSTANTS
  MaxU64 = 5
  MaxI64 = 7
  MaxByte = 2
  MaxRecords = 3
  Config <- MCConfig
  EntropyAt <- MCEntropyAt
  Commands <- MCCommands
  SnapshotPolicies <- MCSnapshotPolicies
  ValidationPolicies = {"TickBoundary", "EveryPhase"}
  Imported <- MCImported
SPECIFICATION Spec
INVARIANTS
  TypeOK
  CommittedTicksAddUp
  TickIsAFunction
  OnlyLimitsAreRefused
  StagedDeltaWithinLimit
  HalfTickIsRefused
