CONSTANTS
  MaxTick = 3
  Commands = {"x"}
  Names = {"p"}
  MaxRecords = 2
  InitialData = "a"
  Data <- MCData
  Plans <- MCPlans
  SnapshotPolicies <- MCSnapshotPolicies
  ValidationPolicies = {"TickBoundary", "EveryPhase"}
  Imported <- MCImported
  Run <- MCRun
  Accepts <- MCAccepts
  Restorable <- MCRestorable
SPECIFICATION FairSpec
INVARIANTS
  TypeOK
  RecordChain
  IdleStateIsCommitted
  CommittedStateAccepted
PROPERTIES
  FailureIsFinal
  ImplementsContract
  TickReturns
