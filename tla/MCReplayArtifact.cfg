CONSTANTS
  MaxTick = 100
  MaxFaults = 2
  Seeds = {1, 2}
  Commands = {1, 3}
  Plan <- MCPlan
  Data <- MCData
  Configs <- MCConfigs
  Inputs <- MCInputs
  Step <- MCStep
  Accepts <- MCAccepts
  Restorable <- MCRestorable
SPECIFICATION Spec
INVARIANTS
  TypeOK
  RecordModeEmits
  RecordedReplaysRepeat
  VerifiedReplaysAreGenuine
  ResumedReplaysAreGenuine
