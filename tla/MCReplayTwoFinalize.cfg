CONSTANTS
  MaxTick = 100
  MaxFaults = 1
  Seeds = {1, 2}
  Commands = {1, 3}
  Plan <- TwoFinalizePlan
  Data <- MCData
  Configs <- MCConfigs
  Inputs <- MCInputs
  Step <- MCStep
  Accepts <- MCAccepts
  Restorable <- MCRestorable
SPECIFICATION Spec
INVARIANT
  RecordModeEmits
