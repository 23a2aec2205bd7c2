CONSTANTS
  Duration = 2
  MaxTime = 5
  Seed = 1
  InitialData = 0
  CopyThrows = {FALSE}
  MaxSystems = 2
  MaxEvents = 5
  Inputs = {"safe", "risky"}
  Data <- MCData
  Systems <- MCSystems
  Draws <- MCDraws
  Run <- MCRun
  Adapters <- NoAdapters
  PayloadVersion <- MCPayloadVersion
  Supports <- MCSupports
  CapturePayload <- MCCapturePayload
  RestoreData <- MCRestoreData
  Imported <- FewImported
SPECIFICATION Spec
INVARIANTS
  TraceEndsAtTheClock
  TraceTellsTheSteps
