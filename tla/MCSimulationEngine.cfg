CONSTANTS
  Duration = 2
  MaxTime = 5
  Seed = 1
  InitialData = 0
  CopyThrows = {TRUE, FALSE}
  MaxSystems = 2
  MaxEvents = 0
  Inputs = {"safe", "risky"}
  Data <- MCData
  Systems <- MCSystems
  Draws <- MCDraws
  Run <- MCRun
  Adapters <- MCAdapters
  PayloadVersion <- MCPayloadVersion
  Supports <- MCSupports
  CapturePayload <- MCCapturePayload
  RestoreData <- MCRestoreData
  Imported <- MCImported
SPECIFICATION Spec
INVARIANTS
  TypeOK
  CapturesAreRestorable
  RestoredRunsContinue
PROPERTIES
  RefusedCallsChangeNothing
