CONSTANTS
  Formats <- MCFormats
  Writes <- MCWrites
  Reads <- MCReads
  MaxCount <- MCMaxCount
  Reserving <- ReservingCounts
  MaxCapacity = 2
SPECIFICATION Spec
CHECK_DEADLOCK FALSE
INVARIANTS
  WrittenTextIsRead
  OnlyWrittenTextIsAccepted
  RefusalTellsTheEdit
