CONSTANTS
  Names = {"a", "b"}
  MaxPhases = 4
SPECIFICATION Spec
INVARIANTS
  PlanMatchesVisit
  GroupedAndStable
CHECK_DEADLOCK FALSE
