SPECIFICATION FairSpec
CONSTANTS
  Sweeps = {"sweep"}
  Flush = "flush"
  Keys = {"SENT-1"}
  Agents = {"a1", "a2"}
  DegradedAfter = 3
  Budget = 2
  MaxRestarts = 1
INVARIANTS
  IInv
PROPERTIES
  PauseSticks
  BudgetPauseIsDue
  BudgetStopsDispatch
  GateLifts
  OutageComesToRest
