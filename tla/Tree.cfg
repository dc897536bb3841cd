\* Nine workflows of ten or eleven steps, controls at any moment, failures anywhere.
SPECIFICATION Spec
CONSTANTS
  Workflows <- MCWorkflows
  MaxTaskStops = 1
  Values = {"yes", "no"}
CHECK_DEADLOCK FALSE
INVARIANTS RecordTellsTheTree BudgetHolds ScopeHolds
