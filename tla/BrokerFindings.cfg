\* What comments of vm.py say and a replay or a schema retry does not do: run with -continue.
SPECIFICATION Spec
CONSTANTS
  Setups <- MCFindings
  Costs = {0, 2}
CHECK_DEADLOCK FALSE
INVARIANTS TypeOK NotEnforcedAgain FailuresReplay SpendCounted LostLineIsSafe DenialsCountAlike
