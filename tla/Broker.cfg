\* Scripts of three or four rounds, up to two calls at a time, loose and tight limits.
SPECIFICATION Spec
CONSTANTS
  Setups <- MCSetups
  Costs = {0, 2}
CHECK_DEADLOCK FALSE
INVARIANTS OvershootBounded ViewsAgree ReplayAgrees
