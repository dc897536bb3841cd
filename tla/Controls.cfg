\* Two operators, three controls, one resumption, one write cut short or one log that
\* cannot be opened for a while.
SPECIFICATION ControlSpec
CONSTANTS
  Operators = {o1, o2}
  o1 = o1  o2 = o2
  Setups <- MCSetups
  MaxGens = 2
  MaxIssues = 3
  MaxFaults = 1
SYMMETRY OperatorsAlike
CHECK_DEADLOCK FALSE
INVARIANTS OneLossPerCut NoWorkAfterStop DecisionGoverns
