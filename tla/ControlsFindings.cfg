\* A torn control, two retries, edited arguments: tlc -continue shows each violation.
SPECIFICATION ControlSpec
CONSTANTS
  Operators = {o1, o2}
  o1 = o1  o2 = o2
  Setups <- MCSetups
  MaxGens = 2
  MaxIssues = 3
  MaxFaults = 1
CHECK_DEADLOCK FALSE
INVARIANTS ControlTypeOK RetryNotForked ReplaysWhatRan RetryToldIsRecorded LinePerControl AuditTrailWhole
