\* A cancelled call and its late frame: tlc -continue shows the violation.
SPECIFICATION GuestFairSpec
CONSTANTS
  Tasks = {t1, t2, t3}
  Groups = {g1, g2}
  MaxParallel = 2
CHECK_DEADLOCK FALSE
INVARIANTS GuestTypeOK CalmLogsAnswered NoDesync
