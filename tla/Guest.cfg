\* Three calls, spread over one or two blocks in any way; any of them may fail.
SPECIFICATION GuestFairSpec
CONSTANTS
  Tasks = {t1, t2, t3}
  Groups = {g1, g2}
  MaxParallel = 2
CHECK_DEADLOCK FALSE
INVARIANT ReceiversFed
PROPERTY GuestFinishes
