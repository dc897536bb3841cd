\* The reader dies on a cancelled future; the other block waits.
SPECIFICATION GuestFairSpec
CONSTANTS
  Tasks = {t1, t2, t3}
  Groups = {g1, g2}
  MaxParallel = 2
CHECK_DEADLOCK FALSE
PROPERTY EveryCallReturns
