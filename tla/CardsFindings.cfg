\* Card state of two processes, a cut append, one byte for two waiters: tlc -continue shows each violation.
SPECIFICATION CardsFairSpec
CONSTANTS
  Parents = {p1, p2}
  Publishers = {g1, g2}
  p1 = p1  p2 = p2  g1 = g1  g2 = g2
  Setups <- MCFindings
  Outcomes = {"invalid", "blocked"}
  MaxStarts = 2
  MaxEvents = 2
  MaxFaults = 1
CHECK_DEADLOCK FALSE
INVARIANTS CardsTypeOK DamageIsIsolated
PROPERTIES NeverRegressed AllWokenWhenNotified
