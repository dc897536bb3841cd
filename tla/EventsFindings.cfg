\* What the event store does against its documents: tlc -continue shows each violation.
SPECIFICATION EventsFairSpec
CONSTANTS
  e1 = e1  e2 = e2  e3 = e3  c1 = c1  c2 = c2
  Ids = {e1, e2, e3}
  Consumers = {c1}
  Wanted <- MCWanted
  Producers = {p1}
  MaxCuts = 1
INVARIANTS EventsTypeOK VersionsNameOne AckedStaysStored
PROPERTIES TimeoutMeansNoEvent
