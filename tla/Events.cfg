\* Two producers racing and retrying, two writes cut short, a restarting consumer.
SPECIFICATION EventsFairSpec
CONSTANTS
  e1 = e1  e2 = e2  e3 = e3  c1 = c1  c2 = c2
  Ids = {e1, e2}
  Consumers = {c1}
  Wanted <- MCWanted
  Producers = {p1, p2}
  MaxCuts = 2
INVARIANT LossesAreCuts
PROPERTIES ImplementsStream WaitAnswered
