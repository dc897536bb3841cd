\* Two calls, two refused writes, two tries to finish, both stores in every mode.
SPECIFICATION Spec
CONSTANTS
  c1 = c1  c2 = c2
  Calls = {c1, c2}
  Setups <- MCSetups
  MaxFaults = 2
  MaxFinishes = 2
CHECK_DEADLOCK FALSE
INVARIANTS LossBounded JournalInOrder FinishedIsWhole NotedIsReplayable
