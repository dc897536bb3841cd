\* Lost resources, an early success, a first repetition: tlc -continue shows each violation.
SPECIFICATION FairSpec
CONSTANTS
  MaxSteps = 2
  MaxRepeated = 1
  MaxRetries = 0
  MaxCost = 1
  Costs = {0}
  Signals = {"red", "amber"}
  Finalizers <- OneResource
CHECK_DEADLOCK FALSE
INVARIANTS DeclaredAreRun SavedSuccessIsTrue StalledRepeats
