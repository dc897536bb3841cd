\* Two actions, a budget, two signals and two resources.
SPECIFICATION FairSpec
CONSTANTS
  MaxSteps = 2
  MaxRepeated = 2
  MaxRetries = 1
  MaxCost = 1
  Costs = {0, 2}
  Signals = {"red", "amber"}
  Finalizers <- TwoResources
CHECK_DEADLOCK FALSE
INVARIANTS BrakesHold CleanupMatchesVerdict
PROPERTY LoopReturns
