\* Schedules, prompts, cards and replays of replays: tlc -continue shows each violation.
SPECIFICATION Spec
CONSTANTS
  Chains <- FindingChains
  Values = {1}
  MayFail = FALSE
  TornWrites = TRUE
CHECK_DEADLOCK FALSE
INVARIANTS TypeOK NoDrift OneCardPerStep OneChildPerPrompt CacheLoads SourceNotRedone
