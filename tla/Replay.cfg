\* One call in each of four branches, branches one at a time, and two calls in
\* each of two branches; failures, crashes and torn writes everywhere.
SPECIFICATION Spec
CONSTANTS
  Chains <- AllChains
  Values = {1, 2}
  MayFail = TRUE
  TornWrites = TRUE
CHECK_DEADLOCK FALSE
INVARIANTS ToldIsRecorded CompletedNotRedone FailsClosed
PROPERTY KeepsPromise
