\* A boot event of a begin that failed, an event after a torn line, a late call, a
\* cache line cut short.
SPECIFICATION Spec
CONSTANTS
  c1 = c1  c2 = c2
  Calls = {c1, c2}
  Setups <- MCEager
  MaxFaults = 2
  MaxFinishes = 2
CHECK_DEADLOCK FALSE
INVARIANTS BootsOnce LateIsStored NotedStaysReadable CrashLeavesPrefix
