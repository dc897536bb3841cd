\* The plugin's store objects: the worker overwrites a reported stop.
SPECIFICATION FairSpec
CONSTANTS
  r1 = r1  r2 = r2  s1 = s1  s2 = s2
  Runs = {r1}
  Stoppers = {s1}
  Recoverer = Recoverer
  Nobody = Nobody
  Instances <- Objects
  Instance <- ObjectPerCall
  IoFailures = 0
  MaxCrashes = 0
CHECK_DEADLOCK FALSE
INVARIANT StopWins
