\* A write that raises, and a stop the VM sees first: tlc -continue shows each violation.
SPECIFICATION FairSpec
CONSTANTS
  r1 = r1  r2 = r2  s1 = s1  s2 = s2
  Runs = {r1}
  Stoppers = {s1}
  Recoverer = Recoverer
  Nobody = Nobody
  Instances <- Objects
  Instance <- OneObject
  IoFailures = 1
  MaxCrashes = 0
CHECK_DEADLOCK FALSE
INVARIANTS StoppedIsNotFailed
PROPERTIES ResultKept NoWorkerVanishes
