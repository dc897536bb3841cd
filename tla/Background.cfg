\* One store object: two operators, a worker, a write that raises, a crash.
SPECIFICATION FairSpec
CONSTANTS
  r1 = r1  r2 = r2  s1 = s1  s2 = s2
  Runs = {r1}
  Stoppers = {s1, s2}
  Recoverer = Recoverer
  Nobody = Nobody
  Instances <- Objects
  Instance <- OneObject
  IoFailures = 1
  MaxCrashes = 1
CHECK_DEADLOCK FALSE
INVARIANTS StopWins JournalTells
PROPERTIES TerminalIsFinal EveryLaunchEnds
