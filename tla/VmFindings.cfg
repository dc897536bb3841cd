\* A lost suspension, work at hand that is not reported, an answer that is never sent: tlc -continue shows each violation.
SPECIFICATION FairSpec
CONSTANTS
  Calls = {c1, c2}
  MaxParallel = 2
  Kinds = {"answer", "suspend", "unencodable"}
  Patient = TRUE
  Deadline = TRUE
CHECK_DEADLOCK FALSE
INVARIANTS SuspensionReported AlwaysQuiet
PROPERTIES UnsentIsNoticed
