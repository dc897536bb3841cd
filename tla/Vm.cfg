\* Two calls of every kind on two threads, with the deadline; no runner ever
\* needs to return, and a sink of the journal may raise at any event.
SPECIFICATION FairSpec
CONSTANTS
  Calls = {c1, c2}
  MaxParallel = 2
  Kinds = {"answer", "suspend", "abort", "unencodable"}
  Patient = FALSE
  Deadline = TRUE
CHECK_DEADLOCK FALSE
INVARIANTS QuietAtReturn InterruptionReported
PROPERTY DriveReturns
