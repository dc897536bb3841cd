\* One parent and two publishers, or two parents; a resumption, one failing read or
\* write or one cut, an event whose line is split.
SPECIFICATION CardsFairSpec
CONSTANTS
  Parents = {p1, p2}
  Publishers = {g1, g2}
  p1 = p1  p2 = p2  g1 = g1  g2 = g2
  Setups <- MCSetups
  Outcomes = {"invalid", "blocked"}
  MaxStarts = 2
  MaxEvents = 2
  MaxFaults = 1
CHECK_DEADLOCK FALSE
INVARIANTS AckedStaysReadable AwaitedIsRoutable
PROPERTIES TerminalStands TimeoutIsTrue WokenWhenNotified
