\* Two processes, four appends (each may be an anchor), one content change,
\* loss of power at any moment.
CONSTANTS
  Proc = {p1, p2}
  Body = {b1, b2}
  p1 = p1  p2 = p2  b1 = b1  b2 = b2
  Genesis = Genesis
  Nobody = Nobody
  MaxOps = 4
  MaxEdits = 1
  Faults = {"powercut"}
SPECIFICATION FairSpec
INVARIANTS Durable AnchorsSuffice
PROPERTIES AppendReturns Implements
CHECK_DEADLOCK FALSE
