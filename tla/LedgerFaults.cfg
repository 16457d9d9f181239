CONSTANTS
  Proc = {p1, p2}
  Body = {b1, b2}
  p1 = p1  p2 = p2  b1 = b1  b2 = b2
  Genesis = Genesis
  Nobody = Nobody
  MaxOps = 4
  MaxEdits = 1
  Faults = {"kill", "powercut", "writefail", "fsyncfail", "syncdirfail", "unended"}
SPECIFICATION Spec
SYMMETRY Symmetry
INVARIANTS ChainLinked
PROPERTIES CorruptionIsFinal
CHECK_DEADLOCK FALSE
