SPECIFICATION RunnerSpec
CONSTANTS
  Helpers <- MCHelpers
  MaxProbes = 2
INVARIANTS NobodyWritesOn
PROPERTIES Returns
CHECK_DEADLOCK FALSE
