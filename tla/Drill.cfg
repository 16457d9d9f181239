SPECIFICATION Spec
CONSTANTS
  Commands <- MCCommands
  Cases <- MCCases
  TickMs = 100000
  Ttl = 30
  MinRuns = 3
INVARIANTS VerifiedIsEarned FailureIsTold
PROPERTIES PinProvesNothing WrittenFits
CHECK_DEADLOCK FALSE
