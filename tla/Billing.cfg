CONSTANTS
  Prices = {"solo_price", "old_price"}
  PlanOf <- MCPlanOf
  EventMemory = 2
  Sizes <- MCSizes
SPECIFICATION Spec
INVARIANTS SettledAgrees NoSecondTrial
CHECK_DEADLOCK FALSE
