\* One proof with two recipes, two policies; five invocations.
CONSTANTS
  Absent = Absent
  dir = dir  key = key  cert = cert  copy = copy
  Glob <- MCGlob
  Beneath <- MCBeneath
  Risky = {copy}
  Policies <- MCPolicies
  Proofs = {"q"}
  Facts <- MCFacts
  Recipes <- MCRecipes
  Lifetimes = {2}
  SigningKey = TRUE
  Requests <- MCRequests
  MaxExpiry = 1
  MaxTime = 3
  MaxEpoch = 2
  MaxSteps = 4
SPECIFICATION Spec
INVARIANTS PassIsBacked DecisionOnRecord OverrideEnds NothingGained CoverageIsExplicit
CHECK_DEADLOCK FALSE
