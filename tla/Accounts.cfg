CONSTANTS
  Emails = {"ann", "bob", "cy"}
  Browsers = {"b1", "b2"}
  Requests = {"r1", "r2"}
  Limit = 2
  Window = 2
  TrackMax = 2
  LinkTTL = 1
  AdminTTL = 3
  SessionTTL = 2
  Sizes <- MCSizes
SPECIFICATION Spec
INVARIANTS SignsInOnce LimitHolds ActsWhereShown
CHECK_DEADLOCK FALSE
