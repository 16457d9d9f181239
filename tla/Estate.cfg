SPECIFICATION EstateSpec
CONSTANTS
  Hosts <- MCHosts
  Starts <- MCStarts
  Windows = {0, 1}
  MaxEpoch = 2
  MaxAppends = 1
  Secret = {}
  Glob = {}
  Beneath = {}
  Risky = {}
  Absent = Absent
INVARIANTS StatusAgrees NextCoversGaps LaterIsNoBetter BundleIsFaithful
CHECK_DEADLOCK FALSE
