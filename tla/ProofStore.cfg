\* Two processes, one proof, three commands, every failure, one reinstall.
CONSTANTS
  Proc = {p1, p2}
  Proof = {q1}
  p1 = p1  p2 = p2  q1 = q1  q2 = q2
  Torn = Torn
  Nobody = Nobody
  MaxOps = 3
  MaxEpoch = 2
  Faults = {"kill", "powercut", "replacefail", "dirsyncfail"}
SPECIFICATION Spec
SYMMETRY Symmetry
INVARIANTS NoLostUpdate TelemetryBacked BoundToWhatRan BackupCoversTorn
CHECK_DEADLOCK FALSE
