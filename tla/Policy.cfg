\* Three files, two of them linted as one; guards x and y, x in every strictness that "tightens" compares.
CONSTANTS
  Absent = Absent
  Glob <- MCGlob
  Beneath <- MCBeneath
  Risky = {}
  Id = {"x", "y"}
  Value <- MCValue
  Evidence = {"q", "f"}
  LayerSet <- MCLayers
  MaxLayers = 3
  LintedLayers = 2
  Changes <- MCChanges
  Worlds <- MCWorlds
  Times = {1, 2, 3, 4}
SPECIFICATION Spec
INVARIANTS NothingSilent FloorStands LintForetells
CHECK_DEADLOCK FALSE
