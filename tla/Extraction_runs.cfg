SPECIFICATION Spec
CONSTANTS
  None = None
  j1 = j1 j2 = j2
  Book <- SplitAct
  Jobs = {j1, j2}
  Chunk = 1
  MaxVersions = 2
  MaxMishaps = 2
CONSTRAINT Apart
SYMMETRY Alike
INVARIANTS
  ReadOnce
PROPERTIES
  RunsLoseNothing
  BoundariesClosed
  DoublesAreFlagged
CHECK_DEADLOCK FALSE
