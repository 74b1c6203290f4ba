SPECIFICATION MCSpec
CONSTANTS
  None = None
  p1 = p1 p2 = p2 p3 = p3 n1 = n1 n2 = n2 n3 = n3 e1 = e1 e2 = e2 f1 = f1 f2 = f2
  k1 = k1 k2 = k2 k3 = k3 m1 = m1 m2 = m2 c1 = c1 c2 = c2 c3 = c3 w1 = w1 w2 = w2
  Writers = {w1, w2}
  People = {p1, p2, p3}  Names = {n1, n2, n3}  Events = {e1, e2}
  Families = {f1, f2}  Citations = {k1, k2, k3}
  Mentions = {m1, m2}  Candidates = {c1, c2, c3}
  Signatures = {"x", "y"}
  InitRows <- SmallTree
  MaxChanges = 3
INVARIANTS
  TypeOK
PROPERTIES
  RevertIsInverse
  UndoRestores
  MergeKeepsEvidence
  SlotsNeverTakenOver
CHECK_DEADLOCK FALSE
