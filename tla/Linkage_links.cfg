SPECIFICATION Spec
CONSTANTS
  None = None
  r1 = r1 r2 = r2
  People = {1, 2, 3, 4, 5}
  Families = {"f1", "f2"}
  Mentions <- MCMentions
  Acts = {"b1", "b2", "b3", "c", "c0"}
  ActOf <- MCActOf
  Role <- MCRole
  NameOf <- MCNameOf
  Found <- MCFound
  SexOf <- MCSexOf
  Kind <- MCKind
  Superseded = {"c0"}
  Similar <- MCSimilar
  Known <- MCKnown
  Starts <- MCStarts
  Requests = {r1, r2}
  Jobs = {"j1"}
CONSTRAINTS TwoAtOnce Worth
ACTION_CONSTRAINT Finish
SYMMETRY Alike
PROPERTIES
  AcceptedIsLinked
CHECK_DEADLOCK FALSE
