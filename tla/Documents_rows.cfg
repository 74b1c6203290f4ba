SPECIFICATION Spec
CONSTANTS
  None = None
  j1 = j1 j2 = j2
  d1 = d1 d2 = d2 d3 = d3
  Docs = {d1, d2}
  Jobs = {j1, j2}
  Sheets = 1
  MaxImages = 2
  MaxRequests = 3
  MaxCrashes = 1
CONSTRAINT InOrder
SYMMETRY Alike
INVARIANTS
  ImagesReadable
  OneVisibility
PROPERTIES
  PagesNumbered
  WipesOnlyToRender
CHECK_DEADLOCK FALSE
