SPECIFICATION Spec
CONSTANTS
  None = None  Gone = Gone
  village = village  province = province  country = country  new1 = new1  new2 = new2
  e1 = e1  e2 = e2
  Places = {village, province, country, new1, new2}
  Events = {e1, e2}
  InitParent <- SmallHierarchy
  InitAt <- SmallEvents
  MaxChanges = 4
INVARIANTS
  EditsAcyclic
PROPERTIES
  MergeGathers
  UndoRestores
CHECK_DEADLOCK FALSE
