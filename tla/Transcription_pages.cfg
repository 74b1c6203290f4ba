\* Two overlapping runs on one page, a failed recognition, a correction, two
\* reconciliations and an embedding job; keys against the order of creation.
SPECIFICATION Spec
CONSTANTS
  Page = {p1}
  MaxVersions = 3
  MaxTexts = 2
  Run = {r1, r2}
  Embed = {e1}
  Request = {q1, q2}
  Pk <- Descending
CONSTRAINT Apart
SYMMETRY Interchangeable
INVARIANTS
  OneActive
PROPERTIES
  PagesKeepActive
  RunsNeverWipe
CHECK_DEADLOCK FALSE
