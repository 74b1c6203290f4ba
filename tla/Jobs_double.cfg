\* Two requests for one book, two slots, one crash.
SPECIFICATION Spec
CONSTANTS
  j1 = j1
  j2 = j2
  Job = {j1, j2}
  Entity <- OneEntity
  Kind <- BothTranscribe
  Stream = {}
  MaxChunks = 2
  MaxTries = 2
  MaxJobs = 2
  MaxCrashes = 1
INVARIANTS
  TypeOK
  DurableBeforeEnqueue
  CancelStopsSoon
PROPERTIES
  ImplementsBoard
CHECK_DEADLOCK FALSE
