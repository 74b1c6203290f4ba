\* A download and a linkage job share one slot; one stream watches either: it is never lied to, and closes.
SPECIFICATION FairSpec
CONSTANTS
  j1 = j1
  j2 = j2
  Job = {j1, j2}
  Entity <- TwoBooks
  Kind <- DownloadAndLink
  Stream = {s1}
  MaxChunks = 1
  MaxTries = 1
  MaxJobs = 1
  MaxCrashes = 0
INVARIANTS
  NoFalseAllDone
PROPERTIES
  StreamsClose
CHECK_DEADLOCK FALSE
