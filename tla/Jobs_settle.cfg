\* An extraction and an embedding job enqueued early, one slot, one crash: liveness of the rows.
SPECIFICATION FairSpec
CONSTANTS
  j1 = j1
  j2 = j2
  Job = {j1, j2}
  Entity <- TwoBooks
  Kind <- ExtractAndEmbed
  Stream = {}
  MaxChunks = 1
  MaxTries = 1
  MaxJobs = 1
  MaxCrashes = 1
PROPERTIES
  JobsSettle
CHECK_DEADLOCK FALSE
