SPECIFICATION FairSpec
CONSTANTS
  raw = raw
  agg = agg
  NoPoint = NoPoint
  Pipelines = {raw, agg}
  JobLists <- BothInOrder
  Slips = {"lost"}
  MaxEvents = 1
  MaxRuns = 3
  MaxFailures = 1
INVARIANTS
  ExactlyOnce
  Resumable
PROPERTY
  Lands
CHECK_DEADLOCK FALSE
