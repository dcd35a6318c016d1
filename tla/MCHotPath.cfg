SPECIFICATION FairSpec
CONSTANTS
  Threads = {t1, t2}
  QueueSize = 1
  MaxEvents = 2
  MaxConfigs = 1
  Parent <- ChildFirst
  MaxSpans = 1
  BlockSize = 2
  MaxPoison = 1
  MaxRuns = 2
  MaxFailures = 1
  MaxExpired = 1
  t1 = t1
  t2 = t2
CHECK_DEADLOCK FALSE
INVARIANTS  AccountedFor NothingBetween SpansKept MatchMeansComplete TraceWhole
PROPERTY Drains
