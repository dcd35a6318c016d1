\* Two landers at once on one key, through snapshots, restarts, replays and a new topic.
SPECIFICATION Spec
CONSTANTS
  k1 = k1
  k2 = k2
  p0 = p0
  p1 = p1
  l1 = l1
  l2 = l2
  Ids = {k1}
  Partitions = {p0}
  PartitionOf <- OnePartition
  Landers = {l1, l2}
  Batch = 2
  Nothing = Nothing
  CarelessRecreate = FALSE
  MaxChanges = 2
  MaxRecords = 5
  MaxRuns = 2
  MaxUpsets = 2
INVARIANTS Complete TiesIdentical Converges
PROPERTY MovesForward
SYMMETRY LanderSymmetry
CHECK_DEADLOCK FALSE
