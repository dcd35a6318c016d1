\* Pinned documents, two runs at once, kills and a power cut.
SPECIFICATION Spec
CONSTANTS
  d1 = d1
  d2 = d2
  kafka = kafka
  flink = flink
  r1 = r1
  r2 = r2
  a = a
  b = b
  c = c
  Docs = {d1, d2}
  Projects = {kafka}
  ProjectOf <- OneProject
  Revisions <- Pinned
  Runners = {r1, r2}
  Batch = 2
  None = None
  Modes = {"hybrid"}
  Torn = TRUE
  MaxBumps = 0
  MaxKills = 1
  MaxCuts = 1
INVARIANTS Redetected Resolvable
SYMMETRY RunnerSymmetry
CHECK_DEADLOCK FALSE
