\* One document that changes, no failure.
SPECIFICATION Spec
CONSTANTS
  d1 = d1
  d2 = d2
  kafka = kafka
  flink = flink
  r1 = r1
  r2 = r2
  a = a
  b = b
  c = c
  Docs = {d1}
  Projects = {kafka}
  ProjectOf <- OneProject
  Revisions <- Changing
  Runners = {r1}
  Batch = 2
  None = None
  Modes = {}
  Torn = FALSE
  MaxBumps = 0
  MaxKills = 0
  MaxCuts = 0
INVARIANT ChangedDocsReplaced
CHECK_DEADLOCK FALSE
