\* One document that changes under a single runner, to the end of its ingestion.
SPECIFICATION FairSpec
CONSTANTS
  d1 = d1
  d2 = d2
  kafka = kafka
  flink = flink
  r1 = r1
  r2 = r2
  a = a
  b = b
  c = c
  Docs = {d1}
  Projects = {kafka, flink}
  ProjectOf <- OneProject
  Revisions <- Changing
  Runners = {r1}
  Batch = 2
  None = None
  Modes = {}
  Torn = FALSE
  MaxBumps = 1
  MaxKills = 2
  MaxCuts = 1
INVARIANTS OnlyMissing Indexed
PROPERTY Ingested
CHECK_DEADLOCK FALSE
