\* Three runs one after the other, through retries, failures, timeouts and faults.
SPECIFICATION Spec
CONSTANTS
  h1 = h1
  Harnesses = {h1}
  Examples = 2
  MaxSteps = 1
  MaxRetries = 2
  JudgeCalls = 1
  MaxCost = 1
  Cap = 2
  Estimate = 1
  MaxRuns = 3
  MaxFailures = 1
  MaxTimeouts = 1
  MaxFaults = 1
  MaxOther = 1
INVARIANTS RunBounded CapHeld Covered OneExampleLost
CHECK_DEADLOCK FALSE
