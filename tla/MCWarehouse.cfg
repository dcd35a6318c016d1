SPECIFICATION WarehouseSpec
CONSTANTS
  b1 = b1
  b2 = b2
  Builds = {b1, b2}
  Outcomes = {"failed", "chat"}
  Missing = {absent}
  MaxTurns = 2
  MaxStarts = 2
  MaxWrites = 2
INVARIANTS Coherent BadCaught 
SYMMETRY BuildSymmetry
CHECK_DEADLOCK FALSE
