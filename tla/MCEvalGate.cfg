SPECIFICATION Spec
CONSTANTS
  Prompts = {"v1"}
  Examples = 2
  Grades = {"good", "weak", "error"}
  Floors <- SmallFloors
  Declared <- SmallDeclared
  MaxRuns = 3
  MaxActive = 1
  MaxUpsets = 1
  MaxEdits = 1
INVARIANTS  PassIsMeasured GatesAgree
CHECK_DEADLOCK FALSE
