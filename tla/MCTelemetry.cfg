\* Two streaming tasks: forks, finalisation by the loop, late and repeated use of a
\* carried context.
SPECIFICATION Spec
CONSTANTS
  t1 = t1
  t2 = t2
  Tasks = {t1, t2}
  GeneratorTasks = {t1, t2}
  SessionNames = {}
  None = None
  MaxSpans = 3
  MaxSessions = 2
  MaxDepth = 3
  MaxCarried = 1
INVARIANTS ContextsCoherent ParentInTrace OneRootPerTrace EventsInOrder
PROPERTY RestoresContext
SYMMETRY TaskSymmetry
CHECK_DEADLOCK FALSE
