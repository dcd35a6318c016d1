\* One streamed request: its task is cancelled while the generator is suspended.
SPECIFICATION Spec
CONSTANTS
  t1 = t1
  t2 = t2
  Tasks = {t1}
  GeneratorTasks = {t1}
  SessionNames = {}
  None = None
  MaxSpans = 2
  MaxSessions = 1
  MaxDepth = 2
  MaxCarried = 0
INVARIANT EventFires
CHECK_DEADLOCK FALSE
