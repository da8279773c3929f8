SPECIFICATION Spec
CONSTANTS
  Tasks = {t1, t2, t3}
  Requests = {0, 1, 2, 3, 4}
  program_limit = 4
  tool_limit = 3
PROPERTIES
  ImplementsPool
