SPECIFICATION Spec
CONSTANTS
  Calls = {c1, c2, c3}
  Ports = {p}
  RingSizes = {2}
  DefaultRing = 2
  ReadSizes = {1}
  program_limit = 3
  tool_limit = 2
INVARIANTS
  RingReleasedAtClose
CHECK_DEADLOCK FALSE
