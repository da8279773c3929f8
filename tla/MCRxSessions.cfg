SPECIFICATION FairSpec
CONSTANTS
  Calls = {c1, c2, c3, c4}
  Ports = {p}
  RingSizes = {0, 2}
  DefaultRing = 1
  ReadSizes = {1, 3}
  program_limit = 4
  tool_limit = 2
INVARIANTS
  PortExclusive
  ReservationOwned
  RingsCharged
  OneSession
  SessionWhileOpen
PROPERTIES
  ReservationReleased
CHECK_DEADLOCK FALSE
