SPECIFICATION Spec
CONSTANTS
  c1 = c1
  c2 = c2
  Calls = {c1, c2}
  Capacity = 2
  MaxFaults = 1
  Workloads <- MCWorkloads
INVARIANTS
  NothingSkipped
  BootCaptureFresh
  PulseUndisturbed
  LinesGuarded
PROPERTIES
  ReadEnds
  LinesReleased
CHECK_DEADLOCK FALSE
