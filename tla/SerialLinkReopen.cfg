SPECIFICATION Spec
CONSTANTS
  Pumps = {p1, p2}
  Supervisors = {s1}
  Tasks = {t1, t2}
  Manual = {}
  MaxAttempts = 2
  MaxUnplugs = 1
INVARIANTS
  PortReleased
CHECK_DEADLOCK FALSE
