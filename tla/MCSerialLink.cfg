SPECIFICATION FairSpec
CONSTANTS
  Pumps = {p1, p2}
  Supervisors = {s1}
  Tasks = {t1}
  Manual = {m1}
  MaxAttempts = 2
  MaxUnplugs = 2
INVARIANTS
  OpenHasIo
  RecoveryOpen
  OneReader
PROPERTIES
  Recovers
  ClosedIsFinal
  RestIsFinal
CHECK_DEADLOCK FALSE
