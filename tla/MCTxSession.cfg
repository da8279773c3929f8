SPECIFICATION FairSpec
CONSTANTS
  c1 = c1
  c2 = c2
  h1 = h1
  h2 = h2
  Calls = {c1, c2}
  Handlers = {h1, h2}
  Requests <- MCRequests
  Capacity = 1
  MaxLosses = 1
INVARIANTS
  AnswersTruthful
  WritesWhole
  Serialized
PROPERTIES
  QuietAfterClose
  CallsAnswered
  CloseStopsWorkers
CHECK_DEADLOCK FALSE
