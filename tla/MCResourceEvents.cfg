SPECIFICATION Spec
CONSTANTS
  c1 = c1
  Connections = {c1}
  Handlers = {h1, h2}
  Listeners = {l1}
  Requested <- MCRequested
  PortSets = {0, 1}
  HubCapacity = 2
  MaxChanges = 3
PROPERTIES
  Informed
CHECK_DEADLOCK FALSE
