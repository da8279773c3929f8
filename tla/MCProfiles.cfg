SPECIFICATION Spec
CONSTANTS
  p1 = p1
  p2 = p2
  a = a
  b = b
  c = c
  k1 = k1
  k2 = k2
  k3 = k3
  k4 = k4
  k5 = k5
  Procs = {p1, p2}
  Clients = {a, b, c}
  Conns = {k1, k2, k3, k4, k5}
  Names = {"n1", "n2", "auto", "auto-2", "auto-3"}
  GeneratedNames <- MCGeneratedNames
  Workloads <- MCWorkloads
  MAX_PROFILE_REVISIONS = 2
PROPERTIES
  NoLostUpdate
  BoundNotOverwritten
INVARIANTS
  OwnWritesCached
  PreviewAgrees
