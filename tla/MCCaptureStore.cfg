SPECIFICATION Spec
CONSTANTS
  Processes = {p1, p2, p3}
  Disabled = {p3}
  Requests = {r1, r2}
  Nobody = Nobody
  Names = {n1, n2, n3, bad}
  PortableNames = {n1, n2, n3}
  LineLengths = {2, 4}
  LogCapacity = 1
  max_file_bytes = 3
  max_total_bytes = 3
  max_files = 2
  MaxRecords = 2
  MaxCrashes = 1
  MaxForeign = 1
SYMMETRY NameSymmetry
INVARIANTS
  QuotasHold
  ExportsTruthful
PROPERTIES
  NeverOverwritten
CHECK_DEADLOCK FALSE
