SPECIFICATION FairSpec
CONSTANTS
  Byte = {"z", "a", "b"}
  Zero = "z"
  Chunks <- MCChunks
  Capacity = 2
  Readers = {r1, r2}
  Waits = {0, 2}
  MaxReads = {0, 2}
  MaxEnd = 4
INVARIANTS
  WrapAccounting
  NoLostWakeup
PROPERTIES
  DataWakesReader
  ImplementsStream
