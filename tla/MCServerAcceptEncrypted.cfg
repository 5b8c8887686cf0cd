CONSTANTS
  Client = {c1, c2, c3}
  Transports = {"encrypted"}
  SlotCounts = {3}
SPECIFICATION FairSpec
INVARIANTS Isolation
CHECK_DEADLOCK FALSE
