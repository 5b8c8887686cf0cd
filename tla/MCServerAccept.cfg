CONSTANTS
  Client = {c1, c2, c3}
  Transports = {"plain", "encrypted", "quic"}
  SlotCounts = {2, 3}
SPECIFICATION FairSpec
INVARIANTS TypeOK PlainIsolation
PROPERTIES ServedUnlessStalled
CHECK_DEADLOCK FALSE
