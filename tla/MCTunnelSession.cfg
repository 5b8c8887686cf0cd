CONSTANTS
  Transports = {"tcp", "quic"}
  Cap = 1
  MaxUp = 2
  MaxDown = 2
SPECIFICATION Spec
INVARIANTS TypeOK
PROPERTIES ServiceSpec
CHECK_DEADLOCK FALSE
