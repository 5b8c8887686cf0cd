CONSTANTS
  Transports = {"quic"}
  Cap = 1
  MaxUp = 1
  MaxDown = 1
SPECIFICATION FairSpec
PROPERTY RefusalReported
CHECK_DEADLOCK FALSE
