CONSTANTS
  Transports = {"tcp", "quic"}
  Cap = 1
  MaxUp = 1
  MaxDown = 1
SPECIFICATION FairSpec
PROPERTIES Teardown TcpRefusalReported TcpResponseComplete AppAnswered
CHECK_DEADLOCK FALSE
