CONSTANTS
  Psk = {k1, k2}
  LenMod = 8
  TagLen = 2
  RelayBuf = 5
  Sizes <- MCSizes
  Cap = 2
  MaxFrames = 3
SPECIFICATION FairSpec
INVARIANTS TypeOK NonceNeverReused InStep WrongSecretDeliversNothing StreamAligned
PROPERTIES PipeSpec EventuallyDelivered TeardownPropagates
CHECK_DEADLOCK FALSE
