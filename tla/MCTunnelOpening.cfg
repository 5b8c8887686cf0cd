CONSTANTS
  Secrets = {"k"}
  Base = 4
  HelloLen = 4
  TagLen = 1
  Hellos <- MCHellos
  Headers <- MCHeaders
  Raw <- MCRaw
SPECIFICATION FairSpec
INVARIANTS TypeOK NoDialAcrossSecrets RelayIntact
PROPERTIES PipeSpec WholeFrameArrives EndsTogether
CHECK_DEADLOCK FALSE
