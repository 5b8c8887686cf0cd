CONSTANTS
  Secrets = {"k"}
  Base = 4
  HelloLen = 4
  TagLen = 1
  Hellos <- MCHellos
  Headers <- MCHeaders
  Raw <- MCRaw
SPECIFICATION Spec
INVARIANTS NoFrameFromTheEnd
CHECK_DEADLOCK FALSE
