CONSTANTS
  MaxClicks = 2
  MaxLines = 1
SPECIFICATION StuckLookupSpec
PROPERTIES StopIsTimed
CHECK_DEADLOCK FALSE
