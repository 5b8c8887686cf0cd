CONSTANTS
  ByteMod = 8
  V4Len = 2
  V6Len = 4
  Names <- MCNames
  Octets <- MCOctets
  Literal <- MCLiteral
SPECIFICATION Spec
INVARIANTS TypeOK NeverPanics LeavesPipelined DialsWhatWasAsked WrappedNameIsCut
CHECK_DEADLOCK FALSE
