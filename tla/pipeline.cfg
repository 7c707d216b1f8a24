CONSTANTS
  BufferSize = 3
  HighWaterMark = 1
  Messages = 4
  SizeTables <- MCSizeTables
SPECIFICATION Spec
CHECK_DEADLOCK FALSE
INVARIANT NeverOverflows
PROPERTY OrderedForwarding
PROPERTY AllForwarded
