CONSTANTS
  Tags <- MCTags
  DataTags = {96}
  CharIsSigned = TRUE
  ReadBufferSize = 11
  WriteBufferSize = 60
  Scripts <- MCScripts
SPECIFICATION Spec
CHECK_DEADLOCK FALSE
INVARIANT DispatchedAsSent
INVARIANT RemainderIsOneField
INVARIANT AsciiIsSent
PROPERTY AllDispatched
PROPERTY ClosedStops
