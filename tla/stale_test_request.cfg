CONSTANTS
  Heartbeat = 30
  Scenarios <- MsgSeqNumTooHigh
SPECIFICATION Spec
INVARIANT SessionsSurvive
