CONSTANTS
  Heartbeat = 30
  Options <- MCOptions
  Inputs <- MCInputs
  MaxMsgSeqNum = 4
  MaxTestReqs = 2
  MaxTimers = 2
SPECIFICATION Spec
INVARIANT TypeOK
INVARIANT AcceptorNeedsLogon
PROPERTY NumbersAreConsecutive
PROPERTY ExpectedNumberMoves
PROPERTY EndIsFinal
CHECK_DEADLOCK FALSE
