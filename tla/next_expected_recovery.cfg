CONSTANTS
  Heartbeat = 30
  Scenarios <- NextExpectedFailure
SPECIFICATION Spec
PROPERTY RecoveryCompletes
CHECK_DEADLOCK FALSE
