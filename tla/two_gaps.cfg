CONSTANTS
  Heartbeat = 30
  Scenarios <- TwoGaps
SPECIFICATION Spec
PROPERTY RecoveryCompletes
CHECK_DEADLOCK FALSE
