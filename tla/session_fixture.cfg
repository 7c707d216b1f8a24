CONSTANTS
  Heartbeat = 30
  Tests <- MCTests
SPECIFICATION Spec
CHECK_DEADLOCK FALSE
INVARIANT AsExpected
INVARIANT CallsFindSessionAtRest
PROPERTY TestEnds
