CONSTANTS
  Heartbeat = 30
  Scenarios <- GapOfOne
SPECIFICATION Spec
PROPERTY NoSilentGap
