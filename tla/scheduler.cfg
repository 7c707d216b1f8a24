CONSTANTS
  MaxTimers = 3
  MaxBeats = 2
SPECIFICATION Spec
INVARIANT TypeOK
INVARIANT TimersAccounted
INVARIANT CallbacksCounted
PROPERTY CancellationIsFinal
PROPERTY CallbacksRun
CHECK_DEADLOCK FALSE
