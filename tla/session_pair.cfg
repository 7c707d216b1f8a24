CONSTANTS
  Heartbeat = 30
  Scenarios <- AllScenarios
SPECIFICATION Spec
INVARIANT TypeOK
INVARIANT StreamsInOrder
INVARIANT SequencesAgree
INVARIANT RecoveryCatchesUp
INVARIANT OneRecovery
INVARIANT NoReject
PROPERTY NoSilentGap
PROPERTY BothLogOn
PROPERTY Settles
