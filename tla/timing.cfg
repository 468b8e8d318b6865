SPECIFICATION PrimaryFairSpec
CONSTANTS
  MaxPayload = 1
  MaxSeq = 2
  Uint8Max = 2
  MaxBufferedFrames = 0
  RxFifoDepth = 3
  Traffic <- NoTraffic
  FailingWriters = {}
  BurstGrant = 3
  FairDataBurstLimit = 2
  FailureThreshold = 5
  InitialBackoff = 1
  MaxBackoff = 10
  PollInterval = 1
  IdlePollInterval = 20
  ActivePollInterval = 1
  MaxPollInterval = 1000
  LateReplies = TRUE
  LateAtReset = TRUE
  Restarts = {}
INVARIANTS
  ConnectedBelowThresholds
PROPERTIES
  BackoffGrows
  HungPeerIsNoticed
