SPECIFICATION Spec
CONSTANTS
  MaxPayload = 1
  MaxSeq = 2
  Uint8Max = 2
  MaxBufferedFrames = 0
  RxFifoDepth = 2
  Traffic <- Wrapping
  FailingWriters = {}
  BurstGrant = 3
  FairDataBurstLimit = 2
  FailureThreshold = 2
  InitialBackoff = 1
  MaxBackoff = 1
  PollInterval = 1
  IdlePollInterval = 1
  ActivePollInterval = 1
  MaxPollInterval = 1
  LateReplies = TRUE
  LateAtReset = FALSE
  Restarts = {}
INVARIANTS
  SessionExactlyOnce
  NoSilentLoss
  AckMeansConsumed
  QueueIsBounded
