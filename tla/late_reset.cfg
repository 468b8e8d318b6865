SPECIFICATION Spec
CONSTANTS
  MaxPayload = 2
  MaxSeq = 31
  Uint8Max = 3
  MaxBufferedFrames = 1
  RxFifoDepth = 3
  Traffic <- BothWays
  FailingWriters = {}
  BurstGrant = 3
  FairDataBurstLimit = 2
  FailureThreshold = 2
  InitialBackoff = 1
  MaxBackoff = 1
  PollInterval = 1
  IdlePollInterval = 1
  ActivePollInterval = 1
  MaxPollInterval = 1
  LateReplies = TRUE
  LateAtReset = TRUE
  Restarts = {}
INVARIANT
  NoSilentLoss
