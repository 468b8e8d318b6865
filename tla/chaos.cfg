SPECIFICATION Spec
CONSTANTS
  MaxPayload = 1
  MaxSeq = 3
  Uint8Max = 3
  MaxBufferedFrames = 0
  RxFifoDepth = 2
  Traffic <- ShortEach
  FailingWriters = {}
  BurstGrant = 3
  FairDataBurstLimit = 2
  FailureThreshold = 1
  InitialBackoff = 1
  MaxBackoff = 1
  PollInterval = 1
  IdlePollInterval = 1
  ActivePollInterval = 1
  MaxPollInterval = 1
  LateReplies = TRUE
  LateAtReset = TRUE
  Restarts = {"primary", "secondary"}
INVARIANTS
  TypeOK
  LocalDataStaysTrue
  ExchangeNeverResets
  IdleMeansNothingPending
  OneDataPerGrant
