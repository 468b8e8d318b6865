SPECIFICATION Spec
CONSTANTS
  MaxPayload = 2
  MaxSeq = 2
  Uint8Max = 3
  MaxBufferedFrames = 1
  RxFifoDepth = 2
  Traffic <- LongUp
  FailingWriters = {"secondary"}
  BurstGrant = 3
  FairDataBurstLimit = 2
  FailureThreshold = 1
  InitialBackoff = 1
  MaxBackoff = 1
  PollInterval = 1
  IdlePollInterval = 1
  ActivePollInterval = 1
  MaxPollInterval = 1
  LateReplies = TRUE
  LateAtReset = FALSE
  Restarts = {"primary"}
INVARIANTS
  WritesWholePackets
  IInv
  RetransmissionOnly
PROPERTIES
  HandshakeSynchronises
  ImplementsPacketLink
