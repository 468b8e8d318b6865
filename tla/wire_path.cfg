SPECIFICATION Spec
CONSTANTS
  MaxPacketSize = 32
  HeaderSize = 5
  Uint8Max = 255
  BufferSize = 3200
  TunPackets <- MCTunPackets
INVARIANTS UncutIsWritten WritesPacketOrItsRest FrameSurvivesCodec
