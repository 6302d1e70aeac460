SPECIFICATION FairSpec
CONSTANTS
  HeaderLen = 2
  ChunkSize = 3
  Payloads = {0, 3}
  MaxFrames = 3
INVARIANTS
  BufferInStep
PROPERTIES
  IdleTunnelStaysUp
  FramesArrive
  ImplementsChannel
CHECK_DEADLOCK FALSE
