CONSTANTS
  MaxTunnels = 2
  MaxMisses = 3
  EventfdMayFail = TRUE
  GatewayMayStall = TRUE
SPECIFICATION Spec
INVARIANTS
  NoFalseReport
  AtMostOneReport
  TunnelOutlivesItsUsers
  FramesDoNotInterleave
  TeardownLeavesNothing
  OneKeepaliveVerdict
PROPERTIES
  ImplementsLife
