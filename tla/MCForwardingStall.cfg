CONSTANTS
  MaxTunnels = 1
  MaxMisses = 3
  EventfdMayFail = FALSE
  GatewayMayStall = TRUE
SPECIFICATION FairSpec
PROPERTIES
  SilentGatewayIsSignalled
