SPECIFICATION Spec
CONSTANTS
  Width = 3
  Size <- MCSize
  Gateway = 5
  PrivateSubnets <- MCPrivateSubnets
  Profiles <- MCProfiles
  Replies <- MCReplies
  Tables <- MCTables
INVARIANTS
  KernelAgreesWithNM
  SplitTunnelIsExact
  FullTunnelIsExact
  TeardownUndoesRoutes
  DomainsAreExact
\* An attempt ends, announced or failed.
CHECK_DEADLOCK FALSE
