CONSTANTS
  Attempts = {a1, a2}
  Profiles <- MCProfiles
  IfName <- SameName
  DefaultRoute <- MCDefaultRoute
  UnsolicitedSecrets = FALSE
  NoAttempt = NoAttempt
  NoProfile = NoProfile
  NoName = NoName
SPECIFICATION Spec
CHECK_DEADLOCK FALSE
INVARIANT StoppedHoldsNoTunnel
