CONSTANTS
  Attempts = {a1, a2, a3}
  Profiles <- MCProfiles
  IfName <- SameName
  DefaultRoute <- MCDefaultRoute
  UnsolicitedSecrets = FALSE
  NoAttempt = NoAttempt
  NoProfile = NoProfile
  NoName = NoName
SYMMETRY Symmetry
SPECIFICATION Spec
CHECK_DEADLOCK FALSE
INVARIANTS
  StartedOwnsItsTunnel
  StartedHasBypassRoute
  TeardownReachesThreads
  NothingLeaks
PROPERTY StoppedOnlyReportsLate
