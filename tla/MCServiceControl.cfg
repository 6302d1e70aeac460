CONSTANTS
  Attempts = {a1, a2}
  Profiles <- MCProfiles
  IfName <- OwnNames
  DefaultRoute <- MCDefaultRoute
  UnsolicitedSecrets = TRUE
  NoAttempt = NoAttempt
  NoProfile = NoProfile
  NoName = NoName
SPECIFICATION FairSpec
CHECK_DEADLOCK FALSE
INVARIANTS
  OneLiveTask
  AwaitingIsIdle
PROPERTY EveryAttemptIsAnswered
