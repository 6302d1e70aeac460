SPECIFICATION Spec
CONSTANTS
  Logins <- MCLogins
  Chunkings = {1, 9}
  ReadSize = 2
INVARIANTS
  RequestReadsBack
  AnswerIsWhole
  CloseWithoutNotifyIsTheEnd
