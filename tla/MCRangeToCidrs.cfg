SPECIFICATION Spec
CONSTANTS
  Width = 5
  Size <- MCSize
INVARIANTS
  CoversExactly
  BlocksAreDisjoint
  BlocksAreAligned
  BlocksAreWidest
PROPERTY Returns
\* The function returns.
CHECK_DEADLOCK FALSE
