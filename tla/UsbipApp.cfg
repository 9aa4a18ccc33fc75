CONSTANTS
  MaxLives = 3
  NULL = NULL
SPECIFICATION AppFairSpec
INVARIANTS
  ShownIsSo
PROPERTIES
  ReadyIsShown
CHECK_DEADLOCK FALSE
