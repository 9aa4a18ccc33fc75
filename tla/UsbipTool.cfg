CONSTANT MaxClicks = 6
SPECIFICATION ToolFairSpec
INVARIANTS
  InStep
  ButtonsTellSession
PROPERTIES
  CloseEnds
CHECK_DEADLOCK FALSE
