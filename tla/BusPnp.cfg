CONSTANTS
  NULL = NULL
  Pdos = {d1, d2}
  Handles = {h1}
  Addrs = {1}
  Callers = {c1, c2}
SPECIFICATION BusFairSpec
INVARIANTS ListIsExact HandleOwnsItsDevice
PROPERTIES CancelRestores UnpluggedIsDestroyed
CHECK_DEADLOCK FALSE
