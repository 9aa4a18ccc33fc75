CONSTANTS
  Cmds = {c1, c2}
  d1 = d1
  d2 = d2
  d3 = d3
  Devs = {d1, d2, d3}
  List <- MCList
  Bare = {d1}
  NPorts = 3
  PortArgs = {0, 3, 256}
  NULL = NULL
SPECIFICATION VhciSpec
INVARIANTS
  AloneOutcome
  RecordTellsDevice
  AttachedIsImported
SYMMETRY MCSymmetry
CHECK_DEADLOCK FALSE
