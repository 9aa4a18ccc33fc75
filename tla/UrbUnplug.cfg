CONSTANTS
  NULL = NULL
  Urbs = {u1, u2}
  Reads = {r1}
  Writers = {w1}
  MaxReads = 1
  SeqLimit = 2
  StraySeqs = {}
  Unpluggers = {p1, p2}
SPECIFICATION UnplugFairSpec
INVARIANT OneOwnerUnlessCancelled
PROPERTY UnplugEnds
CHECK_DEADLOCK FALSE
