CONSTANTS
  NULL = NULL
  Urbs = {u1, u2}
  Reads = {r1}
  Writers = {w1}
  MaxReads = 1
  SeqLimit = 2
  StraySeqs = {0}
  Unpluggers = {p1}
SPECIFICATION UnplugSpec
INVARIANT CancelFindsUrb
CHECK_DEADLOCK FALSE
