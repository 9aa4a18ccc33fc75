CONSTANTS
  NULL = NULL
  Conns = {1, 2}
  Kinds = {"transfer", "special", "invalid"}
  CMD_MAX_RECV = 1
  CMD_MAX = 3
  MaxSeq <- MCMaxSeq
  MaxEvents = 4
  MaxEarly = 1
SPECIFICATION MCSpec
INVARIANTS
  SessionIsWhole
  WaitingIsListed
  EnumerationAnswersMatch
  OrderlySurvives
  PadOneAheadAtMost
PROPERTIES
  LeaverFreesDevice
  EnumerationEnds
CHECK_DEADLOCK FALSE
