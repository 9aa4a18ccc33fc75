CONSTANTS
  NULL = NULL
  HEADER = 48
  ISO_DESC = 16
  BIG_SIZE = 1000000
  SWAP = 4194304
  OUT_Q_LEN = 1
  Urbs <- MCUrbs
  DeviceUrbs <- MCDeviceUrbs
  MaxUrbs = 2
  MaxAnswers = 2
  MaxSessions = 2
SPECIFICATION ForwardFairSpec
INVARIANTS
  FramesAgree
  OutTableIsExact
  StreamInFrame
  GoesOnInOrder
PROPERTIES
  SessionEnds
CHECK_DEADLOCK FALSE
