CONSTANTS
  NULL = NULL
  Urbs <- MCUrbs
  Reads <- MCReads
  Writers <- MCWriters
  MaxReads = 2
  SeqLimit = 100
  StraySeqs = {0}
SPECIFICATION FairSpec
INVARIANTS
  ExactlyOneOwner
  ReadWaitsForNothing
  AnswerFindsUrb
  AnswerCompletesItsUrb
  NumberedInOrder
PROPERTIES
  CancelEnds
  ImplementsUrbService
CHECK_DEADLOCK FALSE
