CONSTANTS
  MaxRefs = 2
SPECIFICATION PdoSpec
INVARIANTS
  AnswersWhole
  UsersHoldOffRemoval
CHECK_DEADLOCK FALSE
