CONSTANTS
  Requests = {t1, t2, t3}
  Pnp = Pnp
SPECIFICATION CountFairSpec
INVARIANTS
  CountIsExact
  RemoveWaitsForAdmitted
PROPERTIES
  WaitsEnd
CHECK_DEADLOCK FALSE
