SPECIFICATION CastFairSpec
CONSTANTS
  w1 = w1
  w2 = w2
  j1 = j1
  j2 = j2
  j3 = j3
  j4 = j4
  CastSize = 2
  Jobs = {j1, j2, j3}
  Workers = {w1}
  Lanes = {"shared"}
  Kind <- MixedKind
  LaneOf <- SharedLaneOf
  Polls <- SharedPolls
  MaxAttempts = 2
  MaxRequests = 1
  TransientTiers = 2
CHECK_DEADLOCK FALSE
INVARIANTS
  AttemptsAreSpentClaims
  DoneIffEffects
  MarkerMeansBudget
PROPERTIES
  JobSettles
