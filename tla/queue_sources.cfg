SPECIFICATION CastSpec
CONSTANTS
  w1 = w1
  w2 = w2
  j1 = j1
  j2 = j2
  j3 = j3
  j4 = j4
  CastSize = 1
  Jobs = {j1, j2, j3, j4}
  Workers = {w1}
  Lanes = {"shared"}
  Kind <- SourceKind
  LaneOf <- SharedLaneOf
  Polls <- SharedPolls
  MaxAttempts = 3
  MaxRequests = 1
  TransientTiers = 3
INVARIANTS
  AttemptsBounded
  RunningStaysInOrder
PROPERTIES
  ClaimsOutlastLaterReads
