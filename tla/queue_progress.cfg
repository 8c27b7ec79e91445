SPECIFICATION ProgressSpec
CONSTANTS
  w = w
  j1 = j1
  j2 = j2
  Jobs = {j1}
  Workers = {w}
  Lanes = {"shared"}
  Kind <- TeamsKind
  LaneOf <- SharedLaneOf
  Polls <- SharedPolls
  MaxAttempts = 2
  MaxRequests = 1
  TransientTiers = 2
INVARIANTS
  TypeOK
PROPERTIES
  SourcesKeepRunning
  UnexpectedAreRetired
