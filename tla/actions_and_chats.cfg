CONSTANTS
  None = None
  Callers = {c1, c2, c3}
  Page = 1
  MaxPages = 2
  MaxItems = 3
  MaxEdits = 1
  MaxSub = 2
  MaxPosts = 2
  Spans = {1, 2}
  Limit = 1
  LastDay = 3
SPECIFICATION BothSpec
CHECK_DEADLOCK FALSE
INVARIANTS
  BothTypeOK
  AtMostOneSend
  RowIsTrue
  AnswersAreTrue
  SaidIsTrue
  CopiesAreSound
  PostsAreStored
  WatermarkIsStored
  ChangesAreStored
  EveryoneHasATurn
PROPERTIES
  EachSendsOnce
  DecidedPlanIsOver
  NothingIsOverwritten
