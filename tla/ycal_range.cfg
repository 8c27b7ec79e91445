CONSTANTS
  Spans = {1, 2}
  Limit = 1
  LastDay = 1
  MaxItems = 2
  Ahead = 2
  Slice = 2
  MaxEdits = 1
  Placements <- PastAndAhead
SPECIFICATION Spec
CHECK_DEADLOCK FALSE
PROPERTIES
  CompletionEndsTheRange
