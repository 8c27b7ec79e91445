CONSTANTS
  Spans = {1, 2}
  Limit = 1
  LastDay = 1
  GoogleDays = 2
  MaxItems = 2
  MaxRenumberings = 1
  Calendars = {1, 2}
  AsksAgain = FALSE
  GooglePlacements <- GoogleEvents
  YandexPlacements <- YandexEvents
  Ahead = 2
  Slice = 2
  MaxEdits = 1
SPECIFICATION ConnectorsSpec
CHECK_DEADLOCK FALSE
INVARIANTS
  ConnectorsTypeOK
  ScannedIsStored
  NothingIsLost
  EventsAreStored
