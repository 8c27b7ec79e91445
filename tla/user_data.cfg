CONSTANTS
  None = None
  Slots = {b1, b2}
  Threads = {t1, t2}
  Sources = {a1, a2, a3}
  Insights = {"one", "other"}
  MaxUnresolved = 1
  MaxAttempts = 1
  TransientTiers = 1
  People = {a1, a2, a3}
  Keys = {"address", "account"}
  Roles = {"mentor", "friend"}
  TaskRoles = {"proposed", "confirmed"}
  Proposed = {"proposed"}
  Slot <- OneSlot
  MaxRoles = 1
  MaxAsked = 2
  Chats = {b1, b2}
  Requests = {a1, a2, a3}
  Finishes = {t1, t2}
  Labels = {l1}
  Rows = {a1, a2, a3}
  Pipelines = {t1, t2}
  Workers = {b1, b2}
  MaxPending = 2
  Tasks = {a1, a2, a3}
  Edges = {1, 2, 3}
  Writers = {t1, t2}
  Modes = {"finite", "ongoing"}
SPECIFICATION DataSpec
SYMMETRY Symmetry
INVARIANTS
  DataTypeOK
  BackgroundWorkIsBounded
  UserHasTheLastWord
  ConversationsAreSound
PROPERTIES
  StaleAnswersAreDropped
  TasksStayInOrder
