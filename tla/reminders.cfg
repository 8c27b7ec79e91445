SPECIFICATION OneSpec
CONSTANTS
  t1 = t1
  t2 = t2
  daily = daily
  once = once
  Activities = {daily, once}
  Recurring = {daily}
  Threads = {t1, t2}
  Horizon = 1
  MaxAttempts = 3
  TransientTiers = 3
CHECK_DEADLOCK FALSE
INVARIANTS
  OncePerOccurrence
  ScheduledHasItsJob
  FutureJobIsNext
PROPERTIES
  NothingAfterEnd
  OccurrenceIsNotified
