SPECIFICATION FairSpec
CONSTANTS
  s1 = s1
  s2 = s2
  t1 = t1
  t2 = t2
  o1 = o1
  o2 = o2
  o3 = o3
  Slots = {s1, s2}
  Threads = {t1}
  Sources = {}
  Insights = {"one"}
  MaxUnresolved = 1
  MaxAttempts = 2
  TransientTiers = 1
PROPERTIES
  ReviewsGoOn
  OptOutEmptiesQueue
