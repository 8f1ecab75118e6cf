SPECIFICATION FairSpec
CONSTANTS
  t1 = t1
  t2 = t2
  Threads = {t1, t2}
  MaxPosts = 3
INVARIANTS
  NoLostWakeup
PROPERTIES
  RunsInOrder
  RunsEventually
CHECK_DEADLOCK FALSE
