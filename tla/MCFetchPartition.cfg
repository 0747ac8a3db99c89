CONSTANTS
  t1 = t1
  t2 = t2
  b1 = b1
  b2 = b2
  Threads = {t1, t2}
  Brokers = {b1, b2}
  Internal = internal
  None = none
  Hi = 2
  QueuedMin = 2
  MaxResets = 3
  Plans <- AllPlans
SPECIFICATION FairSpec
CHECK_DEADLOCK FALSE
PROPERTIES StopSafe InOrder FetchProgresses
