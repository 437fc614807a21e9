\* Three threads that each push and pop, room for one, one more by force.
SPECIFICATION FairSpec
CONSTANTS
  t1 = t1
  t2 = t2
  t3 = t3
  a = a
  b = b
  NULL = NULL
  Threads = {t1, t2, t3}
  Values = {a, b}
  MaxSize = 1
  MaxForced = 2
INVARIANTS
  SleepersHaveReason
PROPERTIES
  QueueRefined
  SizeAssertHolds
