\* Three concurrent callers, two servers, batches of two: partial and full
\* batches, and two batches queued behind each other.
SPECIFICATION Spec
CONSTANTS
  c1 = c1
  c2 = c2
  c3 = c3
  s1 = s1
  s2 = s2
  k1 = k1
  k2 = k2
  NULL = NULL
  Slot = Slot
  Clients = {c1, c2, c3}
  Servers = {s1, s2}
  Keys = {k1, k2}
  CacheSlots <- OneSlot
  SlotOf <- AllToOneSlot
  MaxBatchSize = 2
  MaxConcurrentEvals = 3
SYMMETRY Symmetry
INVARIANTS
  TypeOK
  NeverOverlooped
  QueuedExactlyOnce
  RingShape
  ServerAsserts
  NoLostWakeup
  ResultMatches
