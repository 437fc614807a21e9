\* Two callers, two servers, batches of one: the second batch is queued without
\* waking a server.  No symmetry: liveness.
SPECIFICATION FairSpec
CONSTANTS
  c1 = c1
  c2 = c2
  s1 = s1
  s2 = s2
  k1 = k1
  NULL = NULL
  Slot = Slot
  Clients = {c1, c2}
  Servers = {s1, s2}
  Keys = {k1}
  CacheSlots <- OneSlot
  SlotOf <- AllToOneSlot
  MaxBatchSize = 1
  MaxConcurrentEvals = 2
PROPERTIES
  ServiceRefined
  KillCompletes
