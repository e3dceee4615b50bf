CONSTANTS
  Query = {"q1", "q2", "q3", "q4"}
  Context = {"c1"}
  EmptyContext = "empty"
  Preview <- PlainQueries
  BeforeColon <- PlainQueries
  IsPrefix <- PlainPrefix
  Shown <- PlainContexts
  LongContext <- NoContext
  None = None
  Modes = {"semantic"}
  AutoExact = {"q1"}
  Similarity <- PlainSimilarity
  Threshold = 1
  MaxEntries = 2
  TTL = None
  Serializable = {TRUE}
  LookupFails = FALSE
  Policies = {"fifo", "lru", "lfu"}
  Workload = {"store_on_miss", "store_aborted", "lookup", "invalidate_context", "invalidate_age", "invalidate_bulk", "restart"}
  MaxClock = 7
  MaxFreq = 2
  MaxBatch = 2
SPECIFICATION Spec
INVARIANT TrackedStored
INVARIANT OnMissInv
INVARIANT Bounded
PROPERTY EvictsOldest
PROPERTY KeepsPromise
