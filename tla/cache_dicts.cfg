CONSTANTS
  Query = {"q1", "q2", "q3"}
  Context = {"c1"}
  EmptyContext = "empty"
  Preview <- PlainQueries
  BeforeColon <- PlainQueries
  IsPrefix <- PlainPrefix
  Shown <- PlainContexts
  LongContext <- NoContext
  None = None
  Modes = {"exact", "semantic"}
  AutoExact = {"q1"}
  Similarity <- PlainSimilarity
  Threshold = 1
  MaxEntries = 2
  TTL = None
  Serializable = {TRUE}
  LookupFails = TRUE
  Policies = {"lru", "lfu"}
  Workload = {"store", "store_on_miss", "store_aborted", "lookup", "invalidate_context", "invalidate_bulk", "clear_all"}
  MaxClock = 5
  MaxFreq = 2
  MaxBatch = 2
SPECIFICATION HSpec
INVARIANT TrackedStored
INVARIANT StoredTracked
INVARIANT IInv
INVARIANT HistoryInv
PROPERTY EvictsLeastRecentlyUsed
PROPERTY EvictsLeastFrequentlyUsed
PROPERTY KeepsPromise
