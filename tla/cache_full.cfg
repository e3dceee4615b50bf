CONSTANTS
  Query = {"ab", "abc", "x:y"}
  Context = {"empty", "l1"}
  EmptyContext = "empty"
  Preview <- PlainQueries
  BeforeColon <- AwkwardBefore
  IsPrefix <- AwkwardPrefix
  Shown <- AwkwardShown
  LongContext = {"l1"}
  None = None
  Modes = {"exact", "auto"}
  AutoExact = {"ab"}
  Similarity <- PlainSimilarity
  Threshold = 1
  MaxEntries = 2
  TTL = 1
  Serializable = {TRUE, FALSE}
  LookupFails = TRUE
  Policies = {"lru"}
  Workload = {"store", "store_aborted", "store_on_miss", "store_batch", "lookup", "invalidate_context", "invalidate_age", "invalidate_bulk", "cleanup_expired", "clear", "clear_all", "restart"}
  MaxClock = 4
  MaxFreq = 3
  MaxBatch = 2
SPECIFICATION Spec
INVARIANT TypeOK
PROPERTY OneKeyPerEviction
