CONSTANTS
  Query = {"q1", "q2", "q3"}
  Context = {"l1", "l2"}
  EmptyContext = "empty"
  Preview <- PlainQueries
  BeforeColon <- PlainQueries
  IsPrefix <- PlainPrefix
  Shown <- AwkwardShown
  LongContext <- AwkwardLong
  None = None
  Modes = {"exact"}
  AutoExact = {"q1"}
  Similarity <- PlainSimilarity
  Threshold = 1
  MaxEntries = 2
  TTL = None
  Serializable = {TRUE}
  LookupFails = FALSE
  Policies = {"lru"}
  Workload = {"store_on_miss"}
  MaxClock = 5
  MaxFreq = 3
  MaxBatch = 2
SPECIFICATION Spec
INVARIANT Bounded
CHECK_DEADLOCK FALSE
