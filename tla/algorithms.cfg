CONSTANTS
  HasOrjson = TRUE
  Stripped <- Lead
  None = None
  Results <- AllResults
  Depth <- Nesting
  Batches <- LongBatches
  Setups <- AllSetups
  Lists <- AllLists
  BulkPatterns <- SomePatterns
  Pairs <- SomePairs
  Ages = {0, 1}
  StoredRows <- SomeRows
  Configurations <- SomeConfigurations
  Earlier <- SomeEarlier
  ThresholdLists <- SomeThresholds
  Default = 0
  LookupContexts <- ContextsOf
SPECIFICATION Spec
INVARIANT EncodesFaithfully
INVARIANT RoundTrip
INVARIANT NeverGarbled
INVARIANT BatchLikeSingles
INVARIANT BatchStoredLikeSingles
INVARIANT MoreSelectsLess
INVARIANT LiteralMeansEqual
INVARIANT AcceptedApplied
INVARIANT MostSpecific
CHECK_DEADLOCK FALSE
