CONSTANTS
  Client = {t1}
  Cleaner = cleaner
  Key = {k1, k2}
  MaxEntries = 1
  TTL = 1
  Memory = {TRUE}
  Calls = {"store", "lookup", "invalidate"}
  NoKey = none
  MaxClock = 4
  EvictionPolicy = "lru"
SPECIFICATION Spec
PROPERTY OnlyMeantRemoved
CHECK_DEADLOCK FALSE
