CONSTANTS
  Client = {t1, t2}
  Cleaner = cleaner
  Key = {k1, k2}
  MaxEntries = 1
  TTL = 1
  Memory = {FALSE, TRUE}
  Calls = {"store", "lookup", "invalidate"}
  NoKey = none
  MaxClock = 3
  EvictionPolicy = "lru"
SPECIFICATION Spec
INVARIANT TypeOK
PROPERTY DiskLosesNoRow
PROPERTY DiskRevivesNoRow
PROPERTY ExpiredRemoved
