CONSTANTS
  Cache = {a, b}
  Thread = {a, b}
  Of <- Own
  MaxHits = 6
SPECIFICATION Spec
INVARIANT NeverOverstated
CHECK_DEADLOCK FALSE
