CONSTANTS
  Cache = {a}
  Thread = {t}
  Of <- Own
  MaxHits = 6
SPECIFICATION Spec
INVARIANT IInv
INVARIANT NeverOverstated
INVARIANT ExportsExactly
PROPERTY HitsExported
