CONSTANTS
  Job = {cleanup, export, own, slow}
  NoJob = none
  Managed = {cleanup, export}
  Slow = {export, slow}
SPECIFICATION Spec
INVARIANT StopWaits
INVARIANT CallsTakeEffect
PROPERTY KeepsLifecycle
PROPERTY StopEnds
PROPERTY AloneRuns
