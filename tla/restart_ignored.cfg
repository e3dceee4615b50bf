CONSTANTS
  Job = {cleanup}
  NoJob = none
  Managed = {cleanup}
  Slow = {}
SPECIFICATION Spec
PROPERTY StartedRuns
CHECK_DEADLOCK FALSE
