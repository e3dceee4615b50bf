CONSTANTS
  Caller = {t1, t2}
  Func = {"f", "g"}
  Query = {"q1", "q2"}
  Arg = {"none", "a"}
  None = "none"
  Default = "none"
  HasDefault = {"f", "g"}
  Keyed = {"f", "g"}
  Static <- NoStatic
  Serialized <- Plainly
  Mode <- Modes
  AutoExact = {"q2"}
  Similarity <- Close
  Threshold = 1
  Batched = {"f"}
  AllowErrors = {"g"}
  Kinds = {"value", "error", "unserialisable", "unreadable"}
  MaxEntries = 1
  TTL = 0
  Asks <- SomeAsks
  MaxCalls = 3
  MaxClock = 1
SPECIFICATION Spec
INVARIANT Answered
INVARIANT ErrorsNotShared
INVARIANT IInv
PROPERTY NoNeedlessRun
SYMMETRY Symmetry
CHECK_DEADLOCK FALSE
