SPECIFICATION FairSpec
CONSTANTS
  Server = {s1}
  Caller = {c1, c2}
  Operator = {o1}
  Threshold = 2
  MaxRetries = 1
  MaxEvents = 1
  MaxStarts = 2
INVARIANTS StoppedIsQuiet OneRpcAtATime
PROPERTIES CallsEnd
CHECK_DEADLOCK FALSE
