SPECIFICATION FairSpec
CONSTANTS
  u1 = u1  u2 = u2  p1 = p1  k1 = k1  k2 = k2  c1 = c1  c2 = c2  bad = bad
  Entry = {u1, p1}
  User = {u1, p1}
  Guide = {u1}
  Call = {c1}
  ValidCall = {c1}
  RepeatedIds = FALSE
  InboundCap = 1
  SignalCap = 1
  MaxSignals = 1
  MaxToolReplies = 1
  MaxRetries = 1
  MaxLosses = 0
  MaxCrashes = 1
INVARIANTS PendingLocked
 
CHECK_DEADLOCK FALSE
