SPECIFICATION Spec
CONSTANTS
  u1 = u1  u2 = u2  p1 = p1  k1 = k1  k2 = k2  c1 = c1  c2 = c2  bad = bad
  Entry = {u1, p1, k1}
  User = {u1, p1}
  Guide = {u1, k1}
  Call = {bad}
  ValidCall = {}
  RepeatedIds = FALSE
  InboundCap = 2
  SignalCap = 1
  MaxSignals = 1
  MaxToolReplies = 1
  MaxRetries = 0
  MaxLosses = 0
  MaxCrashes = 0
PROPERTIES GateHolds RemovalComplete ImplementsMailbox
CHECK_DEADLOCK FALSE
