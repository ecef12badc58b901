SPECIFICATION Spec
CONSTANTS
  u1 = u1  u2 = u2  p1 = p1  k1 = k1  k2 = k2  c1 = c1  c2 = c2  bad = bad
  Entry = {u1}
  User = {u1}
  Guide = {u1}
  Call = {c1, c2}
  ValidCall = {c1, c2}
  RepeatedIds = FALSE
  InboundCap = 1
  SignalCap = 1
  MaxSignals = 1
  MaxToolReplies = 2
  MaxRetries = 1
  MaxLosses = 1
  MaxCrashes = 1
SYMMETRY CallSymmetry
INVARIANTS Conservation BatchAnswered RequestPaired AnsweredOnce InterruptLast
CHECK_DEADLOCK FALSE
