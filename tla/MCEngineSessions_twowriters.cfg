SPECIFICATION Spec
CONSTANTS
  s1 = s1  s2 = s2  a1 = a1  a2 = a2  t1 = t1  closer = closer
  Sid = {s1}
  AppCaller = {a1, a2}
  ToolCaller = {}
  Closer = closer
  SignalCap = 1
  MaxTasks = 2
  MaxSends = 1
  Expires = FALSE
INVARIANT SoleWriter
CHECK_DEADLOCK FALSE
