SPECIFICATION AnsweredSpec
CONSTANTS
  Server = {s1}
  Caller = {c1}
  Operator = {o1}
  Threshold = 2
  MaxRetries = 1
  MaxEvents = 2
  MaxStarts = 2
PROPERTIES Reconnects
CHECK_DEADLOCK FALSE
