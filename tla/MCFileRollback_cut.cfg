SPECIFICATION Spec
CONSTANTS
  f1 = f1  f2 = f2  absent = absent  text = text
  File = {f1}
  Content = {absent, text}
  FaultKinds = {}
  KeepsFiles = FALSE
  MaxMessages = 4
  MaxWrites = 1
  MaxFaults = 0
  MaxRollbacks = 1
SYMMETRY Symmetry
CHECK_DEADLOCK FALSE
INVARIANT RecoverableAfterCut
