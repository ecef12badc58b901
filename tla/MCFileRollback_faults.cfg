SPECIFICATION Spec
CONSTANTS
  f1 = f1  f2 = f2  absent = absent  text = text
  File = {f1, f2}
  Content = {absent, text}
  FaultKinds = {"reply", "snapshot", "restore", "crash", "edit"}
  KeepsFiles = TRUE
  MaxMessages = 5
  MaxWrites = 2
  MaxFaults = 1
  MaxRollbacks = 2
SYMMETRY Symmetry
CHECK_DEADLOCK FALSE
INVARIANTS RowsAnchored Recoverable
PROPERTY RestoredBeforeDeleted
