SPECIFICATION Spec
CONSTANTS
  File = {1, 2}
  Small = {1}
  Big = {2}
  Session = {"s"}
  BatchSize = 1
  Expiry = 1
  MaxDay = 2
  MaxRows = 2
  MaxEdits = 2
INVARIANT SnapshotsGoOn
CHECK_DEADLOCK FALSE
