SPECIFICATION Spec
CONSTANTS
  s1 = s1  s2 = s2  none = none
  Sid = {s1, s2}
  NoSid = none
  PageSize = 2
  MaxRows = 3
  MaxWrites = 3
SYMMETRY Symmetry
INVARIANTS CountsAreRows Ledger PagesAreWhole OrphansAreTorn
CHECK_DEADLOCK FALSE
