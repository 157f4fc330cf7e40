SPECIFICATION Spec
CONSTANTS
  p1 = p1  p2 = p2
  Phones = {p1, p2}
  Introduced = {p1}
  Settings <- FourSettings
  Wait = 1
  MaxSubmits = 3
  MaxPages = 2
  Null = Null
INVARIANTS CodeIsForThisPhone ResendIsHeard LockedToItsFamily
PROPERTIES BusyEnds
CHECK_DEADLOCK FALSE
