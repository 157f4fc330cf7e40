SPECIFICATION Spec
CONSTANTS
  t1 = t1  t2 = t2  s1 = s1  s2 = s2
  Tabs = {t1, t2}
  Sessions = {s1, s2}
  Devices <- OneOrTwoTabs
  Null = Null
INVARIANTS ShownIsOwn LoggedOutIsOut ReloadKeeps
PROPERTIES BootEnds
CHECK_DEADLOCK FALSE
