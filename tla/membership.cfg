SPECIFICATION Spec
CONSTANTS
  w1 = w1  w2 = w2  mina = mina  ali = ali  sara = sara
  p0 = p0  p1 = p1  p2 = p2  k1 = k1  k2 = k2
  Workers = {w1, w2}
  MemberIds = {mina, ali, sara}
  Creator = mina
  Phones = {p0, p1, p2}
  CreatorPhone = p0
  InviteIds = {k1, k2}
  MaxAdmins = 2
  Null = Null
SYMMETRY Symmetry
INVARIANTS CreatorStays PendingHasNoRole PhonesUnique DecisionIsTheMembership LimitsHold
CHECK_DEADLOCK FALSE
