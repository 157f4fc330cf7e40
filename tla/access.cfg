SPECIFICATION Spec
CONSTANTS
  w1 = w1  w2 = w2  pa = pa  pb = pb  k1 = k1  k2 = k2  s1 = s1  s2 = s2
  Workers = {w1, w2}
  Passwords = {pa, pb}
  FirstPassword = pa
  CodeIds = {k1, k2}
  SessionIds = {s1, s2}
  MaxFails = 1
  Null = Null
SYMMETRY Symmetry
INVARIANTS LockHolds SessionsAreOfMembers ResetEndsSessions
PROPERTIES CodeLetsOneThrough
CHECK_DEADLOCK FALSE
