SPECIFICATION Spec
CONSTANTS
  m1 = m1
  m2 = m2
  u1 = u1
  u2 = u2
  Mutex = {m1, m2}
  User = {u1, u2}
  UserOf <- MCUserOf
  MaxCalls = 3
  MaxFaults = 1
  MaxForced = 1
INVARIANT UnlockReleases
CHECK_DEADLOCK FALSE
