SPECIFICATION FairSpec
CONSTANTS
  m1 = m1
  m2 = m2
  u1 = u1
  u2 = u2
  Mutex = {m1, m2}
  User = {u1, u2}
  UserOf <- MCUserOf
  MaxCalls = 3
  MaxFaults = 1
  MaxForced = 1
INVARIANTS IInv MutualExclusion
PROPERTIES HeldTagIsSafe ImplementsOneLock CallsReturn
CHECK_DEADLOCK FALSE
