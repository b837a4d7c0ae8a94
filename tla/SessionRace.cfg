SPECIFICATION Spec
CONSTANTS
  a1 = a1
  a2 = a2
  App = {a1, a2}
  MaxOps = 3
  MaxMonitor = 2
  LogoutAlone = FALSE
INVARIANT TokenMeansMonitor
CHECK_DEADLOCK FALSE
