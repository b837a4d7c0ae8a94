SPECIFICATION GoroutinesSpec
CONSTANTS
  c1 = c1
  c2 = c2
  c3 = c3
  b1 = b1
  b2 = b2
  succeeded = succeeded
  Conclusive = {succeeded}
  NoCall = NoCall
  Blueprint = {b1, b2}
  HasErrChan = FALSE
  MaxQueued = 1
  Call = {c1, c2, c3}
  BpOf <- MCBpOf

  n1 = n1
  n2 = n2
  Conn = {n1, n2}
  MaxMsg = 2
SYMMETRY Symmetry
INVARIANTS TypeOK NoLostWakeup WaitersKnown NoSendToFinishedCall FinalResultsOnly OuterMapExact
           NothingLost ServesUntilStop
CHECK_DEADLOCK FALSE
