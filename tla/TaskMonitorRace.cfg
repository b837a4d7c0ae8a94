SPECIFICATION Spec
CONSTANTS
  c1 = c1
  c2 = c2
  b1 = b1
  succeeded = succeeded
  Conclusive = {succeeded}
  NoCall = NoCall
  Blueprint = {b1}
  HasErrChan = TRUE
  MaxQueued = 1
  Call = {c1, c2}
  BpOf <- MCBpOf
INVARIANT LockGuardsMap
CHECK_DEADLOCK FALSE
