SPECIFICATION Spec
CONSTANTS
  g1 = g1
  g2 = g2
  Goroutine = {g1, g2}
  httpHeaders = httpHeaders
  policyName = policyName
  LockName = {httpHeaders, policyName}
  Nobody = Nobody
  MaxRetries = 1
  MaxCalls = 2
  MaxPages = 2
  b1 = b1
  b2 = b2
  NodeTag = {b1, b2}
  k1 = k1
  k2 = k2
  SysLink = {k1, k2}
  l1 = l1
  l2 = l2
  Lag = {l1, l2}
  NoLag = NoLag
  MaxNodeChanges = 1
  MaxNodeCalls = 1
INVARIANTS LockExclusion WaitsAreOver CreatesAtMostOnce NilMeansDone AnswersWereTrue
PROPERTIES ImplementsLock LockReturns PollReturns DeadlineEndsCall
CHECK_DEADLOCK FALSE
