SPECIFICATION StreamSpec
CONSTANTS
  c1 = c1
  c2 = c2
  Conn = {c1, c2}
  MaxMsg = 2
INVARIANT NoSendOnClosedErrChan
SYMMETRY Symmetry
CHECK_DEADLOCK FALSE
