CONSTANTS
  p1 = p1  p2 = p2  p3 = p3  p4 = p4
  Pids <- FourPids
  MaxChildren = 2
  MaxConns = 5
SPECIFICATION Spec
INVARIANT LimitHolds
\* It stops when the bounded number of clients has come, or the father died.
CHECK_DEADLOCK FALSE
