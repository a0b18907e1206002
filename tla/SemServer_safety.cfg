\* Three slots for at most two children: the limit is the semaphore's.
CONSTANTS
  c1 = c1  c2 = c2  c3 = c3
  p1 = p1  p2 = p2  p3 = p3
  NoConn = NoConn
  Clients <- TwoClients
  Pids <- ThreePids
  Max = 2
  Backlog = 2
  Writes = 2
  MaxQ = 1
SPECIFICATION Spec
INVARIANTS TypeOK ConnectionPrivate
PROPERTIES PermitsConserved ServiceSpec
SYMMETRY Symmetry
\* The server really may stop: two failed fork() calls lose both permits.
CHECK_DEADLOCK FALSE
