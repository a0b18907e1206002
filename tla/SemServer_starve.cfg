\* Clients that go away use up the permits.
CONSTANTS
  c1 = c1  c2 = c2  c3 = c3
  p1 = p1  p2 = p2  p3 = p3
  NoConn = NoConn
  Clients <- OneClient
  Pids <- TwoPids
  Max = 2
  Backlog = 1
  Writes = 1
  MaxQ = 1
SPECIFICATION ClientsGoAway
PROPERTIES EveryClientAccepted
\* The server really may stop: failed fork() calls lose its permits.
CHECK_DEADLOCK FALSE
