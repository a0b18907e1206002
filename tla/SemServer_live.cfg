\* Progress of the handler and of the father.
CONSTANTS
  c1 = c1  c2 = c2  c3 = c3
  p1 = p1  p2 = p2  p3 = p3
  NoConn = NoConn
  Clients <- OneClient
  Pids <- TwoPids
  Max = 2
  Backlog = 2
  Writes = 1
  MaxQ = 1
SPECIFICATION FairSpec
PROPERTIES ChildReaped ServiceResumes
\* The server really may stop: failed fork() calls lose its permits.
CHECK_DEADLOCK FALSE
