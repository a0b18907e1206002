CONSTANTS
  c1 = c1  c2 = c2
  p1 = p1  p2 = p2
  NoConn = NoConn
  Clients <- OneClient
  Pids <- TwoPids
  Backlog = 1
  Writes = 2
  MaxLines = 2
SPECIFICATION FairSpec
INVARIANTS TypeOK RepliesMatch
PROPERTIES PoolShrinks Released ShutsDown
\* The server stops: after SIGINT, or when its children are dead.
CHECK_DEADLOCK FALSE
