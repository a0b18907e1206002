CONSTANTS
  NL = NL
  Junk = Junk
  Typed <- TypedNumbers
  HalfBits = 2
  IntBits = 3
  MaxLine = 2
  MaxBuf = 4
  MaxSent = 5
SPECIFICATION Spec
INVARIANTS TypeOK RepliesInOrder ClientPrints
PROPERTIES ServerResumes
\* The server stops when it is killed or exits.
CHECK_DEADLOCK FALSE
