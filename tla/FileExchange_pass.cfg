CONSTANTS
  Names <- AllNames
  MaxReq = 3
SPECIFICATION Spec
INVARIANTS TypeOK FileOfRequest FallsBehind
PROPERTIES ClientGoesOn ServerLetsGo
\* A session ends.
CHECK_DEADLOCK FALSE
