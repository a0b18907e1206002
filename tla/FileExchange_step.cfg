CONSTANTS
  Names <- AllNames
  MaxReq = 3
SPECIFICATION Spec
INVARIANTS FileRequested
CHECK_DEADLOCK FALSE
