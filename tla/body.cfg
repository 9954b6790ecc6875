SPECIFICATION Spec
CONSTANTS
  Requests <- SmallRequests
CHECK_DEADLOCK FALSE
INVARIANTS TypeOK Intact AllButTheLast
