SPECIFICATION Spec
CONSTANTS
  Parts <- SmallParts
  Sizes = {0, 1, 2, 3}
  Asks <- SmallAsks
  Numbers = {1, 3, 6, 7}
CHECK_DEADLOCK FALSE
INVARIANTS ServedAsAsked PartsListedOnce
