SPECIFICATION Spec
CONSTANTS
  Threads = {t1, t2}
  Values = {"a", "b"}
  Conds <- AllConds
  Stores = {"memory", "sqlite"}
  InitMode = ""
  Settable = {}
  MaxOps = 3
CHECK_DEADLOCK FALSE
PROPERTIES IsRegister
