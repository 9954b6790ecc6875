SPECIFICATION Spec
CONSTANTS
  Threads = {t1, t2}
  Values = {"a"}
  Conds <- FewConds
  Stores = {"postgres"}
  InitMode = "Enabled"
  Settable = {}
  MaxOps = 3
CHECK_DEADLOCK FALSE
INVARIANTS OneLatest
