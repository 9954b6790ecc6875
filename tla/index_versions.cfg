SPECIFICATION Spec
CONSTANTS
  Threads = {t1, t2}
  Values = {"a"}
  Conds <- FewConds
  Stores = {"memory", "sqlite", "postgres"}
  InitMode = "Enabled"
  Settable = {"Enabled", "Suspended"}
  MaxOps = 4
CHECK_DEADLOCK FALSE
INVARIANTS TypeOK NewestIsLatest
PROPERTIES VersionsKept ConditionHolds
