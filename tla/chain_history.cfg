SPECIFICATION HistorySpec
CONSTANTS
  Gateways = {g1}
  Writers = {w1}
  Labels = {l1}
  NKeys = 1
  PageSize = 2
  p = p
  e = e
  Plain = {p}
  KeyBearing = {e}
  Objects <- Mixed
  Recipients = {r1}
  NoRecipient = NoRecipient
  Absent = Absent
  Loop = Loop
  Idle = Idle
  SnapshotsSurviveDelete = TRUE
  MaxWrites = 2
  MaxCommits = 2
  MaxFaults = 1
  MaxStops = 1
  MaxDeletes = 1
  MaxRestores = 1
CHECK_DEADLOCK FALSE
INVARIANTS  RollbackIsReal
PROPERTIES  HeadAdvancesByOne
