SPECIFICATION Spec
CONSTANTS
  Gateways = {g1}
  Writers = {w1}
  Labels = {l1}
  NKeys = 1
  PageSize = 1
  p = p
  e = e
  Plain = {p}
  KeyBearing = {e}
  Objects <- OneMixed
  Recipients = {r1}
  NoRecipient = NoRecipient
  Absent = Absent
  Loop = Loop
  Idle = Idle
  SnapshotsSurviveDelete = TRUE
  MaxWrites = 2
  MaxCommits = 2
  MaxFaults = 1
  MaxStops = 1
  MaxDeletes = 1
  MaxRestores = 1
CHECK_DEADLOCK FALSE
INVARIANTS TypeOK KeysAreSealed ChainWellFormed
