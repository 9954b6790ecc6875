SPECIFICATION FairSpec
CONSTANTS
  Gateways = {g1}
  Writers = {w1, w2}
  Labels = {}
  NKeys = 2
  PageSize = 1
  p = p
  e = e
  Plain = {p}
  KeyBearing = {e}
  Objects <- PlainOrSealed
  Recipients = {r1}
  NoRecipient = NoRecipient
  Absent = Absent
  Loop = Loop
  Idle = Idle
  SnapshotsSurviveDelete = TRUE
  MaxWrites = 3
  MaxCommits = 4
  MaxFaults = 0
  MaxStops = 0
  MaxDeletes = 1
  MaxRestores = 0
CHECK_DEADLOCK FALSE
INVARIANTS QuietMeansCommitted
PROPERTIES DirtyIsCommitted RecipientResumesChain
