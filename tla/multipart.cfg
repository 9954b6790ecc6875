SPECIFICATION Spec
CONSTANTS
  Threads = {t1, t2}
  Uploads = {u1}
  NParts = 2
  Contents = {a, b}
  Small = {b}
  NoPart = NoPart
  Absent = Absent
  MaxRows = 2
  MaxRequests = 4
  MaxFaults = 1
SYMMETRY Symmetry
CHECK_DEADLOCK FALSE
INVARIANTS TypeOK FlagMatchesReferences AcksAreTrue
PROPERTIES CompletedAsAsked UploadsAreNotLost
