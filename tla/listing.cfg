SPECIFICATION Spec
CONSTANTS
  Keys = {2, 3, 4, 5}
  Views <- MCViews
  Starts = {0, 3}
  MaxKeys = {0, 1, 2}
  ScanPage = 2
  Stamps = {1, 2, 3, 4, 5, 6}
  Contents <- MCContents
  Null = Null
  None = None
  MaxWrites = 2
  MaxFaults = 1
CHECK_DEADLOCK FALSE
INVARIANTS TypeOK NothingMissed  
PROPERTY ListingEnds
