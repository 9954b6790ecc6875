SPECIFICATION Spec
CONSTANTS
  Puts = {p1}
  Sweeper = Sweeper
  Pilot = Pilot
  NoInfo = NoInfo
  NotFound = NotFound
  NoAnswer = NoAnswer
  Interval = 1
  Cycle = 2
  MinTTL = 8
  TargetTTL = 10
  DiluteNum = 17
  DiluteDen = 20
  BucketDepth = 0
  ChequeMin = 1
  ChequeTarget = 2
  Reserve = 59
  Batches <- SmallBatches
  Wallets = {60}
  Gas = 2
  Cheque = 0
  MaxTime = 6
  MaxPuts = 2
  MaxFaults = 1
  MaxCheques = 1
CHECK_DEADLOCK FALSE
INVARIANTS TypeOK  KeptAlive
PROPERTIES DilutedWhenFull ToppedUpOnce ReserveWithoutPilot
