SPECIFICATION FairSpec
CONSTANTS
  RxCapacity = 2
  TxCapacity = 2
  Chunk = 1
  EventCapacity = 2
  DriverCapacity = 1
  MaxDropped = 1
  Loads <- MCLoads
  MaxOpens = 2
INVARIANTS RingsInOrder BuffersOutliveWorker AllNotified TxIdleMeansSent
PROPERTIES CloseReturns InputAccounted OutputAccounted
CHECK_DEADLOCK FALSE
