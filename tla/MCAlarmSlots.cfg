SPECIFICATION FairSpec
CONSTANTS
  Capacity = 2
  MaxGeneration = 2
  MaxPending = 2
  Owner = owner
  Worker = worker
INVARIANTS OneOperationPerSlot SlotsMatchTimers OneShotOnce
PROPERTIES OwnEventsOnly ReleaseCompletes
