SPECIFICATION FairSpec
CONSTANTS
  Capacity = 1
  MaxResults = 2
  MaxPosted = 2
INVARIANTS TypeOK ScanFlagHonest ResultsOfOneScan LinkHonest
PROPERTIES CauseReported ScanFinishes
CHECK_DEADLOCK FALSE
