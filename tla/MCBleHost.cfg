SPECIFICATION FairSpec
CONSTANTS
  Links = {l1, l2}
  NoLink = NoLink
  NSlots = 1
  MaxLinks = 2
  Capacity = 1
INVARIANTS TypeOK TablesMatchHost ScanReported FlagsMatchHost
PROPERTY ReadsEnd
