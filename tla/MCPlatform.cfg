SPECIFICATION Spec
CONSTANTS
  EthCapacity = 2
  MaxEthPosted = 3
  Dates <- MCDates
  CalendarYears <- MCYears
  AlarmsMax = 3
  Entries = {e1, e2}
  NoEntry = NoEntry
  Updates = {u1, u2}
  SlotSize = 3
  ImageSize = 2
  ExpectedSizes = {0, 2, 4}
  WriteSizes = {1, 2}
INVARIANT TypeOK EventsTold KeptWhole LifetimesRespected
