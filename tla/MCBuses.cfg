SPECIFICATION Spec
CONSTANTS
  Wirings = {w1, w2}
  NoWiring = NoWiring
  Baudrates = {1, 2}
  SpiFormats <- MCFormats
  SpiSlots = 2
  SpiChunk = 4
  SpiFill = 2
  SpiLengths = {0, 1, 2, 3, 5}
  Texts <- MCTexts
  UartErrors = {"framing", "overrun"}
  UartQueueLength = 2
  Pulls <- MCPulls
  IrqMasks <- MCMasks
  RmtCapacity = 2
  RmtLengths = {0, 1, 3}
  Delays = {1, 2}
INVARIANT TypeOK HardwareMatches ReportsKept SentWhole
