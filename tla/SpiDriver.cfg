SPECIFICATION FairDriverSpec
CONSTANTS
  SPI_DW = 8
  CLKDIVIDE = 10
  Byte = {b0, b1}
  NoResult = NoResult
  Calls = {"transfer", "write", "begin", "end"}
  Patient = TRUE
INVARIANTS TransferExact BurstKeepsFrame LaunchesWhenDone BusyWhileInFlight OpenWhileSelected
PROPERTIES CallsReturn FrameEndsWithFinalByte
