SPECIFICATION FairSpec
CONSTANTS
  BYTE_W = 1
  DIVISOR_W = 4
  Divisors = {0}
  MIN_DIVISOR = 6
  HIGH_WAIT_TIMEOUT_CLKS = 8
INVARIANTS ByteExact BitsOnWire
PROPERTIES QuietWhileHigh ImplementsCommands CommandsEnd
