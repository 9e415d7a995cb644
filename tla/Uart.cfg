SPECIFICATION Spec
CONSTANTS
  Ticks = 16
  DataBits = 2
  Bytes <- MCBytes
  Depth = 2
  Rates <- MCRates
  Drains = TRUE
  NoByte = NoByte
INVARIANT OffersNext
PROPERTY Arrives
