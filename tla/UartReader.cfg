SPECIFICATION Spec
CONSTANTS
  Ticks = 16
  DataBits = 2
  Bytes <- MCBytes
  Depth = 2
  Rates <- MCRates
  Drains = FALSE
  NoByte = NoByte
INVARIANT OffersNext
