SPECIFICATION FairSpec
CONSTANTS
  NoBeat = NoBeat
  Addr = {a0, aBad}
  BadAddr = {aBad}
  Data = {d1}
  Zero = d0
  MaxOutstanding = 2
  Wrappers = {"i2c", "spi"}
  Pipelined = {"i2c"}
INVARIANT EveryBeatAccounted
PROPERTIES ResponsesHeld ImplementsSlave AccessesAnswered
