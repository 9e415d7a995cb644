SPECIFICATION FairSpec
CONSTANTS
  NoBeat = NoBeat
  Addr = {a0, aBad}
  BadAddr = {aBad}
  Data = {d1, d2}
  Zero = d0
  MaxOutstanding = 2
  Wrappers = {"gpio", "motor"}
  Serial = TRUE
PROPERTIES ImplementsSlave AccessesAnswered
