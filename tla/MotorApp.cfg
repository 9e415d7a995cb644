SPECIFICATION FairSpec
CONSTANTS
  DutySels = {3, 7}
  MaxBoots = 2
INVARIANTS WholeSetting DisplayTells
PROPERTY Follows
