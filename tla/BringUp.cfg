SPECIFICATION Spec
CONSTANTS
  Formats = {0, 75}
  OldValues = {0, 24}
  MaxFailures = 1
  Samples <- MCSamples
  Ticks = 11
  SweepPeriod = 4
INVARIANTS LoopReady MotorsFollow PageTells
PROPERTIES MovesSmoothly StartsUp
