SPECIFICATION FairSpec
CONSTANTS
  Channels = {c1}
  c1 = c1
  DEFAULT_PERIOD_CYCLES = 5
  Periods = {1, 4}
  Duties = {5}
  BridgeRegs = {"dir", "brake"}
  APPLY_ON_PERIOD_END = TRUE
  PeriodFirst = TRUE
INVARIANTS CounterInPeriod WholePulses RunsAsApplied
PROPERTIES LegsSwitchAtBoundary ImplementsPromise RequestsAnswered
