SPECIFICATION FairSpec
CONSTANTS
  StallTicks = 2
  MaxFaults = 3
  MayFail = FALSE
INVARIANTS
  QuietWhenOff
PROPERTIES
  TransportHeals
