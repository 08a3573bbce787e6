SPECIFICATION FairSpec
CONSTANTS
  StallTicks = 2
  MaxFaults = 3
  MayFail = TRUE
INVARIANTS
  SinkInv
  RefsBalanced
PROPERTIES
  CallsReturn
  KeepsContract
