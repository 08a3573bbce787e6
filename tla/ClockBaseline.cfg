SPECIFICATION ClockFairSpec
CONSTANTS
  Knobs <- MCKnobs
  Settings <- MCSettings
  Cap <- MCCap
  CapRank <- MCCapRank
  RestoreRank <- MCRestoreRank
  MaxBoots = 1
INVARIANTS
  ClockRecoverable
PROPERTIES
  HeldIsCapped
  ClockSettles
