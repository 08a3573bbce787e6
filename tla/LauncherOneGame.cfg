SPECIFICATION Spec
CONSTANTS
  Launchers = {run1, run2}
  Routes <- MCRoutes
  Patched = {"fp23"}
  Immediate = {}
  Targets <- MCTargets
  Exe = "exe"
  Box = "box86"
  LegacyOrder <- MCNoLegacy
  BindOrder <- MCBindOrder
  CleanupOrder <- MCCleanupOrder
  LateTargets = {"d3d8"}
  Images <- MCImages
  Stock = "stock"
  Foreign = "foreign"
  Bundle <- MCBundle
  StaleMounts <- MCStaleMounts
  Kinds = {"explorer", "game"}
  MaxTries = 2
  Free = Free
  Knobs <- MCKnobs
  Settings <- MCSettings
  Cap <- MCCap
  CapRank <- MCRank
  RestoreRank <- MCRank
  MaxBoots = 1
INVARIANT
  OneGame
CHECK_DEADLOCK FALSE
