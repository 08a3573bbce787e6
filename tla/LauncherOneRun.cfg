SPECIFICATION FairSpec
CONSTANTS
  Launchers = {run1}
  Routes <- MCRoutes
  Patched = {"fp23"}
  Immediate = {"fp23"}
  Targets <- MCMoreTargets
  Exe = "exe"
  Box = "box86"
  LegacyOrder <- MCLegacyOrder
  BindOrder <- MCMoreBindOrder
  CleanupOrder <- MCMoreCleanupOrder
  LateTargets = {"d3d8"}
  Images <- MCImages
  Stock = "stock"
  Foreign = "foreign"
  Bundle <- MCMoreBundle
  StaleMounts <- MCMoreStaleMounts
  Kinds = {"explorer", "helper", "game"}
  MaxTries = 2
  Free = Free
  Knobs <- MCKnobs
  Settings <- MCSettings
  Cap <- MCCap
  CapRank <- MCRank
  RestoreRank <- MCRank
  MaxBoots = 1
PROPERTIES
  CleanupEnds
CHECK_DEADLOCK FALSE
