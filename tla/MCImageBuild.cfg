SPECIFICATION ImageSpec
CONSTANTS
  Dirs = {"hvisor", "other"}
  Configs <- MCConfigs
  MaxVersion = 2
  MaxRuns = 2
  MaxZones = 1
INVARIANTS
  ImageIsCurrent
  NamesTellTheTruth
  NothingStale
