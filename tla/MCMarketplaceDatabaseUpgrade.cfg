SPECIFICATION DatabaseSpec
CONSTANTS
  Seeders = {s1}
  Categories = 1
  MaxCommands = 1
INVARIANT UpgradeHeadIsEnough
CHECK_DEADLOCK FALSE
