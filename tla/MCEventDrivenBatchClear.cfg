SPECIFICATION Spec
CONSTANTS
  Entities = {history}
  Watched = history
  Runs <- MCRuns
  MaxRows = 1
  MaxTrouble = 0
  MaxFlushes = 2
  MaxChanges = 2
  MaxRestarts = 1
  MaxWatchFaults = 1
  MaxRunFaults = 1
PROPERTIES ClearsOnlyPreviousRuns
