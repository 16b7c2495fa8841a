SPECIFICATION FairSpec
CONSTANTS
  Entities = {history}
  Watched = history
  Runs <- MCRuns
  MaxRows = 1
  MaxTrouble = 1
  MaxFlushes = 2
  MaxChanges = 2
  MaxRestarts = 1
  MaxWatchFaults = 1
  MaxRunFaults = 1
INVARIANTS WatchTypeOK RunTypeOK NoStorm OneWatchChain QuietIsRight SoloRunIsClean
PROPERTIES FreshGold
