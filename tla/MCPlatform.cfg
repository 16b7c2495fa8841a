SPECIFICATION PlatformSpec
CONSTANTS
  s1 = s1
  s2 = s2
  o1 = o1
  o2 = o2
  Seeders = {s1, s2}
  Categories = 2
  MaxCommands = 3
  Sessions = {s1, s2}
  Settings <- MCSettings
  InStock = 1
  Levels = {1}
  Restocks = {1}
  LowStock = 2
  MaxQuantity = 1
  MaxAttempts = 2
  MaxStocked = 2
  MaxCycles = 2
  MaxCrashes = 1
  Walkers = {s1, s2}
  Orders = {o1, o2}
  MinAge = 1
  MaxLag = 1
  Plans <- MCPlans
  MaxDeaths = 1
  Entities = {e1}
  Runs = {r1, r2}
  Retention = 2
  MaxRead = 1
  MaxFlushes = 3
  MaxFailures = 1
  Registrars = {r1, r2}
  Schemas = {"a", "b"}
  Unsupported = {"b"}
  MaxCommits = 2
  MaxUses = 2
  Clients = {c1}
  MaxCalls = 3
  MaxExpiries = 2
  Boots = {b1, b2}
  Connections <- MCConnections
  ConnectionInputs <- MCConnectionInputs
  OutputVariables <- MCOutputVariables
  ConfigVariables <- MCConfigVariables
  Pools <- MCPools
  MaxVersions = 2
  MaxChanged = 2
INVARIANTS
  PlatformTypeOK
  BringUpIsSound
  StockIsAccounted
  ReferencesResolve
  AtMostOneTornOrder
  LakeKeepsItsRows
  ControlPlaneIsSound
PROPERTIES
  OrdersMoveSoundly
CHECK_DEADLOCK FALSE
