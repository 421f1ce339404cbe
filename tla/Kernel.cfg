SPECIFICATION MCSpec
CONSTANTS
  a1 = a1
  a2 = a2
  b = b
  h = h
  A = A
  B = B
  cap = cap
  MaxBusy = 4
  Handlers = {h}
  Plugins <- MCPlugins
  PluginIds <- MCIds
  Id <- MCId
  Capabilities = {cap}
  Supports <- MCSupports
  InitialSubscribers <- MCSubscribers
  Loads <- MCLoads
  Permitted <- MCPermitted
  Faults = {"initialize", "shutdown", "execute", "handle"}
  Reuse = FALSE
  MaxCalls = 5
  MaxDepth = 12
CHECK_DEADLOCK FALSE
INVARIANTS
  TypeOK
  LogExplainsRegistry
  ShutdownLeavesNothing
  OneOutcome
  ExecutorSupportsCapability
PROPERTIES
  LedgerSpec
  LifecycleMatchesRegistry
  CallsReturn
