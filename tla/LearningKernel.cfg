SPECIFICATION LearnSpec
CONSTANTS
  a = a
  b = b
  h = h
  m = m
  A = A
  B = B
  cap = cap
  other = other
  Handlers = {h, m}
  Plugins <- MCPlugins
  PluginIds <- MCIds
  Id <- MCId
  Capabilities = {cap, other}
  Supports <- MCSupports
  InitialSubscribers <- MCSubscribers
  Loads = {}
  Permitted <- MCPermitted
  Faults = {"execute", "handle", "result"}
  Reuse = FALSE
  MaxCalls = 5
  MaxDepth = 8
  Memory = m
  Strategy = "memory_best"
  Durations = {0, 2}
  Unavailable <- MCUnavailable
CHECK_DEADLOCK FALSE
INVARIANTS
  MemoryIsComplete
PROPERTIES
  KernelSpec
  RoutesToWhatWorks
