SPECIFICATION OrchestrationSpec
CONSTANTS
  a1 = a1
  a2 = a2
  b = b
  h = h
  A = A
  B = B
  cap = cap
  Handlers = {h}
  Plugins <- MCPlugins
  PluginIds <- MCIds
  Id <- MCId
  Capabilities = {cap}
  Supports <- MCSupports
  ReasonCapability = cap
  CodeCapability = cap
  Tasks <- MCTasks
  InitialSubscribers <- MCSubscribers
  Loads = {}
  Permitted <- MCPermitted
  Faults = {"execute", "handle", "result"}
  Reuse = FALSE
  MaxCalls = 4
  MaxDepth = 6
CHECK_DEADLOCK FALSE
INVARIANTS
  EveryCandidateIsTried
  ResultsAreTheRuns
