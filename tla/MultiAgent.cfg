SPECIFICATION FairSpec
CONSTANTS
  good = good
  bad = bad
  shaky = shaky
  hinted = hinted
  Patches = {good, bad, shaky, hinted}
  Size <- MCSize
  Rejected = {bad}
  Uncovered = {hinted}
  Verdicts <- MCVerdicts
  MaxRepairs = 3
CHECK_DEADLOCK FALSE
INVARIANTS
  KnownFailuresStayOut
  TraceTellsTheRun
  MonotonicFallback
PROPERTIES
  SearchSpec
  SingleSearchSpec
  AgentEnds
