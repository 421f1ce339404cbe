SPECIFICATION FairCommandSpec
CONSTANTS
  steady = steady
  shaky = shaky
  plain = plain
  other = other
  good = good
  bad = bad
  NoPatch = NoPatch
  Tasks = {steady, shaky, plain, other}
  RepoTasks = {steady, shaky}
  Patches = {good, bad}
  Verdicts <- MCVerdicts
  Suites <- MCSuites
  SuiteOf <- MCSuiteOf
  Runs = {0, 1, 2}
  Limits <- MCLimits
  Absent = Absent
  NotGiven = NotGiven
  MaxRows = 2
CHECK_DEADLOCK FALSE
INVARIANTS
  Monotone
  ReportAgrees
  NoRegressionReported
  ExitTellsTheRun
PROPERTIES
  CreditIsEarned
  CommandEnds
