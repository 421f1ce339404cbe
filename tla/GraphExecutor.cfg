SPECIFICATION FairSpec
CONSTANTS
  n1 = n1
  n2 = n2
  n3 = n3
  l1 = l1
  l2 = l2
  Nodes = {n1, n2, n3}
  Labels = {l1, l2}
  OfferedEdges <- MCEdges
  MaxEdges = 3
INVARIANTS
  RefusesCyclesOnly
  ResultTellsTheRun
PROPERTIES
  RunsInDependencyOrder
  RunsEnd
