SPECIFICATION Spec
CONSTANTS
  Service = {i1, i2}
  EndPoint = {e1}
  LocalEndPoint = {e1}
  Node = {n1, n2, n3}
  PlanLimit = 1
  Freed = Freed
  NoGet = NoGet
SYMMETRY Symmetry
INVARIANTS TypeOK NoOrphans FailsOnlyAfterAll TriesBackendsUnlessLost
