SPECIFICATION Spec
CONSTANTS
  Service = {i1}
  EndPoint = {e1, e2}
  LocalEndPoint = {}
  Node = {n1, n2, n3, n4}
  PlanLimit = 3
  Freed = Freed
  NoGet = NoGet

INVARIANTS TriesOnlyBackends
