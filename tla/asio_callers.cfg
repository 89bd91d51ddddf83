SPECIFICATION Spec
CONSTANTS
  EndPoint = {e1}
  Caller = {c1,c2}
  Clearer = {c1,c2}
  Prober = prober
  Socket = {s1,s2,s3,s4}
  MaxConn = 3
  MinConn = 2
  NoEndPoint = NoEndPoint
  NoSocket = NoSocket
  NoActor = NoActor
SYMMETRY CallerSocketSymmetry
INVARIANTS TypeOK SingleCustody PoolBounded OnlyConnectedPools
PROPERTIES ImplementsCustody
