SPECIFICATION Spec
CONSTANTS
  EndPoint = {e1,e2}
  Caller = {c1}
  Clearer = {c1}
  Prober = prober
  Socket = {s1,s2,s3,s4}
  MaxConn = 2
  MinConn = 1
  NoEndPoint = NoEndPoint
  NoSocket = NoSocket
  NoActor = NoActor
SYMMETRY EndPointSocketSymmetry
INVARIANTS FiledUnderPeer
PROPERTIES StatusMoves
