SPECIFICATION FairSpec
CONSTANTS
  EndPoint = {e1}
  Caller = {c1}
  Clearer = {c1}
  Prober = prober
  Socket = {s1,s2,s3,s4}
  MaxConn = 1
  MinConn = 0
  NoEndPoint = NoEndPoint
  NoSocket = NoSocket
  NoActor = NoActor
PROPERTIES CallsReturn StatusSettles
