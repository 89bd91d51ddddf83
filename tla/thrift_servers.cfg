SPECIFICATION Spec
CONSTANTS
  Server = {remote1, remote2, local}
  LocalServer = {local}
  Pool = {p1, p2, p3}
  Conn = {x1, x2}
  Caller = {c1, c2}
  NoServer = NoServer
  NoPool = NoPool
  NoConn = NoConn
  NoCaller = NoCaller
SYMMETRY Symmetry
INVARIANTS TypeOK EachPoolOnce HeldAlive NoServerSkipped
PROPERTIES QueuedOnlyShrinks
\* A pool that was destroyed, and left nothing behind, rests.
CHECK_DEADLOCK FALSE
