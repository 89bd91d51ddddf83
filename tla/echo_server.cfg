SPECIFICATION FairSpec
CONSTANTS
  PoolSize = 2
  Stopper = {"impl", "user"}
  Connection = {c1, c2, c3}
  Thread = {c1, c2, c3}
  NoConn = NoConn
  Limits <- AllLimits
INVARIANTS TypeOK NoDangling CountedOnce QuietOnReturn
PROPERTIES StopEndsServe
CHECK_DEADLOCK FALSE
