SPECIFICATION FairSpec
CONSTANTS
  Caller = {c1}
  Prober = prober
  Conn = {x1, x2, x3, x4}
  min_free_conn_ = 1
  max_conn_ = 1
  NoConn = NoConn
PROPERTIES StatusFollows DestructorReturns
