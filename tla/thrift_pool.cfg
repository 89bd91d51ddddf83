SPECIFICATION Spec
CONSTANTS
  Caller = {c1, c2}
  Prober = prober
  Conn = {x1, x2, x3, x4, x5, x6}
  min_free_conn_ = 1
  max_conn_ = 2
  NoConn = NoConn
SYMMETRY Symmetry
INVARIANTS TypeOK OnePlace Bounded
