SPECIFICATION Spec
CONSTANTS
  Clients = {r1, r2}
  Conns = {c1, c2, c3}
  PoolSize = 1
  MaxCmds = 2
  MaxPush = 1
  None = None
SYMMETRY Symmetry
INVARIANTS PoolSound OwnReply AtMostOnceInOrder
