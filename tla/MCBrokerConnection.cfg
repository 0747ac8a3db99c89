SPECIFICATION FairSpec
CONSTANTS
  Nodes = {n1}
  Coord = coord
  q1 = q1
  p1 = p1
  x1 = x1
  Requests = {q1, p1}
  Produce = {p1}
  NoResponse = {}
  Blocking = {q1}
  Modern = {q1, p1}
  Waiters = {x1}
  Led = {}
  MaxInflight = 2
  MaxRetries = 1
  MaxFails = 1
  Confs <- MCConfs
INVARIANTS ConnectionSound
PROPERTIES ConnectionProgresses
