SPECIFICATION ServerFairSpec
CONSTANTS
  Items = {i1}
  Rest = {p1}
  Sse = {s1}
  Ws = {w1}
  Requests = {p1, s1, w1}
  Blocking = {}
  None = None
  QueueCap = 1
INVARIANTS SigtermDrains
CHECK_DEADLOCK FALSE
