SPECIFICATION FairSpec
CONSTANTS
  Items = {i1}
  Requests = {a1, a2, b1}
  Blocking = {b1}
  None = None
PROPERTIES NoIdleItemWhileWaiting
CHECK_DEADLOCK FALSE
