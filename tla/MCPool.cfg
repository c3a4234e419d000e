SPECIFICATION FairSpec
CONSTANTS
  Items = {i1, i2}
  Requests = {a1, a2, a3, b1}
  Blocking = {b1}
  None = None
INVARIANTS TypeOK UniqueOwner LossesCharged SendersInv NoWaiterAfterClose
PROPERTIES ServedInOrder PromiseSpec CloseReleasesWaiters HandoverCompletes
CHECK_DEADLOCK FALSE
