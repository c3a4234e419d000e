SPECIFICATION Spec
CONSTANTS
  MsPerMinute = 4
  MAX_RPM = 4
  rate_limit_per_minute = 3
  rate_limit_burst = 2
  trust_proxy = TRUE
  EvictAfter = 4
  EvictEvery = 1
  Handlers = {h1, h2}
  peer = peer
  proxy = proxy
  Addresses = {peer, proxy}
  Private = {proxy}
  Shapes <- RequestShapes
  None = None
  MaxPause = 1
  MaxTime = 6
  MaxChecks = 4
INVARIANTS RateTypeOK TokensExact AdmittedBound
PROPERTIES EvictedWhenFull
CHECK_DEADLOCK FALSE
