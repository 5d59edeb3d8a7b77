CONSTANTS
  Bots = {0, 1, 2}
  None = None
  Policies = {{}}
  max_peers = 3
  Limit = 2
  WarmUp = 3
  ListPeriod = 2
  Patience = 2
  Lag = 2
  MaxArrivals = 3
  MaxMishaps = 0

SPECIFICATION FairSpec

PROPERTY GivesUpAwaited
