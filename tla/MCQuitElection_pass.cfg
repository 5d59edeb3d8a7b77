CONSTANTS
  Bots = {0, 1, 2}
  None = None
  Policies = {{}, {0}}
  max_peers = 4
  Limit = 2
  WarmUp = 2
  ListPeriod = 1
  Patience = 1
  Lag = 1
  MaxArrivals = 3
  MaxMishaps = 1

SPECIFICATION FairSpec

PROPERTY NoStampede
PROPERTY SurplusEnds
