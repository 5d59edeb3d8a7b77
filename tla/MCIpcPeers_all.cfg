CONSTANTS
  Procs = {p1, p2}
  Server = Server
  Nobody = Nobody
  max_peers = 2
  MaxSegs = 2
  Deployments <- Everything

SPECIFICATION FairSpec

INVARIANT SlotExclusive
INVARIANT AttachedSetUp
PROPERTY OrphansReclaimed
PROPERTY SweptHeals

CHECK_DEADLOCK FALSE
