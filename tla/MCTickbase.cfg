CONSTANTS
  kMaxShift = 4
  ServerTicks = {0, 1, 2}

SPECIFICATION FairSpec

INVARIANT Settled
INVARIANT OneShift
PROPERTY GoalReturns
