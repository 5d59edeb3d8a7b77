CONSTANTS
  Peers = {p1, p2}
  Broadcast = Broadcast
  Nobody = Nobody
  command_buffer = 2
  MaxCommands = 3
  Faults = {"crash", "payload", "rescue"}

SPECIFICATION Spec
SYMMETRY Symmetry

INVARIANT RingHoldsLatest
INVARIANT HandlersMoveOn
INVARIANT OnlyAddressed
INVARIANT NewestHandled
PROPERTY ImplementsLog

CHECK_DEADLOCK FALSE
