CONSTANTS
  Peers = {p1, p2}
  Broadcast = Broadcast
  Nobody = Nobody
  command_buffer = 3
  MaxCommands = 4
  Faults = {}

SPECIFICATION Spec
SYMMETRY Symmetry

INVARIANT EveryCommandProcessed

CHECK_DEADLOCK FALSE
