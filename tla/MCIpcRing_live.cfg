CONSTANTS
  Peers = {p1, p2}
  Broadcast = Broadcast
  Nobody = Nobody
  command_buffer = 2
  MaxCommands = 2
  Faults = {"unlock"}

SPECIFICATION FairSpec

PROPERTY CatchesUp
