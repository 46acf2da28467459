SPECIFICATION Spec
CONSTANTS
  Handler = handler
  Clients = {client}
  MaxRaces = 0
  MaxPacket = 2
  MaxMessages = 1
  QueueDepth = 1
INVARIANT
  CopyAnswered
