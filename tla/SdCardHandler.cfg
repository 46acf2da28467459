SPECIFICATION Spec
CONSTANTS
  Handler = handler
  Clients = {client}
  MaxRaces = 1
  MaxPacket = 2
  MaxMessages = 2
  QueueDepth = 1
INVARIANTS
  TypeOK
  SafeSwitch
  CountDrift
  HandlerNotRefused
  UploadReported
PROPERTIES
  ChangeCompletes
