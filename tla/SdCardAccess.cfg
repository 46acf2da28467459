SPECIFICATION AccessSpec
CONSTANTS
  Handler = handler
  Clients = {c1, c2}
  MaxRaces = 1
INVARIANTS
  VolumesAgree
