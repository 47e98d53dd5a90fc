SPECIFICATION BoundarySpec
CONSTANTS
  Clients = {}
  Mcp = Mcp
  ReserveMcp = TRUE
  ExtractionLimit = 3
  MediaLimit = 1
  Window = 2
  TicksPerSecond = 1
  MaxIdentities = 1
  MaxTime = 3
  Posts = {p1, p2, p3}
  Messages <- MCMessages
  NoSession = "none"
  Canonical <- MCCanonical
  MaxActive = 1
INVARIANTS
  RegistryTellsTheTruth
PROPERTIES
  ReserveIsForActiveCalls
SYMMETRY MCSymmetry
