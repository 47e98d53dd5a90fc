SPECIFICATION Spec
CONSTANTS
  Clients = {c1, c2, c3}
  Mcp = Mcp
  ReserveMcp = FALSE
  ExtractionLimit = 2
  MediaLimit = 1
  Window = 3
  TicksPerSecond = 2
  MaxIdentities = 2
  MaxTime = 3
INVARIANTS
  RollingWindow
  RetryAfterHonoured
  NoIdleIdentity
PROPERTIES
  ForgetsOnlyTheOldest
SYMMETRY MCSymmetry
