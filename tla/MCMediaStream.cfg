SPECIFICATION FairSpec
CONSTANTS
  Clients = {c1, c2}
  Leases = {r1, o1, o2}
  Streams = {r1}
  MaxExtractions = 1
  MaxDownloads = 2
  MaxDownloadsPerClient = 1
  Length = 4
INVARIANTS
  UpstreamCoveredBySlot
  DeliveredWhole
  OneTerminalEvent
PROPERTIES
  ImplementsLimiter
  ResumeUnderSlot
  SlotsComeBack
