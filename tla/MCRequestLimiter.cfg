SPECIFICATION LimiterSpec
CONSTANTS
  Clients = {c1, c2, c3}
  Leases = {l1, l2, l3, l4}
  MaxExtractions = 2
  MaxDownloads = 3
  MaxDownloadsPerClient = 2
INVARIANTS
  SlotsAccounted
PROPERTIES
  ImplementsPool
