SPECIFICATION Spec
CONSTANTS
  Clients = {c1, c2, mcp}
  Leases = {l1, l2, l3}
  MaxExtractions = 2
  MaxDownloads = 1
  MaxDownloadsPerClient = 1
  Capacity = 4
  Ttl = 2
  Batches = {1, 3}
  MaxIssued = 8
  MaxTime = 4
INVARIANTS
  SlotIffRunning
  LinksKept
PROPERTIES
  RefusedOnlyWhenFull
SYMMETRY MCSymmetry
