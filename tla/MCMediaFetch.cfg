SPECIFICATION FairSpec
CONSTANTS
  Urls = {good, other, bad}
  Allowed = {good, other}
  NoUrl = NoUrl
  MaxRedirects = 2
  HasDeadline = TRUE
  MaxCancels = 2
  MaxBytes = 4
  CallerMax = {2}
  ChunkSize = 2
  PrefixSize = 2
INVARIANTS
  BodyIsWhole
  EveryHopIsChecked
PROPERTIES
  KeepsTheConnection
  FetchSettles
CHECK_DEADLOCK FALSE
