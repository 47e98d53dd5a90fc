SPECIFICATION FairPageSpec
CONSTANTS
  NoEntry = 0
  MaxAttempts = 2
  MaxBatch = 2
  MaxPreviews = 2
  MaxGroups = 3
  MaxEntries = 3
  MaxRequests = 2
INVARIANTS
  OnePreviewAtATime
  BatchTellsTheTruth
PROPERTIES
  SupersededStaysQuiet
  PreviewsSettle
CHECK_DEADLOCK FALSE
