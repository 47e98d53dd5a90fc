SPECIFICATION FairProcessSpec
CONSTANTS
  OutputLimit = 3
  StderrLimit = 1
  ReadChunk = 2
  PipeSize = 2
  MaxWritten = 4
  MaxCancels = 2
  TargetKind = "story"
INVARIANTS
  NoStarvedChild
  VerdictOnWholeOutput
PROPERTIES
  KeepsTheChild
  ExtractionEnds
CHECK_DEADLOCK FALSE
