SPECIFICATION FairProcessSpec
CONSTANTS
  OutputLimit = 2
  PipeSize = 2
  MaxWritten = 3
  MaxCancels = 2
INVARIANTS
  VerdictFitsTheRun
PROPERTIES
  KeepsFfmpeg
  GenerationEnds
CHECK_DEADLOCK FALSE
