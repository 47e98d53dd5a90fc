SPECIFICATION FairSpec
CONSTANTS
  Handlers = {h1, h2}
  McpEnabled = TRUE
INVARIANTS
  TunnelsAreAccounted
  AnswersOnce
  ShutdownReachesAll
PROPERTIES
  ShutdownEnds
CHECK_DEADLOCK FALSE
