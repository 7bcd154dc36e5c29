SPECIFICATION Spec
CONSTANTS
  Pipes <- MCPipes
  Contents <- MCTwins
  Role <- MCRole
  Profiled <- MCProfiled
  MaxNodes = 2
  MaxReplugs = 2
  WalksAreCut = FALSE
  None = None
INVARIANT EdidComesFromSelectedDisplay
