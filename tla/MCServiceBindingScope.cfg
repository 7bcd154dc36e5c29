SPECIFICATION Spec
CONSTANTS
  Pipes <- MCPipes
  Contents <- MCPair
  Role <- MCRole
  Profiled <- MCProfiled
  MaxNodes = 2
  MaxReplugs = 0
  WalksAreCut = FALSE
  None = None
INVARIANT OnlyScopedUniqueness
