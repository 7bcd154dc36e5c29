SPECIFICATION Spec
CONSTANTS
  Pipes <- MCPipes
  Contents <- MCContents
  Role <- MCRole
  Profiled <- MCProfiled
  MaxNodes = 2
  MaxReplugs = 1
  WalksAreCut = TRUE
  None = None
INVARIANTS TypeOK StaysOnSelectedDisplay CapabilitiesAreHonest
  ReferencesAreReleased SiblingsDoNotMatter
