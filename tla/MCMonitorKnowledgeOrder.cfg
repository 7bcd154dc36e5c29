SPECIFICATION Spec
CONSTANTS
  Objects = {k1}
  Routes <- MCRoutes
  Controls <- MCControls
  MaxRoutes = 3
  MaxSources = 1
  None = None
INVARIANT HighestAuthorityIsPreferred
