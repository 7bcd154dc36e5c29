SPECIFICATION Spec
CONSTANTS
  Objects = {k1, k2}
  Routes <- MCRoutes
  Controls <- MCControls
  MaxRoutes = 3
  MaxSources = 2
  None = None
SYMMETRY MCSymmetry
INVARIANTS TypeOK FactsAreBoundedAndDistinct MergeIsAllOrNothing
  PreferredIsMostTrusted ConflictIsReal ViewIsComplete
