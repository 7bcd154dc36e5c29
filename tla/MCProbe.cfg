SPECIFICATION Spec
CONSTANTS
  Targets <- MCTargets
  Declarations <- MCDeclarations
  Values = {0, 256}
  AddressCount = 3
  QuickControls <- MCQuickControls
  FailureLimit = 2
  MaxFacts = 3
  None = None
INVARIANTS TypeOK CountersMatchObservations KnowledgeIsOfOneScan AbortIsExact
