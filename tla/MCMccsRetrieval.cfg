SPECIFICATION FairSpec
CONSTANTS
  Texts <- MCTexts
  Manners <- MCManners
  FragmentMax = 5
  MaxBytes = 10
  MaxRequests = 3
  OffsetMax = 10
  MaxCalls = 2
  None = None
  MaxTextBytes = 10
  MaxNesting = 3
  MaxFeatures = 2
  MaxEnumValues = 2
INVARIANTS TypeOK CollectedInOrder RetrievalIsBounded NothingPartialIsPublished
  FullSizeIsRetrievable ParserFollowsGrammar
PROPERTY RetrievalEnds
CHECK_DEADLOCK FALSE
