SPECIFICATION MCSpec
CONSTANTS
  Monitors = {m1, m2}
  Ports = {p1, p2, p3}
  Unsupported = p3
  FirstMonitor = m1
  FirstPort = p1
  DisplayIds = {1, 2}
  Values = {0, 1}
  Requests <- MCRequests
  Uuid <- MCUuid
  Product <- MCProduct
  PortProvider <- MCPortProvider
  MaxRetries = 1
  MaxDelay = 1
  MaxAttaches = 1
  NoLink = NoLink
  NoIdentity = NoIdentity
  NoRequest = NoRequest
  NoValue = NoValue
  NoResult = NoResult
INVARIANTS TypeOK OneMonitorPerCall VerifiedIsTheTarget WindowIsExhausted
PROPERTIES SetIsNeverRepeated AnswersAreHonest CallReturns
