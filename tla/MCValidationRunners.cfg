SPECIFICATION Spec
CONSTANTS
  Values = {0, 1, 2}
  Maxima = {0, 2}
  Displays <- MCDisplays
  Profiled <- MCProfiled
  InputValues = {17, 144}
  MaxPending = 3
  MaxDrops = 1
  MaxTouches = 1
  MaxCalls = 2
  None = None
INVARIANTS TypeOK ServiceIsReleased SetLands MonitorIsPutBack ReportIsTrue
CHECK_DEADLOCK FALSE
