\* One request; the signal comes at any time.
SPECIFICATION LifeSpec
CONSTANTS
  Handlers = {h1, h2}
  Ticker = ticker
  Closer = closer
  BatchSize = 2
  HistorySize = 2
  MaxRecords = 2
  MaxRestarts = 0
INVARIANT GracefulShutdown
CHECK_DEADLOCK FALSE
