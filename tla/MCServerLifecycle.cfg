\* One handler, the ticker and Close flush at once; the process is killed and
\* started again once, at any point.
SPECIFICATION LifeFairSpec
CONSTANTS
  Handlers = {h1}
  Ticker = ticker
  Closer = closer
  BatchSize = 2
  HistorySize = 2
  MaxRecords = 3
  MaxRestarts = 1
INVARIANTS
  LifeTypeOK
  NeverDoubled
  NeverLost
  Bounded
  CountedBeforeListed
  QuietCloseSaves
PROPERTIES
  BufferDrains
  SignalEnds
CHECK_DEADLOCK FALSE
