SPECIFICATION TradingSpec
\* Orders end, runners and loops stop: each part may come to rest.
CHECK_DEADLOCK FALSE
CONSTANTS
  MaxPaperPrice = 3
  MaxPaperTrades = 2
  MaxRecords = 2
  SpotSymbols = {a, b}
  MaxSpotPrice = 3
  InitialBalance = 4
  MaxSales = 2
  MaxSpotRestarts = 1
  Pairs = {a, b}
  MaxOpenPositions = 1
  MaxCoins = 2
  Signals = {s}
  Shown = 2
  ShownAtStart = 3
  SeenLimit = 3
  MaxFills = 4
  MaxCounts = 2
  MaxStarts = 1
  EntryOrders = {e1}
  ExitOrders = {x}
  Page = 1
  MaxRelists = 1
  Handlers = {h1, h2}
  Updaters = {u1, u2, u3}
  MaxHeld = 3
INVARIANTS
  TradingTypeOK
  WatchedWithOwnStops
  
  BooksBalance
  GuardedUnlessRestored
  
  FillsCountOnce
  
  LockIsCurrent
  ConflictsAreReported
  PullsAreExclusive
  PanicLeavesNothing
  HoldFollowsOwner
