SPECIFICATION PlatformSpec
\* Backfills, runners, streams and the shell end: each part may come to rest.
CHECK_DEADLOCK FALSE
CONSTANTS
  PageSize = 2
  DaysBack = 3
  Recent = 2
  FirstNow = 3
  LastNow = 5
  Runners = {r1, r2}
  MaxBootstraps = 3
  BufferSize = 2
  MaxEvents = 4
  MaxConnects = 2
  Trainers = {p1, p2}
  FirstVersion = 6
  MaxTrainings = 3
  FeedSymbols = {a, b}
  MaxOnWire = 3
  MaxUpdates = 3
  MaxBreaks = 2
  ClosedPerBatch = 2
  MinClosedTrades = 3
  MaxScore = 2
  MaxClosedTrades = 7
  MaxServiceStarts = 1
INVARIANTS
  PlatformTypeOK
  CleanBackfillIsWhole
  RunnersMigrateSafely
  NothingSkipped
  PageShowsNewest
  
  NewestPairLoads
  QuietBooksAreWhole
  BestModelIsUsed
