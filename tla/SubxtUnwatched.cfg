SPECIFICATION SubxtSpec
CONSTANTS
  t1 = t1
  t2 = t2
  t3 = t3
  Tx <- PairTx
  Batch <- PairBatch
  Watched <- NoneWatched
  SendThreshold = 1
  UsizeMax = 20
  NoTimeout = NoTimeout
  Timeout = NoTimeout
  HasMonitor = FALSE
  PendingCounts <- Counts
  Reported <- FinalizedOnly
  MaxStatuses = 1
  MaxForeign = 0
  LossyLink = FALSE
  Environment <- Calm
INVARIANT DrainsBatch
