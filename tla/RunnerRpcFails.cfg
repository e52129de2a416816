SPECIFICATION FairSpec
CONSTANTS
  t1 = t1
  t2 = t2
  t3 = t3
  Tx <- PairTx
  Batch <- PairBatch
  Watched <- TwoWatched
  SendThreshold = 1
  UsizeMax = 20
  NoTimeout = NoTimeout
  Timeout = 1
  HasMonitor = FALSE
  PendingCounts <- ZeroAndTwo
  Reported <- ShortStatuses
  MaxStatuses = 1
  Environment <- RpcFails
PROPERTY TimeoutReturnsLogs
