SPECIFICATION SubxtSpec
CONSTANTS
  t1 = t1
  t2 = t2
  t3 = t3
  Tx <- AllTx
  Batch <- MixedBatch
  Watched <- OneWatched
  SendThreshold = 2
  UsizeMax = 20
  NoTimeout = NoTimeout
  Timeout = NoTimeout
  HasMonitor = FALSE
  PendingCounts <- Counts
  Reported <- Outcomes
  MaxStatuses = 2
  MaxForeign = 1
  LossyLink = TRUE
  Environment <- RpcFails
INVARIANTS BufferedExact UnsubmittedWithinThreshold LeftBehindOnlyWhenFull
PROPERTY FreshCountKeepsThreshold
