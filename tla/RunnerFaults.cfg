SPECIFICATION FairSpec
CONSTANTS
  t1 = t1
  t2 = t2
  t3 = t3
  Tx <- AllTx
  Batch <- MixedBatch
  Watched <- OneWatched
  SendThreshold = 2
  UsizeMax = 20
  NoTimeout = NoTimeout
  Timeout = 2
  HasMonitor = TRUE
  PendingCounts <- ZeroToTwo
  Reported <- ForkStatuses
  MaxStatuses = 3
  Environment <- Faulty
INVARIANTS TypeOK ExactlyOnce OutcomeMatchesLog CountersMatchLogs
PROPERTIES ImplementsTxBatch TimeoutEndsRun StopEndsRun
