SPECIFICATION MonitoredFairSpec
CONSTANTS
  m1 = m1
  m2 = m2
  Tx <- Both
  Batch <- BothBatch
  Watched <- None
  SendThreshold = 20
  UsizeMax = 20
  NoTimeout = NoTimeout
  Timeout = NoTimeout
  HasMonitor = TRUE
  PendingCounts <- None
  Reported <- None
  MaxStatuses = 0
  Environment <- AroundRun
  ValidUntil <- Lifetimes
  MaxBlocks = 3
  Capacity = 1
  MonitorEnvironment <- AroundMonitor
  MaxMissed = 1
INVARIANTS OutcomeTrue PanicMeansMonitorDead
PROPERTY HeardRunEnds
