SPECIFICATION ReportSpec
CONSTANTS
  t1 = t1
  t2 = t2
  Tx <- PairTx
  Batch <- PairBatch
  Watched <- OneWatched
  UsizeMax = 20
  SendThreshold = 20
  NoTimeout = NoTimeout
  Timeout = NoTimeout
  HasMonitor = TRUE
  PendingCounts <- NoCounts
  Reported <- Statuses
  MaxStatuses = 2
  Environment <- StopsAtOnce
  MaxClock = 1
  None = None
  Namings <- SomeNamings
  Mishaps <- AllMishaps
INVARIANTS ReportTypeOK SummaryAgrees JournalSurvives LoadTellsTheSame UnwindsOnlySetBack
