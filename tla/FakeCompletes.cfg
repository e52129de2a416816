SPECIFICATION FakeFairSpec
CONSTANTS
  t1 = t1
  t2 = t2
  t3 = t3
  t4 = t4
  t5 = t5
  Tx <- AllTx
  Batch <- FullBatch
  Watched <- SomeWatched
  StreamDefs <- MixedStreams
  SendThreshold = 2
  UsizeMax = 20
  NoTimeout = NoTimeout
  Timeout = NoTimeout
  HasMonitor = FALSE
  PendingCounts <- AnyCount
  Reported <- AnyStatus
  MaxStatuses = 6
  Environment <- CtrlC
INVARIANTS TxsExact InFlightWithinThreshold FakeDrainsBatch OutcomeFollowsStream
PROPERTY FakeRunEnds
