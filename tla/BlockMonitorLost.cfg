SPECIFICATION FairSpec
CONSTANTS
  m2 = m2
  m3 = m3
  forever = forever
  Tx <- PairTx
  ValidUntil <- PairLifetimes
  MaxBlocks = 3
  Capacity = 1
  Environment <- Calm
PROPERTY FinalizedIsNotified
