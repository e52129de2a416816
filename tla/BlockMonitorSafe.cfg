SPECIFICATION FairSpec
CONSTANTS
  m2 = m2
  m3 = m3
  forever = forever
  Tx <- AllTx
  ValidUntil <- Lifetimes
  MaxBlocks = 4
  Capacity = 2
  Environment <- Faulty
INVARIANTS TypeOK NoOrphanedListener NoMissedBlock AnswersAreTrue
PROPERTY TakenIsNotified
