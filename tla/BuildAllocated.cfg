SPECIFICATION FairSpec
CONSTANTS
  a1 = a1
  a2 = a2
  AccountIds <- TwoAccounts
  TxsCount = 2
  NonceFrom = NoNonce
  NoNonce = NoNonce
  Mortalities <- TwoOrNone
  Immortal = Immortal
  Parallelism = 3
  Retries = 2
  FirstNonces <- JustThree
  MaxAdvance = 1
  MaxFinalized = 1
  NodeFails = TRUE
INVARIANTS EarlyOnlyByRounding NoncesContiguous BatchInOrder
PROPERTY BuildEnds
