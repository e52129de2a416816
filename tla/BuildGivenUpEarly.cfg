SPECIFICATION Spec
CONSTANTS
  a1 = a1
  a2 = a2
  AccountIds <- OneAccount
  TxsCount = 1
  NonceFrom = NoNonce
  NoNonce = NoNonce
  Mortalities <- JustTwo
  Immortal = Immortal
  Parallelism = 1
  Retries = 2
  FirstNonces <- JustThree
  MaxAdvance = 1
  MaxFinalized = 1
  NodeFails = FALSE
INVARIANT LifetimeIsSurpassed
