SPECIFICATION FairSpec
CONSTANTS
  None = None
  U32Max = 7
  UsizeSpan = 64
  MaxAccounts = 6
  Names <- MCNames
  Parse <- MCParse
  to_string <- MCToString
  Keyring <- DevNames
  Machines <- MCMachines
  Sessions <- MCSessions
  MAX_ATTEMPTS = 10
  MaxLosses = 1
INVARIANTS TypeOK RangeDerivedOnce SoundIsBuilt BuiltSignsForAll GivesUpForAReason EndowedSuffices
PROPERTY StartupEnds
