\* Two releases, three update attempts, and any three power cuts, failed
\* operations, damaged images or journal erases that stop half way.  The system
\* stops when the attempts are used up.
CONSTANTS
  Version <- MCVersion
  AssetsOf <- MCAssetsOf
  Reader <- MCReader
  None = None
  JournalSize = 4
  FaultKind = {"cut", "io", "damage", "torn_erase"}
  MaxFaults = 3
  MaxUpdates = 3
SPECIFICATION Spec
INVARIANTS TypeOK PairAtomic OldPairKept OnePending JournalRoom SettledPair MigrationSafe BootableAlways
PROPERTY CommittedStays
CHECK_DEADLOCK FALSE
