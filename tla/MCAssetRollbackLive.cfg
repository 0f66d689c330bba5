\* Power cuts only: recovery always has an answer, every transaction ends, and
\* the update implements UpdatePair.
CONSTANTS
  Version <- MCVersion
  AssetsOf <- MCAssetsOf
  Reader <- MCReader
  None = None
  JournalSize = 4
  FaultKind = {"cut"}
  MaxFaults = 3
  MaxUpdates = 3
SPECIFICATION FairSpec
INVARIANT RecoveryDecides
PROPERTIES TransactionEnds ImplementsUpdatePair
CHECK_DEADLOCK FALSE
