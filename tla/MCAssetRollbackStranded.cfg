\* One power cut while prepare() erases the journal of an earlier transaction.
CONSTANTS
  Version <- MCVersion
  AssetsOf <- MCAssetsOf
  Reader <- MCReader
  None = None
  JournalSize = 4
  FaultKind = {"cut", "torn_erase"}
  MaxFaults = 1
  MaxUpdates = 3
SPECIFICATION Spec
INVARIANT RecoveryDecides
CHECK_DEADLOCK FALSE
