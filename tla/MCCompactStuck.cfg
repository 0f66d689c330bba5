\* One failed step, and the main loop that goes on.
CONSTANTS
  Tier = {"minute"}
  Slots = 2
  Capacity <- MCCapacity
  LegacyCapacity <- MCLegacy
  KeepBlocks <- MCKeep
  Archive <- MCArchive
  ArchiveTime = 5
  ArchiveBlocks = 2
  Uncovered = {}
  MaxTime = 6
  Request = {"flush", "restart"}
  FaultKind = {"io"}
  MaxFaults = 1
  None = None
  Torn = Torn
SPECIFICATION FairSpec
PROPERTY RecordedEventually
CHECK_DEADLOCK FALSE
