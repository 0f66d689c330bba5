\* The minute tier alone: any conversion, any two power cuts or failed steps.
CONSTANTS
  Tier = {"minute"}
  Slots = 2
  Capacity <- MCCapacity
  LegacyCapacity <- MCLegacy
  KeepBlocks <- MCKeep
  Archive <- MCArchive
  ArchiveTime = 8
  ArchiveBlocks = 4
  Uncovered = {}
  MaxTime = 11
  Request = {"flush", "restart"}
  FaultKind = {"cut", "io"}
  MaxFaults = 2
  None = None
  Torn = Torn
SPECIFICATION FairSpec
INVARIANTS TypeOK BootMounts HeadAgrees
PROPERTIES ImplementsRecordLog RecordedUnlessBlocked
CHECK_DEADLOCK FALSE
