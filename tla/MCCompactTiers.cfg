\* Three tiers that share both journals: one fault of any kind, and
\* tiers that are deleted.
CONSTANTS
  Tier = {"five", "minute", "hour"}
  Slots = 2
  Capacity <- MCCapacity
  LegacyCapacity <- MCLegacy
  KeepBlocks <- MCKeep
  Archive <- MCFullArchive
  ArchiveTime = 9
  ArchiveBlocks = 4
  Uncovered = {2}
  MaxTime = 9
  Request = {"clear"}
  FaultKind = {"cut", "io", "read"}
  MaxFaults = 1
  None = None
  Torn = Torn
SPECIFICATION Spec
INVARIANT MountsUnlessCleared
PROPERTY ImplementsRecordLog
CHECK_DEADLOCK FALSE
