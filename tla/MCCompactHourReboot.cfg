\* The hour tier with restarts only: a file one block above its limit.
CONSTANTS
  Tier = {"hour"}
  Slots = 2
  Capacity <- MCCapacity
  LegacyCapacity <- MCLegacy
  KeepBlocks <- MCKeep
  Archive <- MCArchive
  ArchiveTime = 6
  ArchiveBlocks = 4
  Uncovered = {}
  MaxTime = 11
  Request = {"restart"}
  FaultKind = {}
  MaxFaults = 0
  None = None
  Torn = Torn
SPECIFICATION Spec
INVARIANT BootMounts
CHECK_DEADLOCK FALSE
