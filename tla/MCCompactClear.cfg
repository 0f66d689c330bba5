\* An administrator deletes the minute tier of a converted history.
CONSTANTS
  Tier = {"minute"}
  Slots = 2
  Capacity <- MCCapacity
  LegacyCapacity <- MCLegacy
  KeepBlocks <- MCKeep
  Archive <- MCArchive
  ArchiveTime = 5
  ArchiveBlocks = 2
  Uncovered = {}
  MaxTime = 6
  Request = {"restart", "clear"}
  FaultKind = {}
  MaxFaults = 0
  None = None
  Torn = Torn
SPECIFICATION Spec
INVARIANT BootMounts
CHECK_DEADLOCK FALSE
