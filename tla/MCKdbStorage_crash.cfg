SPECIFICATION Spec
CONSTANTS
  w = w
  r = r
  NoHandle = NoHandle
  Handles = {w, r}
  Writers = {w}
  Creators = {w}
  MaxRecords = 2
  MaxBatch = 1
  MaxKeys = 3
  CanDrop = TRUE
  CrashSites <- OutsideHeaderWindow
  IoFaults = {"rewrite", "rename", "reopen"}
INVARIANTS TypeOK IdsUnique AckedDurable
PROPERTIES ReaderStable
