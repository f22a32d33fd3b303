SPECIFICATION FairSpec
CONSTANTS
  w = w
  r = r
  NoHandle = NoHandle
  Handles = {w, r}
  Writers = {w, r}
  Creators = {w, r}
  MaxRecords = 2
  MaxBatch = 2
  MaxKeys = 1
  CanDrop = FALSE
  CrashSites <- OnceCreated
  IoFaults = {"append", "flush", "rewrite", "rename", "reopen"}
INVARIANT NamedFileWhole
PROPERTIES LockGivenBack
