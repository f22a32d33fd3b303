SPECIFICATION Spec
CONSTANTS
  a = a
  b = b
  c = c
  Tables = {a, b}
  Empty = Empty
  Contents = {Empty, c1}
  NoFile = NoFile
  Torn = Torn
  Names = {n1}
  MaxTables = 2
  MaxSavepoints = 1
  InitFiles = {a, b}
  Droppable = {b}
  Cascades <- CascadeToB
  CrashSites <- Anywhere
  IoFaults = {"backup", "marker", "restore", "recover"}
INVARIANTS TypeOK NoOrphanHandle
PROPERTIES OutcomeSettled
