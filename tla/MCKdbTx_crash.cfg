SPECIFICATION FairSpec
CONSTANTS
  a = a
  b = b
  c = c
  Tables = {a, b, c}
  Empty = Empty
  Contents = {Empty, c1}
  NoFile = NoFile
  Torn = Torn
  Names = {n1}
  MaxTables = 2
  MaxSavepoints = 1
  InitFiles = {a, b, c}
  Droppable = {}
  Cascades <- NoCascades
  CrashSites <- NotWhileCopying
  IoFaults = {"backup", "marker"}
INVARIANTS NoLeftovers
PROPERTIES AllOrNothing CallReturns
