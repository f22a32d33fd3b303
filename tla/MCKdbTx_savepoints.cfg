SPECIFICATION HSpec
CONSTANTS
  a = a
  b = b
  c = c
  Tables = {a, b}
  Empty = Empty
  Contents = {Empty, c1}
  NoFile = NoFile
  Torn = Torn
  Names = {n1, n2}
  MaxTables = 2
  MaxSavepoints = 2
  InitFiles = {a}
  Droppable = {b}
  Cascades <- CascadeToSelf
  CrashSites <- OutsideTx
  IoFaults = {"backup", "marker"}
INVARIANTS AtRestAsPromised SavepointExact
