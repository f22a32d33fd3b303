CONSTANTS
    Mantissa = 4
    MaxDigits = 2
    GDigits = 2
    NameLen = 2
    MaxStringLen = 3
    MaxNestElems = 2
    MaxNestDepth = 2
    ColNames <- MCColNames
    Values <- MCValues
    Types <- MCTypes
    Matches <- MCMatches
    Cast <- kdb_value_cast
    Bad <- MCBad
    Hash <- MCHash
    Size <- MCSize
    LookupCap = 2
    MaxColumns = 3
    MaxRecordSize = 400
    ColumnCap = 2
    MaxComposites = 1
    MaxCompositeCols = 2
    MaxChecks = 1
    NewColumns <- MCNewColumns
    InsertRows <- TypedRows
    Batches <- MCBatches
    Patches <- MCPatches
    Queries <- TypedQueries
    Checks <- MCChecks
    Defaults <- MCDefaults
    MaxRows = 2
    MaxAlters = 2
    MaxFaults = 0
SPECIFICATION Spec
INVARIANT IndexOnlyAccelerates
CHECK_DEADLOCK FALSE
