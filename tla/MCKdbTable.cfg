CONSTANTS
    Mantissa = 4
    MaxDigits = 2
    GDigits = 2
    NameLen = 2
    MaxStringLen = 3
    MaxNestElems = 2
    MaxNestDepth = 2
    ColNames <- MCColNames
    Values <- MCValues
    Types <- MCTypes
    Matches <- MCMatches
    Cast <- kdb_value_cast
    Bad <- MCBad
    Hash <- MCHash
    Size <- MCSize
    LookupCap = 2
    MaxColumns = 3
    MaxRecordSize = 400
    ColumnCap = 2
    MaxComposites = 1
    MaxCompositeCols = 2
    MaxChecks = 1
    NewColumns <- MCNewColumns
    InsertRows <- MCInsertRows
    Batches <- MCBatches
    Patches <- MCPatches
    Queries <- MCQueries
    Checks <- MCChecks
    Defaults <- MCDefaults
    MaxRows = 2
    MaxAlters = 2
    MaxFaults = 1
SPECIFICATION Spec
INVARIANTS AnswersExact AckedSchemaOnDisk
PROPERTIES IndexesFollowWrites WritesKeepConstraints FailuresAreClean
CHECK_DEADLOCK FALSE
