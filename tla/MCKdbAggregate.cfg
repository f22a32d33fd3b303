SPECIFICATION Spec
CONSTANTS
    Mantissa = 8
    MaxDigits = 3
    GDigits = 2
    NameLen = 3
    MaxStringLen = 8
    MaxNestElems = 3
    MaxNestDepth = 2
    MaxColumns = 4
    MaxRecordSize = 400
    MaxFilterGroups = 2
    MaxFilterKeys = 2
    MaxTerms = 3
    MaxTermLen = 4
    MaxLat = 2
    MaxLon = 2
    MaxAggGroups = 2
    MaxGroupKeys = 2
    MaxSortKeys = 2
    MaxStages = 2
    OpWords <- MCOpWords
    kdb_geo_distance_km <- Taxicab
    Tables <- MCTables
    Others <- MCOthers
    Filters <- MCFilters
    GroupBys <- MCGroupBys
    SortKeys <- MCSortKeys
    Fields <- MCFields
INVARIANTS
    FindIsExact
    PipelineIsRelational
    SearchesAreExact
