SPECIFICATION Spec
CONSTANTS
    Mantissa = 8
    MaxDigits = 3
    GDigits = 2
    NameLen = 6
    MaxStringLen = 8
    MaxNestElems = 2
    MaxNestDepth = 2
    MaxColumns = 4
    MaxRecordSize = 400
    MaxFilterGroups = 2
    MaxFilterKeys = 3
    MaxTerms = 1
    MaxTermLen = 1
    MaxLat = 1
    MaxLon = 1
    kdb_geo_distance_km <- NoDistance
    OpWords <- MCOpWords
    MaxCond = 3
    MaxCondDepth = 2
    MaxGroups = 3
    MaxCubeCols = 2
    MaxDistinct = 2
    MaxSorted = 3
    Relations <- MCRelations
    Operands <- MCOperands
    Clauses <- MCClauses
    Joins <- MCJoins
    Groupings <- MCGroupings
    AggItems <- MCAggItems
    Items <- MCItems
    Windows <- MCWindows
    Orders <- MCOrders
PROPERTIES ConditionsAreStandard JoinIsRelational GroupsCountOnce WindowsCount ResultsCount
VIEW MCView
CHECK_DEADLOCK FALSE
