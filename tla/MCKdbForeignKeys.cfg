CONSTANTS
    Tables = {"a", "b", "c"}
    ColOrder <- MCColOrder
    Vals <- MCVals
    Null = Null
    NotNull <- MCNotNull
    Unique <- MCUnique
    Default <- MCDefault
    Schemas <- MCSchemas
    NewKeys <- MCNewKeys
    Records <- MCRecords
    Imports <- MCImports
    Patches <- MCPatches
    Queries <- MCQueries
    Misses <- MCMisses
    Clock = {1}
    MaxDepth = 2
    MaxReferencers = 2
    MaxCompositeReferencers = 2
    MaxCompositeKeys = 4
    MaxRows = 2
    MaxAlters = 1
    MaxId = 3
SPECIFICATION Spec
PROPERTIES AcceptedWritesKeepReferences RestrictLeavesNothingBehind DeleteRemovesClosure
CHECK_DEADLOCK FALSE
VIEW MCView
