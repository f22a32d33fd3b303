SPECIFICATION Spec
CONSTANTS
    Mantissa = 6
    MaxDigits = 3
    GDigits = 2
    NameLen = 3
    MaxStringLen = 2
    MaxNestElems = 2
    MaxNestDepth = 2
    MaxColumns = 2
    MaxRecordSize = 33
    Texts <- MCTexts
    Scalars <- MCScalars
    Nested <- MCNested
    LikePatterns <- MCLikePatterns
    LikeTexts <- MCLikeTexts
    Regexes <- MCRegexes
    RegexTexts <- MCRegexTexts
    Records <- MCRecords
INVARIANTS
    ConversionsReturn
    ComparisonsAgree
    PatternsAreReference
    RecordReadsBack
