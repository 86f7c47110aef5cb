SPECIFICATION FingerprintSpec
CONSTANTS
    Catalogs <- SomeCatalogs
    Null = Null
    MaxAlterations = 2
    MaxCollections = 2
    MaxFieldBytes = 3
    MaxRecordBytes = 8
    MaxRowsPerGroup = 2
    MaxTotalBytes = 24
CHECK_DEADLOCK FALSE
INVARIANTS
    SamePrintSameSchema
    LimitsAreOfTheWhole
