CONSTANTS
    None = None
    Texts = {text}
    Databases <- SmallDatabases
    MaxSnapshots = 3
SPECIFICATION ComparisonSpec
INVARIANTS
    DiffIsAPatch
    LongerDiffsAgree
    RegressionsAreOfLatency
PROPERTIES
    ReportIsReproducible
