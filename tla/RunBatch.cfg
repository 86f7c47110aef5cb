CONSTANTS
    MaxJobs = 4
    MaxConcurrency = 2
SPECIFICATION FairSpec
INVARIANTS
    TypeOK
    AllResultsOrError
    BatchInv
PROPERTIES
    NoStartAfterCancel
    KeepsBatchPromise
    NoGoroutineLeak
